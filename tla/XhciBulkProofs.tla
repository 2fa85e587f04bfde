---------------------------- MODULE XhciBulkProofs ----------------------------
(***************************************************************************)
(* Proofs about XhciBulk, for every ring size, number of endpoints and     *)
(* length of a transfer.  The ring alone comes first, then the inductive   *)
(* invariant: the ring holds the TRBs of one transfer.                     *)
(*                                                                         *)
(* Under it the ring implements the bounded queue of TransferQueue: every  *)
(* step of the driver or the controller is a step of the queue or leaves   *)
(* it alone.                                                               *)
(*                                                                         *)
(* A transfer completes with the bytes that were moved: the account of one *)
(* transfer relates `moved' to the TRBs behind the controller, to the first *)
(* event that reports one of them, and to what the driver remembers of it. *)
(***************************************************************************)
EXTENDS XhciBulk, TLAPS, SequenceTheorems

\* A lap has the other cycle bit than the lap before.
LEMMA Toggle ==
    \A x, y \in BOOLEAN : (~x) \in BOOLEAN /\ ((y = ~x) <=> (y # x)) /\ ~~x = x
  OBVIOUS

(* The ring                                                                *)

\* Every TRB below the enqueue pointer is of the producer's lap, no other is.
RingOK(r) ==
    /\ r \in RingType
    /\ \A i \in Slots : (r.buf[i].cycle = r.cycle_bit) <=> (i < r.write_index)
    /\ r.link # r.cycle_bit

\* The controller is on the producer's lap and behind it, or a lap behind and
\* not overtaken.
PositionOK(r, c) ==
    /\ c.deq \in 0 .. LinkSlot /\ c.ccs \in BOOLEAN
    /\ IF HeadCycle(c) = r.cycle_bit
       THEN HeadSlot(c) <= r.write_index ELSE r.write_index <= HeadSlot(c)

\* The occupancy of a ring is between zero and its usable size, and the
\* enqueue pointer is that far from the dequeue pointer.
LEMMA OccupancyBounds ==
    ASSUME NEW r, NEW c, RingOK(r), PositionOK(r, c)
    PROVE  /\ Occupancy(r, c) \in 0 .. UsableSize
           /\ HeadSlot(c) \in Slots
           /\ r.write_index = SlotAfter(HeadSlot(c), Occupancy(r, c))
  <1>1. r.write_index \in 0 .. Size - 2
    BY DEF RingOK, RingType, Slots
  <1>2. HeadSlot(c) \in 0 .. Size - 2
    BY RingAssumption DEF PositionOK, HeadSlot, LinkSlot
  <1>3. CASE HeadCycle(c) = r.cycle_bit
    <2>1. HeadSlot(c) <= r.write_index /\ Occupancy(r, c) = r.write_index - HeadSlot(c)
      BY <1>3 DEF PositionOK, Occupancy
    <2> QED BY <1>1, <1>2, <2>1, RingAssumption DEF SlotAfter, Slots, UsableSize
  <1>4. CASE HeadCycle(c) # r.cycle_bit
    <2>1. r.write_index <= HeadSlot(c)
          /\ Occupancy(r, c) = UsableSize - HeadSlot(c) + r.write_index
      BY <1>4 DEF PositionOK, Occupancy
    <2> QED BY <1>1, <1>2, <2>1, RingAssumption DEF SlotAfter, Slots, UsableSize
  <1> QED BY <1>3, <1>4

\* Push keeps the cycle bits in order, wherever the lap ends.
LEMMA PushRing ==
    ASSUME NEW r, RingOK(r), NEW item \in Items \cup {NoItem}, NEW last \in BOOLEAN
    PROVE  /\ RingOK(Push(r, item, last))
           /\ Push(r, item, last).write_index = SlotAfter(r.write_index, 1)
           /\ Push(r, item, last).buf = [r.buf EXCEPT ![r.write_index] =
                 [cycle |-> r.cycle_bit, item |-> item, last |-> last]]
  <1> DEFINE b == [r.buf EXCEPT ![r.write_index] =
                      [cycle |-> r.cycle_bit, item |-> item, last |-> last]]
  <1>1. r.write_index \in Slots /\ r.cycle_bit \in BOOLEAN
    BY DEF RingOK, RingType
  <1>2. b \in [Slots -> [cycle : BOOLEAN, item : Items \cup {NoItem}, last : BOOLEAN]]
    BY <1>1 DEF RingOK, RingType
  <1>3. \A i \in Slots : b[i] = IF i = r.write_index
              THEN [cycle |-> r.cycle_bit, item |-> item, last |-> last] ELSE r.buf[i]
    BY <1>1 DEF RingOK, RingType
  <1>4. Push(r, item, last) =
          IF r.write_index + 1 = LinkSlot
          THEN [buf |-> b, link |-> r.cycle_bit,
                write_index |-> 0, cycle_bit |-> ~r.cycle_bit]
          ELSE [buf |-> b, link |-> r.link,
                write_index |-> r.write_index + 1, cycle_bit |-> r.cycle_bit]
    BY DEF Push
  <1> HIDE DEF b
  <1>5. \A i \in Slots : (b[i].cycle = r.cycle_bit) <=> (i < r.write_index + 1)
    BY <1>1, <1>3 DEF RingOK, RingType, Slots
  <1>6. CASE r.write_index + 1 = LinkSlot
    <2>1. Push(r, item, last) \in RingType
      BY <1>1, <1>2, <1>4, <1>6, RingAssumption DEF RingType, Slots
    <2>2. \A i \in Slots : b[i].cycle \in BOOLEAN /\ i < LinkSlot /\ i >= 0
      BY <1>2, RingAssumption DEF Slots, LinkSlot
    <2>3. \A i \in Slots : (b[i].cycle = ~r.cycle_bit) <=> (i < 0)
      <3>1. \A i \in Slots : b[i].cycle = r.cycle_bit
        BY <1>1, <1>5, <1>6, <2>2
      <3>2. \A i \in Slots : b[i].cycle # ~r.cycle_bit
        BY <1>1, <2>2, <3>1, Toggle, Zenon
      <3> QED BY <2>2, <3>2, RingAssumption DEF LinkSlot, Slots
    <2>4. Push(r, item, last) = [buf |-> b, link |-> r.cycle_bit,
                write_index |-> 0, cycle_bit |-> ~r.cycle_bit]
      BY <1>4, <1>6
    <2>5. r.cycle_bit # ~r.cycle_bit
      BY <1>1, Toggle, Zenon
    <2>6. SlotAfter(r.write_index, 1) = 0
      BY <1>1, <1>6, RingAssumption DEF SlotAfter, LinkSlot, UsableSize, Slots
    <2>7. RingOK(Push(r, item, last))
      BY <2>1, <2>3, <2>4, <2>5 DEF RingOK
    <2> QED BY <2>4, <2>6, <2>7 DEF b
  <1>7. CASE r.write_index + 1 # LinkSlot
    <2>1. Push(r, item, last) \in RingType
      BY <1>1, <1>2, <1>4, <1>7, RingAssumption DEF RingOK, RingType, Slots, LinkSlot
    <2> QED
      BY <1>1, <1>4, <1>5, <1>7, <2>1, RingAssumption
      DEF RingOK, RingType, SlotAfter, Slots, LinkSlot, UsableSize, b
  <1> QED BY <1>6, <1>7

\* What a ring holds depends on the controller's position past the Link TRB.
LEMMA SamePosition ==
    ASSUME NEW r, NEW c, NEW d, HeadSlot(d) = HeadSlot(c), HeadCycle(d) = HeadCycle(c),
           d.deq \in 0 .. LinkSlot, d.ccs \in BOOLEAN
    PROVE  /\ PositionOK(r, c) => PositionOK(r, d)
           /\ Occupancy(r, d) = Occupancy(r, c)
           /\ Contents(r, d) = Contents(r, c)
  BY DEF PositionOK, Occupancy, Contents

\* Following the Link TRB, the controller stays where it is.
LEMMA LinkedPosition ==
    ASSUME NEW c \in ContextType, c.deq = LinkSlot
    PROVE  /\ Linked(c) \in ContextType
           /\ HeadSlot(Linked(c)) = HeadSlot(c) /\ HeadCycle(Linked(c)) = HeadCycle(c)
  <1>1. c.ccs \in BOOLEAN /\ (~c.ccs) \in BOOLEAN
    BY Toggle DEF ContextType
  <1>2. 0 \in 0 .. LinkSlot /\ 0 # LinkSlot
    BY RingAssumption DEF LinkSlot
  <1>3. Linked(c) \in ContextType /\ Linked(c).deq = 0 /\ Linked(c).ccs = ~c.ccs
    BY <1>1, <1>2 DEF Linked, ContextType
  <1> QED BY <1>2, <1>3 DEF HeadSlot, HeadCycle

\* At the enqueue pointer the ring is empty.
LEMMA EmptyAtEnd ==
    ASSUME NEW r, RingOK(r), NEW c, c.deq = r.write_index, c.ccs = r.cycle_bit
    PROVE  PositionOK(r, c) /\ Occupancy(r, c) = 0
  <1>1. r.write_index \in 0 .. LinkSlot /\ r.write_index # LinkSlot /\ r.cycle_bit \in BOOLEAN
    BY RingAssumption DEF RingOK, RingType, Slots, LinkSlot
  <1>2. HeadSlot(c) = r.write_index /\ HeadCycle(c) = r.cycle_bit
    BY <1>1 DEF HeadSlot, HeadCycle
  <1> QED BY <1>1, <1>2, RingAssumption DEF PositionOK, Occupancy, LinkSlot

\* Push into a ring with room: one TRB more, behind the others, which stay.
LEMMA PushPosition ==
    ASSUME NEW r, RingOK(r), NEW c, PositionOK(r, c), Occupancy(r, c) < UsableSize,
           NEW item \in Items \cup {NoItem}, NEW last \in BOOLEAN
    PROVE  LET q == Push(r, item, last)
               o == Occupancy(r, c)
           IN  /\ PositionOK(q, c) /\ Occupancy(q, c) = o + 1
               /\ \A k \in 1 .. o : q.buf[SlotAfter(HeadSlot(c), k - 1)]
                                       = r.buf[SlotAfter(HeadSlot(c), k - 1)]
               /\ q.buf[SlotAfter(HeadSlot(c), o)]
                     = [cycle |-> r.cycle_bit, item |-> item, last |-> last]
  <1> DEFINE q == Push(r, item, last)
             o == Occupancy(r, c)
             h == HeadSlot(c)
             w == r.write_index
  <1>1. /\ w \in Slots /\ r.cycle_bit \in BOOLEAN
        /\ c.deq \in 0 .. LinkSlot /\ c.ccs \in BOOLEAN
        /\ r.buf \in [Slots -> [cycle : BOOLEAN, item : Items \cup {NoItem}, last : BOOLEAN]]
    BY DEF RingOK, RingType, PositionOK
  <1>2. HeadCycle(c) \in BOOLEAN
    BY <1>1, Toggle DEF HeadCycle
  <1>3. o \in 0 .. UsableSize /\ o < UsableSize /\ h \in Slots /\ w = SlotAfter(h, o)
    BY OccupancyBounds
  <1>4. q.buf = [r.buf EXCEPT ![w] = [cycle |-> r.cycle_bit, item |-> item, last |-> last]]
    BY PushRing
  <1>5. \A k \in 1 .. o : SlotAfter(h, k - 1) \in Slots /\ SlotAfter(h, k - 1) # w
    <2> HIDE DEF o, h, w
    <2> QED BY <1>3, RingAssumption DEF SlotAfter, Slots, UsableSize
  <1>6. PositionOK(q, c) /\ Occupancy(q, c) = o + 1
    <2>1. CASE w + 1 = LinkSlot
      <3>1. q.write_index = 0 /\ q.cycle_bit = ~r.cycle_bit
        BY <2>1 DEF Push
      <3>2. HeadCycle(c) = r.cycle_bit
        <4> SUFFICES ASSUME HeadCycle(c) # r.cycle_bit PROVE FALSE
          OBVIOUS
        <4>1. w <= h /\ o = UsableSize - h + w
          BY DEF PositionOK, Occupancy
        <4> HIDE DEF o, h, w
        <4> QED BY <1>1, <1>3, <2>1, <4>1, RingAssumption DEF Slots, UsableSize, LinkSlot
      <3>3. HeadCycle(c) # q.cycle_bit
        BY <1>1, <3>1, <3>2, Toggle, Zenon
      <3> QED
        BY <1>1, <1>3, <2>1, <3>1, <3>2, <3>3, RingAssumption
        DEF Occupancy, PositionOK, Slots, UsableSize, LinkSlot
    <2>2. CASE w + 1 # LinkSlot
      <3>1. q.write_index = w + 1 /\ q.cycle_bit = r.cycle_bit
        BY <2>2 DEF Push
      <3>2. CASE HeadCycle(c) = r.cycle_bit
        BY <1>1, <1>3, <2>2, <3>1, <3>2, RingAssumption
        DEF Occupancy, PositionOK, Slots, UsableSize, LinkSlot
      <3>3. CASE HeadCycle(c) # r.cycle_bit
        <4>1. w <= h /\ o = UsableSize - h + w
          BY <3>3 DEF PositionOK, Occupancy
        <4>2. Occupancy(q, c) = UsableSize - h + (w + 1)
          BY <3>1, <3>3 DEF Occupancy
        <4>3. w + 1 <= h /\ Occupancy(q, c) = o + 1
          <5>1. w \in Int /\ h \in Int /\ UsableSize \in Int
            BY <1>1, <1>3, RingAssumption DEF Slots, UsableSize
          <5>2. o < UsableSize
            BY <1>3
          <5> HIDE DEF q, o, h, w
          <5> QED BY <4>1, <4>2, <5>1, <5>2
        <4> QED BY <1>1, <3>1, <3>3, <4>3 DEF PositionOK
      <3> QED BY <3>2, <3>3
    <2> QED BY <2>1, <2>2
  <1> QED
    <2> HIDE DEF q, o, h, w
    <2>1. \A k \in 1 .. o : q.buf[SlotAfter(h, k - 1)] = r.buf[SlotAfter(h, k - 1)]
      BY <1>1, <1>4, <1>5
    <2>2. q.buf[SlotAfter(h, o)] = [cycle |-> r.cycle_bit, item |-> item, last |-> last]
      BY <1>1, <1>3, <1>4
    <2> QED BY <1>6, <2>1, <2>2 DEF q, o, h, w

\* A TRB the controller owns is queued, and taking it leaves the rest.
LEMMA TakePosition ==
    ASSUME NEW r, RingOK(r), NEW c, PositionOK(r, c), c.deq # LinkSlot, Owned(r, c),
           NEW d, d.deq = c.deq + 1, d.ccs = c.ccs
    PROVE  /\ HeadSlot(c) = c.deq /\ c.deq \in Slots
           /\ Occupancy(r, c) > 0
           /\ PositionOK(r, d) /\ Occupancy(r, d) = Occupancy(r, c) - 1
           /\ HeadSlot(d) = SlotAfter(HeadSlot(c), 1)
  <1> DEFINE w == r.write_index
  <1>1. /\ w \in Slots /\ r.cycle_bit \in BOOLEAN
        /\ c.deq \in 0 .. LinkSlot /\ c.ccs \in BOOLEAN
    BY DEF RingOK, RingType, PositionOK
  <1>2. HeadSlot(c) = c.deq /\ c.deq \in Slots /\ HeadCycle(c) = c.ccs
    BY <1>1, RingAssumption DEF HeadSlot, HeadCycle, Slots, LinkSlot
  <1>3. r.buf[c.deq].cycle = c.ccs /\ ((r.buf[c.deq].cycle = r.cycle_bit) <=> (c.deq < w))
    BY <1>2 DEF RingOK, Owned
  <1>4. (c.ccs = r.cycle_bit) <=> (c.deq < w)
    BY <1>3
  <1>5. d.deq \in 0 .. LinkSlot
    BY <1>1, RingAssumption DEF LinkSlot
  <1>6. HeadSlot(d) = SlotAfter(HeadSlot(c), 1)
    BY <1>1, <1>2, RingAssumption DEF HeadSlot, SlotAfter, Slots, LinkSlot, UsableSize
  <1>7. CASE c.ccs = r.cycle_bit
    <2>1. d.deq # LinkSlot
      BY <1>1, <1>4, <1>7, RingAssumption DEF Slots, LinkSlot
    <2>2. HeadSlot(d) = c.deq + 1 /\ HeadCycle(d) = r.cycle_bit
      BY <1>7, <2>1 DEF HeadSlot, HeadCycle
    <2> QED
      BY <1>1, <1>2, <1>4, <1>5, <1>6, <1>7, <2>2, RingAssumption
      DEF Occupancy, PositionOK, Slots, UsableSize, LinkSlot
  <1>8. CASE c.ccs # r.cycle_bit
    <2>1. Occupancy(r, c) = UsableSize - c.deq + w /\ w <= c.deq
      BY <1>2, <1>8 DEF Occupancy, PositionOK
    <2>2. CASE d.deq = LinkSlot
      <3>1. HeadCycle(d) = ~c.ccs /\ HeadSlot(d) = 0
        BY <2>2 DEF HeadSlot, HeadCycle
      <3>2. r.cycle_bit = ~c.ccs
        BY <1>1, <1>8, Toggle, Zenon
      <3>3. Occupancy(r, d) = w - 0
        BY <3>1, <3>2 DEF Occupancy
      <3>4. HeadSlot(d) <= w /\ HeadCycle(d) = r.cycle_bit
        BY <1>1, <3>1, <3>2, RingAssumption DEF Slots
      <3>5. PositionOK(r, d)
        BY <1>1, <1>5, <3>4 DEF PositionOK
      <3> QED
        BY <1>1, <1>2, <1>6, <2>1, <2>2, <3>3, <3>5, RingAssumption
        DEF Slots, UsableSize, LinkSlot
    <2>3. CASE d.deq # LinkSlot
      <3>1. HeadCycle(d) = c.ccs /\ HeadSlot(d) = c.deq + 1
        BY <2>3 DEF HeadSlot, HeadCycle
      <3>2. Occupancy(r, d) = UsableSize - (c.deq + 1) + w
        BY <1>8, <3>1 DEF Occupancy
      <3>3. PositionOK(r, d)
        BY <1>1, <1>2, <1>5, <1>8, <2>1, <3>1, RingAssumption DEF PositionOK, Slots
      <3> QED
        BY <1>1, <1>2, <1>6, <2>1, <3>2, <3>3, RingAssumption DEF Slots, UsableSize
    <2> QED BY <2>2, <2>3
  <1> QED BY <1>7, <1>8

-----------------------------------------------------------------------------
(* The inductive invariant                                                 *)

Commands == {"ResetEndpoint", "ClearTTBuffer", "SetDequeuePointer"}

\* Events the controller posts.
EventType ==
    [kind : {"transfer"}, ep : Endpoints, trb : Slots,
     code : {"Success", "Short", "Error"}, residual : Nat]
    \cup [kind : Commands, ep : Endpoints, ok : BOOLEAN]
    \cup [kind : {"control"}, req : {"ClearHalt"}, ep : Endpoints, ok : BOOLEAN]

\* Requests on the control endpoint.
RequestType == [req : {"ClearHalt"}, ep : Endpoints]

\* Callbacks that are to be run.
CallType ==
    [fn : {"Completed", "Recovered", "ControlDone", "ResetDone", "ClearHaltDone"},
     ep : Endpoints, ok : BOOLEAN, item : Items \cup {NoItem, "ClearHalt"}, len : Int,
     done : BOOLEAN, err : BOOLEAN]

\* One endpoint: its ring r, pending transfer p, TRBs n still to be pushed and
\* controller context c.  What is in the ring is of the pending transfer, which
\* ends at the enqueue pointer; a recovery keeps the controller off the ring.
EndpointOK(r, p, n, c) ==
    /\ PositionOK(r, c)
    /\ Occupancy(r, c) + n <= p.count
    /\ ~p.active => p.count = 0 /\ p.phase = "None"
    /\ p.active => p.item \in Items /\ p.count >= 1
    /\ p.active /\ n < p.count => r.write_index = SlotAfter(p.first, p.count - n)
    /\ p.active /\ n = 0 => /\ p.last = SlotAfter(p.first, p.count - 1)
                            /\ p.next = r.write_index /\ p.next_cycle = r.cycle_bit
    /\ \A k \in 1 .. Occupancy(r, c) :
          LET t == r.buf[SlotAfter(HeadSlot(c), k - 1)]
          IN  t.item = p.item /\ (n > 0 => ~t.last)
    /\ p.phase # "None" => p.active /\ n = 0 /\ c.state \in {"halted", "stopped"}
    /\ c.cmd # "none" => c.cmd = p.phase

\* An event in the ring: a TRB of the pending transfer the controller has taken,
\* or the halted TRB, or the answer to the command of the current phase.
EventOK(r, p, n, c, ev) ==
    /\ ev.kind = "transfer" =>
          /\ p.active /\ p.phase = "None" /\ n < p.count /\ ev.trb \in Slots
          /\ IF ev.code = "Error" THEN c.state = "halted"
             ELSE TrbIndex(p.first, ev.trb) < p.count - n - Occupancy(r, c)
    /\ ev.kind \in Commands =>
          /\ p.phase = ev.kind /\ c.cmd = "none"
          /\ ev.kind = "SetDequeuePointer" /\ ev.ok => Occupancy(r, c) = 0

\* Two events of an endpoint, a before b: no transfer event follows a failure or
\* the last TRB, and one command is answered at a time.
OrderOK(p, a, b) ==
    /\ a.kind = "transfer" /\ b.kind = "transfer" =>
          a.code # "Error" /\ TrbIndex(p.first, a.trb) < p.count - 1
    /\ ~(a.kind \in Commands /\ b.kind \in Commands)

\* Types of the variables.
TypeInv ==
    /\ BulkTypeOK
    /\ events \in Seq(EventType)
    /\ control \in Seq(RequestType)
    /\ call = NoCall \/ call \in CallType

\* Every ring is in order.
RingsInv == \A e \in Endpoints : RingOK(ring[e])

\* Every endpoint whose recovery was not given up is in order.
EndpointsInv == \A e \in Endpoints :
    ~abandoned[e] => EndpointOK(ring[e], pending[e], todo[e], ctl[e])

\* Every event fits the state of its endpoint.
EventsInv == \A e \in Endpoints : ~abandoned[e] =>
    \A k \in 1 .. Len(events) :
        events[k].ep = e => EventOK(ring[e], pending[e], todo[e], ctl[e], events[k])

\* The events of an endpoint are in order.
OrderInv == \A e \in Endpoints : ~abandoned[e] =>
    \A j, k \in 1 .. Len(events) :
        j < k /\ events[j].ep = e /\ events[k].ep = e => OrderOK(pending[e], events[j], events[k])

\* A recovery goes on from the call it waited for.
CallInv ==
    call.fn = "ClearHaltDone" /\ ~abandoned[call.ep]
        => pending[call.ep].phase = "ClearEndpointHalt"

\* The inductive invariant.
BulkInv == TypeInv /\ RingsInv /\ EndpointsInv /\ EventsInv /\ OrderInv /\ CallInv

-----------------------------------------------------------------------------
(* Steps of one endpoint                                                   *)

\* The TRB the controller is at is that far into the pending transfer.
LEMMA HeadIndex ==
    ASSUME NEW r, RingOK(r), NEW p \in PendingType, NEW n \in 0 .. UsableSize, NEW c,
           EndpointOK(r, p, n, c), Occupancy(r, c) > 0
    PROVE  /\ p.active /\ n < p.count
           /\ HeadSlot(c) \in Slots
           /\ TrbIndex(p.first, HeadSlot(c)) = p.count - n - Occupancy(r, c)
  <1> DEFINE o == Occupancy(r, c)
             h == HeadSlot(c)
  <1>1. o \in 0 .. UsableSize /\ h \in Slots /\ r.write_index = SlotAfter(h, o)
    BY OccupancyBounds DEF EndpointOK
  <1>2. p.count \in 0 .. UsableSize /\ p.first \in Slots /\ p.active \in BOOLEAN
    BY DEF PendingType
  <1>3. o + n <= p.count /\ (~p.active => p.count = 0) /\ o > 0
        /\ (p.active /\ n < p.count => r.write_index = SlotAfter(p.first, p.count - n))
    BY DEF EndpointOK
  <1> HIDE DEF o, h
  <1>4. p.active /\ n < p.count
    BY <1>1, <1>2, <1>3
  <1>5. SlotAfter(h, o) = SlotAfter(p.first, p.count - n)
    BY <1>1, <1>3, <1>4
  <1>6. TrbIndex(p.first, h) = p.count - n - o
    BY <1>1, <1>2, <1>3, <1>4, <1>5, RingAssumption DEF SlotAfter, TrbIndex, Slots, UsableSize
  <1> QED BY <1>1, <1>4, <1>6 DEF o, h

\* One turn of QueueBulkTransfer's loop.
LEMMA PushEndpoint ==
    ASSUME NEW r, RingOK(r), NEW p \in PendingType, NEW q \in PendingType,
           NEW n \in 1 .. UsableSize, NEW c \in ContextType, NEW d \in ContextType,
           EndpointOK(r, p, n, c),
           q.active = p.active, q.item = p.item, q.count = p.count, q.phase = p.phase,
           q.first = IF n = p.count THEN r.write_index ELSE p.first,
           NEW l \in BOOLEAN, n # 1 => ~l, NEW s, s = Push(r, p.item, l),
           n = 1 => /\ q.last = r.write_index
                    /\ q.next = s.write_index /\ q.next_cycle = s.cycle_bit,
           d.deq = c.deq, d.ccs = c.ccs, d.cmd = c.cmd,
           c.state = "halted" => d.state = "halted"
    PROVE  /\ EndpointOK(s, q, n - 1, d)
           /\ \A ev : EventOK(r, p, n, c, ev) => EventOK(s, q, n - 1, d, ev)
           /\ \A ev : EventOK(r, p, n, c, ev) => ev.kind # "transfer" \/ q.first = p.first
  <1> DEFINE o == Occupancy(r, c)
             h == HeadSlot(c)
  <1>1. /\ p.count \in 0 .. UsableSize /\ p.first \in Slots /\ p.active \in BOOLEAN
        /\ p.item \in Items \cup {NoItem} /\ UsableSize \in Nat
        /\ r.write_index \in Slots /\ n \in Int /\ q.first \in Slots
    BY RingAssumption DEF PendingType, RingOK, RingType, UsableSize
  <1>2. o \in 0 .. UsableSize /\ h \in Slots /\ r.write_index = SlotAfter(h, o)
    BY OccupancyBounds DEF EndpointOK
  <1>3. o + n <= p.count /\ p.active /\ p.phase = "None" /\ c.cmd = "none"
    BY <1>1, <1>2 DEF EndpointOK, ContextType
  <1>4. o < UsableSize
    BY <1>1, <1>2, <1>3
  <1>5. PositionOK(r, c)
    BY DEF EndpointOK
  <1>6. PositionOK(s, c) /\ Occupancy(s, c) = o + 1
        /\ (\A k \in 1 .. o : s.buf[SlotAfter(h, k - 1)] = r.buf[SlotAfter(h, k - 1)])
        /\ s.buf[SlotAfter(h, o)] = [cycle |-> r.cycle_bit, item |-> p.item, last |-> l]
    BY <1>1, <1>4, <1>5, PushPosition
  <1>7. s.write_index = SlotAfter(r.write_index, 1)
    <2>1. p.item \in Items \cup {NoItem}
      BY <1>1
    <2>2. Push(r, p.item, l).write_index = SlotAfter(r.write_index, 1)
      BY <2>1, PushRing
    <2> QED BY <2>2
  <1>8. HeadSlot(d) = h /\ HeadCycle(d) = HeadCycle(c)
    BY DEF HeadSlot, HeadCycle
  <1>9. PositionOK(s, d) /\ Occupancy(s, d) = o + 1
    BY <1>6, <1>8, SamePosition DEF ContextType
  <1>10. \A k \in 1 .. o :
            r.buf[SlotAfter(h, k - 1)].item = p.item /\ ~r.buf[SlotAfter(h, k - 1)].last
    BY <1>1 DEF EndpointOK
  <1>11. n < p.count => r.write_index = SlotAfter(p.first, p.count - n)
    BY <1>3 DEF EndpointOK
  <1> HIDE DEF o, h
  <1>12. s.write_index = SlotAfter(q.first, q.count - (n - 1))
    <2>1. CASE n = p.count
      BY <1>1, <1>3, <1>7, <2>1
    <2>2. CASE n # p.count
      <3>1. n < p.count
        BY <1>1, <1>2, <1>3, <2>2
      <3> QED
        BY <1>1, <1>2, <1>3, <1>7, <1>11, <3>1, RingAssumption DEF SlotAfter, Slots, UsableSize
    <2> QED BY <2>1, <2>2
  <1>13. n = 1 => q.last = SlotAfter(q.first, q.count - 1)
    <2>1. CASE n = p.count
      BY <1>1, <2>1, RingAssumption DEF SlotAfter, Slots, UsableSize
    <2>2. CASE n # p.count
      BY <1>1, <1>2, <1>3, <1>11, <2>2
    <2> QED BY <2>1, <2>2
  <1>14. \A k \in 1 .. o + 1 :
            LET t == s.buf[SlotAfter(HeadSlot(d), k - 1)]
            IN  t.item = q.item /\ (n - 1 > 0 => ~t.last)
    <2> SUFFICES ASSUME NEW k \in 1 .. o + 1
                 PROVE  /\ s.buf[SlotAfter(h, k - 1)].item = p.item
                        /\ n - 1 > 0 => ~s.buf[SlotAfter(h, k - 1)].last
      BY <1>8
    <2>1. CASE k \in 1 .. o
      BY <1>6, <1>10, <2>1
    <2>2. CASE k = o + 1
      <3>1. s.buf[SlotAfter(h, k - 1)] = [cycle |-> r.cycle_bit, item |-> p.item, last |-> l]
        BY <1>2, <1>6, <2>2
      <3> QED BY <1>1, <3>1
    <2> QED BY <1>2, <2>1, <2>2
  <1>15. EndpointOK(s, q, n - 1, d)
    <2>1. o + 1 + (n - 1) <= q.count /\ q.count >= 1 /\ n - 1 < q.count
      BY <1>1, <1>2, <1>3
    <2>2. q.item \in Items
      BY <1>3 DEF EndpointOK
    <2>3. n - 1 = 0 => n = 1
      BY <1>1
    <2> QED
      BY <1>1, <1>3, <1>9, <1>12, <1>13, <1>14, <2>1, <2>2, <2>3 DEF EndpointOK
  <1>16. ASSUME NEW ev, EventOK(r, p, n, c, ev)
         PROVE  /\ EventOK(s, q, n - 1, d, ev)
                /\ ev.kind # "transfer" \/ q.first = p.first
    <2>1. ev.kind \notin Commands
      BY <1>3, <1>16 DEF EventOK, Commands
    <2>2. ev.kind = "transfer" =>
            /\ n < p.count /\ ev.trb \in Slots /\ (ev.code = "Error" => c.state = "halted")
            /\ (ev.code # "Error" => TrbIndex(p.first, ev.trb) < p.count - n - o)
      BY <1>16 DEF EventOK, o
    <2>3. n < p.count => q.first = p.first /\ n - 1 < q.count
      BY <1>1
    <2>4. p.count - n - o = q.count - (n - 1) - (o + 1)
      BY <1>1, <1>2
    <2> QED
      BY <1>3, <1>9, <2>1, <2>2, <2>3, <2>4 DEF EventOK
  <1> QED BY <1>15, <1>16

\* A running controller has no recovery under way, so no command either.
LEMMA RunningEndpoint ==
    ASSUME NEW r, NEW p \in PendingType, NEW n, NEW c \in ContextType,
           EndpointOK(r, p, n, c), c.state = "running"
    PROVE  /\ p.phase = "None" /\ c.cmd = "none"
           /\ \A ev : EventOK(r, p, n, c, ev) =>
                 ev.kind \notin Commands /\ (ev.kind = "transfer" => ev.code # "Error")
  <1>1. p.phase = "None" /\ c.cmd = "none"
    BY DEF EndpointOK, ContextType
  <1> QED BY <1>1 DEF EventOK, Commands

\* The controller executes a TRB: what it has posted stays true, and the event of
\* this TRB is in order.
LEMMA TakeEndpoint ==
    ASSUME NEW r, RingOK(r), NEW p \in PendingType, NEW n \in 0 .. UsableSize,
           NEW c \in ContextType, EndpointOK(r, p, n, c),
           c.state = "running", c.deq # LinkSlot, Owned(r, c),
           NEW d \in ContextType, d.deq = c.deq + 1, d.ccs = c.ccs, d.cmd = c.cmd
    PROVE  /\ EndpointOK(r, p, n, d)
           /\ \A ev : EventOK(r, p, n, c, ev) => EventOK(r, p, n, d, ev)
           /\ \A ev : ev.kind = "transfer" /\ ev.trb = c.deq /\ ev.code # "Error" =>
                 EventOK(r, p, n, d, ev)
           /\ \A a, ev : EventOK(r, p, n, c, a) /\ ev.kind = "transfer" => OrderOK(p, a, ev)
  <1> DEFINE o == Occupancy(r, c)
             h == HeadSlot(c)
  <1>1. PositionOK(r, c)
    BY DEF EndpointOK
  <1>2. /\ h = c.deq /\ o > 0
        /\ PositionOK(r, d) /\ Occupancy(r, d) = o - 1 /\ HeadSlot(d) = SlotAfter(h, 1)
    BY <1>1, TakePosition
  <1>3. o \in 0 .. UsableSize /\ h \in Slots
    BY <1>1, OccupancyBounds
  <1>4. p.active /\ n < p.count /\ TrbIndex(p.first, h) = p.count - n - o
    BY <1>2, HeadIndex
  <1>5. p.phase = "None" /\ c.cmd = "none"
        /\ \A ev : EventOK(r, p, n, c, ev) =>
              ev.kind \notin Commands /\ (ev.kind = "transfer" => ev.code # "Error")
    BY RunningEndpoint
  <1>6. p.count \in 0 .. UsableSize /\ UsableSize \in Nat /\ n \in Int /\ o \in Int
    BY <1>3, RingAssumption DEF PendingType, UsableSize
  <1>7. o + n <= p.count
    BY DEF EndpointOK
  <1>8. \A k \in 1 .. o : r.buf[SlotAfter(h, k - 1)].item = p.item
                          /\ (n > 0 => ~r.buf[SlotAfter(h, k - 1)].last)
    BY DEF EndpointOK
  <1> HIDE DEF o, h
  <1>9. \A k \in 1 .. o - 1 : r.buf[SlotAfter(HeadSlot(d), k - 1)].item = p.item
                              /\ (n > 0 => ~r.buf[SlotAfter(HeadSlot(d), k - 1)].last)
    <2> SUFFICES ASSUME NEW k \in 1 .. o - 1
                 PROVE  SlotAfter(HeadSlot(d), k - 1) = SlotAfter(h, (k + 1) - 1)
                        /\ k + 1 \in 1 .. o
      BY <1>8
    <2> QED BY <1>2, <1>3, <1>6, RingAssumption DEF SlotAfter, Slots, UsableSize
  <1>10. EndpointOK(r, p, n, d)
    <2>1. o - 1 + n <= p.count
      BY <1>6, <1>7
    <2> QED BY <1>2, <1>4, <1>5, <1>9, <2>1 DEF EndpointOK
  <1>11. ASSUME NEW ev, EventOK(r, p, n, c, ev)
         PROVE  EventOK(r, p, n, d, ev)
    <2>1. ev.kind \notin Commands /\ (ev.kind = "transfer" => ev.code # "Error")
      BY <1>5, <1>11
    <2>2. ev.kind = "transfer" =>
            TrbIndex(p.first, ev.trb) < p.count - n - o
      BY <1>11, <2>1 DEF EventOK, o
    <2>3. ASSUME ev.kind = "transfer"
          PROVE  TrbIndex(p.first, ev.trb) < p.count - n - (o - 1)
      <3>1. ev.trb \in Slots
        BY <1>11, <2>3 DEF EventOK
      <3>2. TrbIndex(p.first, ev.trb) \in Int
        BY <3>1, RingAssumption DEF TrbIndex, PendingType, Slots, UsableSize
      <3> QED BY <1>6, <2>2, <2>3, <3>2
    <2> QED BY <1>11, <1>2, <1>4, <1>5, <2>1, <2>3 DEF EventOK
  <1>12. ASSUME NEW ev, ev.kind = "transfer", ev.trb = c.deq, ev.code # "Error"
         PROVE  EventOK(r, p, n, d, ev)
    <2>1. TrbIndex(p.first, ev.trb) < p.count - n - (o - 1)
      BY <1>2, <1>4, <1>6, <1>12
    <2>2. ev.kind \notin Commands
      BY <1>12 DEF Commands
    <2> QED BY <1>2, <1>3, <1>4, <1>5, <1>12, <2>1, <2>2 DEF EventOK
  <1>13. ASSUME NEW a, NEW ev, EventOK(r, p, n, c, a), ev.kind = "transfer"
         PROVE  OrderOK(p, a, ev)
    <2>1. a.kind \notin Commands /\ (a.kind = "transfer" => a.code # "Error")
      BY <1>5, <1>13
    <2>2. a.kind = "transfer" => TrbIndex(p.first, a.trb) < p.count - n - o
      BY <1>13, <2>1 DEF EventOK, o
    <2>3. ASSUME a.kind = "transfer" PROVE TrbIndex(p.first, a.trb) < p.count - 1
      <3>1. a.trb \in Slots
        BY <1>13, <2>3 DEF EventOK
      <3>2. TrbIndex(p.first, a.trb) \in Int
        BY <3>1, RingAssumption DEF TrbIndex, PendingType, Slots, UsableSize
      <3> QED BY <1>2, <1>6, <2>2, <2>3, <3>2
    <2> QED BY <2>1, <2>3 DEF OrderOK
  <1> QED BY <1>10, <1>11, <1>12, <1>13

\* The running controller stays at its TRB, in whatever state.
LEMMA StillEndpoint ==
    ASSUME NEW r, NEW p \in PendingType, NEW n, NEW c \in ContextType,
           EndpointOK(r, p, n, c), c.state = "running",
           NEW d \in ContextType, HeadSlot(d) = HeadSlot(c), HeadCycle(d) = HeadCycle(c),
           d.cmd = c.cmd
    PROVE  /\ EndpointOK(r, p, n, d)
           /\ \A ev : EventOK(r, p, n, c, ev) => EventOK(r, p, n, d, ev)
  <1>1. d.deq \in 0 .. LinkSlot /\ d.ccs \in BOOLEAN
    BY DEF ContextType
  <1>2. PositionOK(r, c) => PositionOK(r, d)
    BY <1>1, SamePosition
  <1>3. Occupancy(r, d) = Occupancy(r, c)
    BY <1>1, SamePosition
  <1>4. p.phase = "None" /\ c.cmd = "none"
        /\ \A ev : EventOK(r, p, n, c, ev) =>
              ev.kind \notin Commands /\ (ev.kind = "transfer" => ev.code # "Error")
    BY RunningEndpoint
  <1>5. EndpointOK(r, p, n, d)
    BY <1>2, <1>3, <1>4 DEF EndpointOK
  <1>6. ASSUME NEW ev, EventOK(r, p, n, c, ev) PROVE EventOK(r, p, n, d, ev)
    <2>1. ev.kind \notin Commands /\ (ev.kind = "transfer" => ev.code # "Error")
      BY <1>4, <1>6
    <2> QED BY <1>3, <1>6, <2>1 DEF EventOK
  <1> QED BY <1>5, <1>6

\* It fails to execute the TRB.
LEMMA HaltEndpoint ==
    ASSUME NEW r, RingOK(r), NEW p \in PendingType, NEW n \in 0 .. UsableSize,
           NEW c \in ContextType, EndpointOK(r, p, n, c),
           c.state = "running", c.deq # LinkSlot, Owned(r, c),
           NEW d \in ContextType, d.deq = c.deq, d.ccs = c.ccs, d.cmd = c.cmd,
           d.state = "halted"
    PROVE  /\ EndpointOK(r, p, n, d)
           /\ \A ev : EventOK(r, p, n, c, ev) => EventOK(r, p, n, d, ev)
           /\ \A ev : ev.kind = "transfer" /\ ev.trb = c.deq /\ ev.code = "Error" =>
                 EventOK(r, p, n, d, ev)
           /\ \A a, ev : EventOK(r, p, n, c, a) /\ ev.kind = "transfer" => OrderOK(p, a, ev)
  <1>1. HeadSlot(d) = HeadSlot(c) /\ HeadCycle(d) = HeadCycle(c)
    BY DEF HeadSlot, HeadCycle
  <1>2. EndpointOK(r, p, n, d)
        /\ \A ev : EventOK(r, p, n, c, ev) => EventOK(r, p, n, d, ev)
    BY <1>1, StillEndpoint
  <1> DEFINE t == [c EXCEPT !.deq = c.deq + 1]
  <1>3. t \in ContextType /\ t.deq = c.deq + 1 /\ t.ccs = c.ccs /\ t.cmd = c.cmd
    BY RingAssumption DEF ContextType, LinkSlot
  <1>4. PositionOK(r, c)
    BY DEF EndpointOK
  <1> HIDE DEF t
  <1>5. Occupancy(r, c) > 0 /\ c.deq \in Slots
    BY <1>3, <1>4, TakePosition
  <1>6. p.active /\ n < p.count
    BY <1>5, HeadIndex
  <1>7. p.phase = "None"
    BY RunningEndpoint
  <1>8. ASSUME NEW ev, ev.kind = "transfer", ev.trb = c.deq, ev.code = "Error"
        PROVE  EventOK(r, p, n, d, ev)
    BY <1>5, <1>6, <1>7, <1>8 DEF EventOK, Commands
  <1>9. \A a, ev : EventOK(r, p, n, c, a) /\ ev.kind = "transfer" => OrderOK(p, a, ev)
    BY <1>3, TakeEndpoint
  <1> QED BY <1>2, <1>8, <1>9

\* It ends a command; a Set TR Dequeue Pointer leaves the ring empty.
LEMMA CommandEndpoint ==
    ASSUME NEW r, RingOK(r), NEW p \in PendingType, NEW n \in 0 .. UsableSize,
           NEW c \in ContextType, EndpointOK(r, p, n, c), c.cmd # "none",
           NEW d \in ContextType, d.cmd = "none", d.state \in {c.state, "stopped"},
           NEW ok \in BOOLEAN,
           IF ok /\ c.cmd = "SetDequeuePointer"
           THEN d.deq = p.next /\ d.ccs = p.next_cycle
           ELSE d.deq = c.deq /\ d.ccs = c.ccs
    PROVE  /\ EndpointOK(r, p, n, d)
           /\ \A ev : EventOK(r, p, n, c, ev) => ev.kind # "transfer" /\ ev.kind \notin Commands
           /\ \A ev : ev.kind = c.cmd /\ ev.ok = ok => EventOK(r, p, n, d, ev)
           /\ ok /\ c.cmd = "SetDequeuePointer" => Occupancy(r, d) = 0
  <1>1. /\ p.phase = c.cmd /\ p.phase \in Commands /\ p.active /\ n = 0
        /\ c.state \in {"halted", "stopped"}
    BY DEF EndpointOK, ContextType, Commands
  <1>2. PositionOK(r, c) /\ p.next = r.write_index /\ p.next_cycle = r.cycle_bit
    BY <1>1 DEF EndpointOK
  <1>3. p.count \in Nat /\ UsableSize \in Nat
    BY RingAssumption DEF PendingType, UsableSize
  <1>4. \A ev : EventOK(r, p, n, c, ev) => ev.kind # "transfer" /\ ev.kind \notin Commands
    BY <1>1 DEF EventOK, Commands
  <1>5. CASE ok /\ c.cmd = "SetDequeuePointer"
    <2>1. PositionOK(r, d) /\ Occupancy(r, d) = 0
      BY <1>2, <1>5, EmptyAtEnd
    <2>2. EndpointOK(r, p, n, d)
      BY <1>1, <1>3, <2>1 DEF EndpointOK
    <2> QED BY <1>1, <1>4, <2>1, <2>2 DEF EventOK, Commands
  <1>6. CASE ~(ok /\ c.cmd = "SetDequeuePointer")
    <2>1. HeadSlot(d) = HeadSlot(c) /\ HeadCycle(d) = HeadCycle(c)
      BY <1>6 DEF HeadSlot, HeadCycle
    <2>2. d.deq \in 0 .. LinkSlot /\ d.ccs \in BOOLEAN
      BY DEF ContextType
    <2>3. PositionOK(r, d)
      BY <1>2, <2>1, <2>2, SamePosition
    <2>4. Occupancy(r, d) = Occupancy(r, c)
      BY <2>1, <2>2, SamePosition
    <2>5. EndpointOK(r, p, n, d)
      BY <1>1, <2>1, <2>3, <2>4 DEF EndpointOK
    <2> QED BY <1>1, <1>4, <1>6, <2>5 DEF EventOK, Commands
  <1> QED BY <1>5, <1>6

\* The driver sends a command, or the recovery waits for the class driver: no
\* event of the endpoint may be left.
LEMMA PhaseEndpoint ==
    ASSUME NEW r, NEW p \in PendingType, NEW n, NEW c \in ContextType,
           EndpointOK(r, p, n, c), p.active, n = 0, c.state \in {"halted", "stopped"},
           NEW ph, NEW q \in PendingType, q = [p EXCEPT !.phase = ph],
           NEW d \in ContextType, d.deq = c.deq, d.ccs = c.ccs, d.state = c.state,
           d.cmd \in {"none", ph}
    PROVE  EndpointOK(r, q, n, d)
  <1>1. HeadSlot(d) = HeadSlot(c) /\ HeadCycle(d) = HeadCycle(c)
    BY DEF HeadSlot, HeadCycle
  <1>2. d.deq \in 0 .. LinkSlot /\ d.ccs \in BOOLEAN
    BY DEF ContextType
  <1>3. PositionOK(r, d)
    BY <1>1, <1>2, SamePosition DEF EndpointOK
  <1>4. Occupancy(r, d) = Occupancy(r, c)
    BY <1>1, <1>2, SamePosition
  <1>5. /\ q.active /\ q.item = p.item /\ q.count = p.count /\ q.first = p.first
        /\ q.last = p.last /\ q.next = p.next /\ q.next_cycle = p.next_cycle /\ q.phase = ph
    BY DEF PendingType
  <1> QED BY <1>1, <1>3, <1>4, <1>5 DEF EndpointOK

\* A transfer is over, and the next one may be queued.
LEMMA FreeEndpoint ==
    ASSUME NEW r, NEW p \in PendingType, NEW n, NEW c \in ContextType,
           EndpointOK(r, p, n, c), n = 0, Occupancy(r, c) = 0, c.cmd = "none"
    PROVE  /\ EndpointOK(r, NoPending, 0, c)
           /\ \A item \in Items, m \in 1 .. UsableSize :
                 EndpointOK(r, [NoPending EXCEPT !.active = TRUE, !.item = item, !.count = m], m, c)
  <1>1. PositionOK(r, c)
    BY DEF EndpointOK
  <1>2. EndpointOK(r, NoPending, 0, c)
    BY <1>1 DEF EndpointOK, NoPending
  <1>3. ASSUME NEW item \in Items, NEW m \in 1 .. UsableSize
        PROVE  EndpointOK(r, [NoPending EXCEPT !.active = TRUE, !.item = item, !.count = m], m, c)
    <2>1. m \in Nat /\ m >= 1
      BY RingAssumption DEF UsableSize
    <2> DEFINE q == [NoPending EXCEPT !.active = TRUE, !.item = item, !.count = m]
    <2>2. q.active /\ q.item = item /\ q.count = m /\ q.phase = "None"
      BY DEF NoPending
    <2> HIDE DEF q
    <2>3. EndpointOK(r, q, m, c)
      BY <1>1, <2>1, <2>2 DEF EndpointOK
    <2> QED BY <2>3 DEF q
  <1> QED BY <1>2, <1>3

\* The event of the last TRB: everything is taken, and no transfer event follows.
LEMMA LastEvent ==
    ASSUME NEW r, RingOK(r), NEW p \in PendingType, NEW c, EndpointOK(r, p, 0, c),
           NEW ev, EventOK(r, p, 0, c, ev), ev.kind = "transfer", ev.code # "Error",
           ev.trb = p.last
    PROVE  /\ Occupancy(r, c) = 0 /\ p.phase = "None"
           /\ \A b : OrderOK(p, ev, b) => b.kind # "transfer"
  <1>1. p.active /\ p.phase = "None" /\ TrbIndex(p.first, p.last) < p.count - 0 - Occupancy(r, c)
    BY DEF EventOK
  <1>2. p.last = SlotAfter(p.first, p.count - 1) /\ p.count >= 1
    BY <1>1 DEF EndpointOK
  <1>3. p.first \in Slots /\ p.count \in 0 .. UsableSize
    BY DEF PendingType
  <1>4. TrbIndex(p.first, p.last) = p.count - 1
    BY <1>2, <1>3, RingAssumption DEF SlotAfter, TrbIndex, Slots, UsableSize
  <1>5. Occupancy(r, c) \in 0 .. UsableSize
    BY OccupancyBounds DEF EndpointOK
  <1>6. Occupancy(r, c) = 0
    BY <1>1, <1>3, <1>4, <1>5, RingAssumption DEF UsableSize
  <1>7. ~(TrbIndex(p.first, ev.trb) < p.count - 1)
    BY <1>3, <1>4, RingAssumption DEF UsableSize
  <1> QED BY <1>1, <1>6, <1>7 DEF OrderOK

-----------------------------------------------------------------------------
(* From one endpoint to all, and to the event ring                         *)

LEMMA PostedEvents ==
    ASSUME NEW s \in Seq(EventType), NEW ev \in EventType
    PROVE  /\ Append(s, ev) \in Seq(EventType) /\ Len(Append(s, ev)) = Len(s) + 1
           /\ Len(s) \in Nat
           /\ \A k \in 1 .. Len(s) : Append(s, ev)[k] = s[k]
           /\ Append(s, ev)[Len(s) + 1] = ev
  OBVIOUS

\* The event ring after the first event is taken from it.
LEMMA TakenEvents ==
    ASSUME NEW s \in Seq(EventType), s # <<>>
    PROVE  /\ Tail(s) \in Seq(EventType) /\ Head(s) \in EventType
           /\ Len(s) \in Nat /\ Len(s) >= 1 /\ Len(Tail(s)) = Len(s) - 1
           /\ Head(s) = s[1]
           /\ \A k \in 1 .. Len(s) - 1 : Tail(s)[k] = s[k + 1]
  OBVIOUS

\* Only endpoint e changes.
Only(e) ==
    \A f \in Endpoints : f # e =>
        /\ ring'[f] = ring[f] /\ pending'[f] = pending[f] /\ todo'[f] = todo[f]
        /\ ctl'[f] = ctl[f] /\ abandoned'[f] = abandoned[f]

\* The event fits the state of endpoint e.
Holds(e, ev) == EventOK(ring[e], pending[e], todo[e], ctl[e], ev)

\* A step that leaves the event ring alone.
LEMMA QuietStep ==
    ASSUME BulkInv, NEW e \in Endpoints, Only(e), events' = events, RingOK(ring'[e]),
           ~abandoned'[e] =>
              /\ ~abandoned[e]
              /\ EndpointOK(ring'[e], pending'[e], todo'[e], ctl'[e])
              /\ \A ev : Holds(e, ev) => EventOK(ring'[e], pending'[e], todo'[e], ctl'[e], ev)
              /\ \A a, b : Holds(e, a) /\ Holds(e, b) /\ OrderOK(pending[e], a, b)
                              => OrderOK(pending'[e], a, b)
    PROVE  RingsInv' /\ EndpointsInv' /\ EventsInv' /\ OrderInv'
  <1>1. RingsInv'
    BY DEF BulkInv, RingsInv, Only
  <1>2. EndpointsInv'
    BY DEF BulkInv, EndpointsInv, Only
  <1>3. EventsInv'
    <2> SUFFICES ASSUME NEW f \in Endpoints, ~abandoned'[f],
                        NEW k \in 1 .. Len(events), events[k].ep = f
                 PROVE  EventOK(ring'[f], pending'[f], todo'[f], ctl'[f], events[k])
      BY DEF EventsInv
    <2>1. ~abandoned[f]
      BY DEF Only
    <2>2. EventOK(ring[f], pending[f], todo[f], ctl[f], events[k])
      BY <2>1 DEF BulkInv, EventsInv
    <2> QED BY <2>2 DEF Only, Holds
  <1>4. OrderInv'
    <2> SUFFICES ASSUME NEW f \in Endpoints, ~abandoned'[f],
                        NEW j \in 1 .. Len(events), NEW k \in 1 .. Len(events),
                        j < k, events[j].ep = f, events[k].ep = f
                 PROVE  OrderOK(pending'[f], events[j], events[k])
      BY DEF OrderInv
    <2>1. ~abandoned[f]
      BY DEF Only
    <2>2. OrderOK(pending[f], events[j], events[k])
      BY <2>1 DEF BulkInv, OrderInv
    <2>3. Holds(f, events[j]) /\ Holds(f, events[k])
      BY <2>1 DEF BulkInv, EventsInv, Holds
    <2> QED BY <2>2, <2>3 DEF Only
  <1> QED BY <1>1, <1>2, <1>3, <1>4

\* A step that posts an event of endpoint e.
LEMMA PostStep ==
    ASSUME BulkInv, NEW e \in Endpoints, Only(e), RingOK(ring'[e]), pending' = pending,
           abandoned' = abandoned,
           NEW new \in EventType, new.ep = e, events' = Append(events, new),
           ~abandoned[e] =>
              /\ EndpointOK(ring'[e], pending[e], todo'[e], ctl'[e])
              /\ EventOK(ring'[e], pending[e], todo'[e], ctl'[e], new)
              /\ \A ev : Holds(e, ev) =>
                    /\ EventOK(ring'[e], pending[e], todo'[e], ctl'[e], ev)
                    /\ OrderOK(pending[e], ev, new)
    PROVE  RingsInv' /\ EndpointsInv' /\ EventsInv' /\ OrderInv'
  <1>1. RingsInv'
    BY DEF BulkInv, RingsInv, Only
  <1>2. EndpointsInv'
    BY DEF BulkInv, EndpointsInv, Only
  <1>3. events \in Seq(EventType)
    BY DEF BulkInv, TypeInv
  <1>4. /\ Len(events') = Len(events) + 1 /\ Len(events) \in Nat
        /\ \A k \in 1 .. Len(events) : events'[k] = events[k]
        /\ events'[Len(events) + 1] = new
    BY <1>3, PostedEvents
  <1>5. \A f \in Endpoints, k \in 1 .. Len(events) :
           ~abandoned[f] /\ events[k].ep = f => Holds(f, events[k])
    BY DEF BulkInv, EventsInv, Holds
  <1>6. EventsInv'
    <2> SUFFICES ASSUME NEW f \in Endpoints, ~abandoned[f],
                        NEW k \in 1 .. Len(events'), events'[k].ep = f
                 PROVE  EventOK(ring'[f], pending'[f], todo'[f], ctl'[f], events'[k])
      BY DEF EventsInv
    <2>1. CASE k \in 1 .. Len(events)
      BY <1>4, <1>5, <2>1 DEF Only, Holds
    <2>2. CASE k = Len(events) + 1
      BY <1>4, <2>2
    <2> QED BY <1>4, <2>1, <2>2
  <1>7. OrderInv'
    <2> SUFFICES ASSUME NEW f \in Endpoints, ~abandoned[f],
                        NEW j \in 1 .. Len(events'), NEW k \in 1 .. Len(events'),
                        j < k, events'[j].ep = f, events'[k].ep = f
                 PROVE  OrderOK(pending[f], events'[j], events'[k])
      BY DEF OrderInv
    <2>1. j \in 1 .. Len(events) /\ events'[j] = events[j]
      BY <1>4
    <2>2. CASE k \in 1 .. Len(events)
      BY <1>4, <2>1, <2>2 DEF BulkInv, OrderInv
    <2>3. CASE k = Len(events) + 1
      BY <1>4, <1>5, <2>1, <2>3
    <2> QED BY <1>4, <2>2, <2>3
  <1> QED BY <1>1, <1>2, <1>6, <1>7

\* A handler that takes an event of endpoint e.
LEMMA TakeStep ==
    ASSUME BulkInv, NEW e \in Endpoints, Only(e), ring' = ring,
           events # <<>>, Head(events).ep = e, events' = Tail(events),
           ~abandoned'[e] =>
              /\ ~abandoned[e]
              /\ EndpointOK(ring[e], pending'[e], todo'[e], ctl'[e])
              /\ \A ev : Holds(e, ev) /\ OrderOK(pending[e], Head(events), ev)
                    => EventOK(ring[e], pending'[e], todo'[e], ctl'[e], ev)
              /\ \A a, b : /\ Holds(e, a) /\ OrderOK(pending[e], Head(events), a)
                           /\ OrderOK(pending[e], a, b)
                    => OrderOK(pending'[e], a, b)
    PROVE  RingsInv' /\ EndpointsInv' /\ EventsInv' /\ OrderInv'
  <1>1. RingsInv'
    BY DEF BulkInv, RingsInv, Only
  <1>2. EndpointsInv'
    BY DEF BulkInv, EndpointsInv, Only
  <1>3. events \in Seq(EventType)
    BY DEF BulkInv, TypeInv
  <1>4. /\ Len(events) \in Nat /\ Len(events) >= 1 /\ Len(events') = Len(events) - 1
        /\ \A k \in 1 .. Len(events) - 1 : events'[k] = events[k + 1]
        /\ Head(events) = events[1]
    BY <1>3, TakenEvents
  <1>5. ASSUME NEW f \in Endpoints, ~abandoned'[f],
               NEW k \in 1 .. Len(events'), events'[k].ep = f
        PROVE  /\ ~abandoned[f] /\ k + 1 \in 1 .. Len(events) /\ events'[k] = events[k + 1]
               /\ Holds(f, events[k + 1])
               /\ f = e => OrderOK(pending[e], Head(events), events[k + 1])
    <2>1. ~abandoned[f]
      BY <1>5 DEF Only
    <2>2. k + 1 \in 1 .. Len(events) /\ events'[k] = events[k + 1] /\ 1 < k + 1
          /\ 1 \in 1 .. Len(events)
      BY <1>4
    <2>3. Holds(f, events[k + 1])
      BY <1>5, <2>1, <2>2 DEF BulkInv, EventsInv, Holds
    <2>4. f = e => OrderOK(pending[e], events[1], events[k + 1])
      BY <1>4, <1>5, <2>1, <2>2 DEF BulkInv, OrderInv
    <2> QED BY <1>4, <2>1, <2>2, <2>3, <2>4
  <1>6. EventsInv'
    <2> SUFFICES ASSUME NEW f \in Endpoints, ~abandoned'[f],
                        NEW k \in 1 .. Len(events'), events'[k].ep = f
                 PROVE  EventOK(ring'[f], pending'[f], todo'[f], ctl'[f], events'[k])
      BY DEF EventsInv
    <2> QED BY <1>5 DEF Only, Holds
  <1>7. OrderInv'
    <2> SUFFICES ASSUME NEW f \in Endpoints, ~abandoned'[f],
                        NEW j \in 1 .. Len(events'), NEW k \in 1 .. Len(events'),
                        j < k, events'[j].ep = f, events'[k].ep = f
                 PROVE  OrderOK(pending'[f], events'[j], events'[k])
      BY DEF OrderInv
    <2>1. OrderOK(pending[f], events[j + 1], events[k + 1])
      <3>1. j + 1 < k + 1
        BY <1>4
      <3> QED BY <1>5, <3>1 DEF BulkInv, OrderInv
    <2> QED BY <1>5, <2>1 DEF Only
  <1> QED BY <1>1, <1>2, <1>6, <1>7

-----------------------------------------------------------------------------
(* The invariant is inductive                                              *)

LEMMA Parts ==
    ASSUME BulkInv, NEW e \in Endpoints
    PROVE  /\ ring[e] \in RingType /\ RingOK(ring[e])
           /\ pending[e] \in PendingType /\ todo[e] \in 0 .. UsableSize
           /\ ctl[e] \in ContextType /\ abandoned[e] \in BOOLEAN
           /\ ~abandoned[e] => EndpointOK(ring[e], pending[e], todo[e], ctl[e])
  BY DEF BulkInv, TypeInv, BulkTypeOK, RingsInv, EndpointsInv

\* An endpoint without a transfer has a record of the right type.
LEMMA PendingTyped == NoPending \in PendingType
  BY RingAssumption DEF NoPending, PendingType, Slots, UsableSize, Phases

\* A fresh ring is in order, and empty.
LEMMA InitInv == BulkInit => BulkInv
  <1> SUFFICES ASSUME BulkInit PROVE BulkInv
    OBVIOUS
  <1>1. 0 \in Slots /\ 0 \in 0 .. LinkSlot /\ 0 # LinkSlot /\ 0 \in 0 .. UsableSize
    BY RingAssumption DEF Slots, LinkSlot, UsableSize
  <1>2. EmptyRing \in RingType
    BY <1>1 DEF EmptyRing, RingType
  <1>3. RingOK(EmptyRing)
    <2>1. \A i \in Slots : EmptyRing.buf[i].cycle = FALSE /\ ~(i < 0)
      BY <1>1, RingAssumption DEF EmptyRing, Slots
    <2>2. EmptyRing.cycle_bit = TRUE /\ EmptyRing.link = FALSE /\ EmptyRing.write_index = 0
      BY DEF EmptyRing
    <2> QED BY <1>2, <2>1, <2>2 DEF RingOK
  <1> DEFINE c0 == [deq |-> 0, ccs |-> TRUE, state |-> "idle", skip |-> FALSE, cmd |-> "none"]
  <1>4. c0 \in ContextType
    BY <1>1 DEF ContextType
  <1>5. c0.deq = EmptyRing.write_index /\ c0.ccs = EmptyRing.cycle_bit /\ c0.cmd = "none"
    BY DEF EmptyRing
  <1> HIDE DEF c0
  <1>6. PositionOK(EmptyRing, c0) /\ Occupancy(EmptyRing, c0) = 0
    BY <1>3, <1>5, EmptyAtEnd
  <1>7. EndpointOK(EmptyRing, NoPending, 0, c0)
    BY <1>5, <1>6 DEF EndpointOK, NoPending
  <1>8. \A e \in Endpoints : /\ ring[e] = EmptyRing /\ pending[e] = NoPending
                             /\ todo[e] = 0 /\ ctl[e] = c0
    BY DEF BulkInit, c0
  <1>9. TypeInv
    <2>1. BulkTypeOK
      <3>1. ring \in [Endpoints -> RingType] /\ pending \in [Endpoints -> PendingType]
        BY <1>2, PendingTyped DEF BulkInit
      <3>2. ctl \in [Endpoints -> ContextType]
        BY <1>4 DEF BulkInit, c0
      <3>3. /\ todo \in [Endpoints -> 0 .. UsableSize] /\ moved \in [Endpoints -> Nat]
            /\ abandoned \in [Endpoints -> BOOLEAN]
        BY <1>1 DEF BulkInit
      <3>4. ep0 \in BOOLEAN
        BY DEF BulkInit
      <3> QED BY <3>1, <3>2, <3>3, <3>4 DEF BulkTypeOK
    <2> QED BY <2>1 DEF TypeInv, BulkInit
  <1>10. Len(events) = 0 /\ call.fn = "none"
    BY DEF BulkInit, NoCall
  <1> QED
    BY <1>3, <1>7, <1>8, <1>9, <1>10
    DEF BulkInv, RingsInv, EndpointsInv, EventsInv, OrderInv, CallInv

\* A running call waits for the recovery it is about.
LEMMA CallKept ==
    ASSUME BulkInv, call' = call,
           \A e \in Endpoints : ~abandoned'[e] =>
              ~abandoned[e] /\ (pending[e].phase = "ClearEndpointHalt" => pending'[e].phase = pending[e].phase)
    PROVE  CallInv'
  <1>1. call.fn = "ClearHaltDone" => call.ep \in Endpoints
    BY DEF BulkInv, TypeInv, CallType, NoCall
  <1> QED BY <1>1 DEF BulkInv, CallInv

\* Pushing one TRB of a transfer keeps the invariant.
LEMMA PushTrbInv ==
    ASSUME BulkInv, NEW e \in Endpoints, PushTrb(e)
    PROVE  BulkInv'
  <1> DEFINE r == ring[e]
             p == pending[e]
             n == todo[e]
             c == ctl[e]
             l == (todo[e] = 1)
             s == Push(r, p.item, l)
  <1>1. /\ RingOK(r) /\ p \in PendingType /\ n \in 0 .. UsableSize /\ c \in ContextType
        /\ ~abandoned[e] => EndpointOK(r, p, n, c)
    BY Parts
  <1>2. /\ n > 0 /\ n \in 1 .. UsableSize /\ UsableSize \in Nat /\ l \in BOOLEAN /\ (n # 1 => ~l)
        /\ p.item \in Items \cup {NoItem} /\ r.write_index \in Slots
    BY <1>1, RingAssumption DEF PushTrb, UsableSize, PendingType, RingOK, RingType
  <1>3. RingOK(s)
    <2>1. p.item \in Items \cup {NoItem} /\ l \in BOOLEAN
      BY <1>2
    <2> HIDE DEF r, p, l
    <2> QED BY <1>1, <2>1, PushRing
  <1>4. s \in RingType /\ s.write_index \in Slots /\ s.cycle_bit \in BOOLEAN
    BY <1>3 DEF RingOK, RingType
  <1>5. /\ ring' = [ring EXCEPT ![e] = s] /\ todo' = [todo EXCEPT ![e] = @ - 1]
        /\ events' = events /\ control' = control /\ ep0' = ep0 /\ call' = call /\ moved' = moved
        /\ abandoned' = abandoned
    BY DEF PushTrb
  <1>6. pending' = [pending EXCEPT
                 ![e].first = IF n = p.count THEN r.write_index ELSE @,
                 ![e].last  = IF l THEN r.write_index ELSE @,
                 ![e].next  = IF l THEN s.write_index ELSE @,
                 ![e].next_cycle = IF l THEN s.cycle_bit ELSE @]
    BY DEF PushTrb
  <1>7. ctl' = IF l THEN [ctl EXCEPT ![e] = Doorbell(@)] ELSE ctl
    BY DEF PushTrb
  <1>8. /\ ring \in [Endpoints -> RingType] /\ pending \in [Endpoints -> PendingType]
        /\ todo \in [Endpoints -> 0 .. UsableSize] /\ ctl \in [Endpoints -> ContextType]
    BY DEF BulkInv, TypeInv, BulkTypeOK
  <1> DEFINE q == [p EXCEPT !.first = IF n = p.count THEN r.write_index ELSE @,
                            !.last = IF l THEN r.write_index ELSE @,
                            !.next = IF l THEN s.write_index ELSE @,
                            !.next_cycle = IF l THEN s.cycle_bit ELSE @]
             d == IF l THEN Doorbell(c) ELSE c
  <1>9. pending' = [pending EXCEPT ![e] = q] /\ ctl' = [ctl EXCEPT ![e] = d]
    <2>1. pending' = [pending EXCEPT ![e] = q]
      BY <1>6, <1>8
    <2>2. ctl' = [ctl EXCEPT ![e] = d]
      BY <1>7, <1>8
    <2> QED BY <2>1, <2>2
  <1>10. /\ q \in PendingType /\ q.active = p.active /\ q.item = p.item /\ q.count = p.count
         /\ q.phase = p.phase /\ q.first = (IF n = p.count THEN r.write_index ELSE p.first)
         /\ l => q.last = r.write_index /\ q.next = s.write_index /\ q.next_cycle = s.cycle_bit
    <2> HIDE DEF r, p, n, c, l, s
    <2> QED BY <1>1, <1>2, <1>4 DEF PendingType
  <1>11. /\ d \in ContextType /\ d.deq = c.deq /\ d.ccs = c.ccs /\ d.cmd = c.cmd
         /\ c.state = "halted" => d.state = "halted"
    <2> HIDE DEF c, l
    <2> QED BY <1>1 DEF Doorbell, ContextType
  <1>12. n - 1 \in 0 .. UsableSize
    BY <1>2
  <1> HIDE DEF q, d, s
  <1>13. /\ ring'[e] = s /\ pending'[e] = q /\ todo'[e] = n - 1 /\ ctl'[e] = d
         /\ Only(e)
    BY <1>5, <1>8, <1>9 DEF Only
  <1>14. TypeInv'
    <2>1. /\ ring' \in [Endpoints -> RingType] /\ pending' \in [Endpoints -> PendingType]
          /\ todo' \in [Endpoints -> 0 .. UsableSize] /\ ctl' \in [Endpoints -> ContextType]
      BY <1>4, <1>5, <1>8, <1>9, <1>10, <1>11, <1>12
    <2> QED BY <1>5, <2>1 DEF BulkInv, TypeInv, BulkTypeOK
  <1>15. ASSUME ~abandoned[e]
         PROVE  /\ EndpointOK(s, q, n - 1, d)
                /\ \A ev : EventOK(r, p, n, c, ev) => EventOK(s, q, n - 1, d, ev)
                /\ \A ev : EventOK(r, p, n, c, ev) => ev.kind # "transfer" \/ q.first = p.first
    <2>1. EndpointOK(r, p, n, c)
      BY <1>1, <1>15
    <2>2. s = Push(r, p.item, l)
      BY DEF s
    <2>3. n = 1 => q.last = r.write_index /\ q.next = s.write_index /\ q.next_cycle = s.cycle_bit
      BY <1>10
    <2> HIDE DEF r, p, n, c, l
    <2> QED BY <1>1, <1>2, <1>10, <1>11, <2>1, <2>2, <2>3, PushEndpoint
  <1>16. RingsInv' /\ EndpointsInv' /\ EventsInv' /\ OrderInv'
    <2>1. ~abandoned'[e] =>
              /\ ~abandoned[e]
              /\ EndpointOK(ring'[e], pending'[e], todo'[e], ctl'[e])
              /\ \A ev : Holds(e, ev) => EventOK(ring'[e], pending'[e], todo'[e], ctl'[e], ev)
              /\ \A a, b : Holds(e, a) /\ Holds(e, b) /\ OrderOK(pending[e], a, b)
                              => OrderOK(pending'[e], a, b)
      BY <1>5, <1>10, <1>13, <1>15 DEF Holds, OrderOK
    <2> QED BY <1>3, <1>5, <1>13, <2>1, QuietStep
  <1>17. CallInv'
    BY <1>5, <1>8, <1>9, <1>10, CallKept
  <1> QED BY <1>14, <1>16, <1>17 DEF BulkInv

\* A step of the controller changes one endpoint context and posts at most an event.
LEMMA ControllerTypes ==
    ASSUME BulkInv, NEW e \in Endpoints, NEW d \in ContextType, ctl' = [ctl EXCEPT ![e] = d],
           UNCHANGED <<ring, pending, todo, control, ep0, call, abandoned>>,
           moved' \in [Endpoints -> Nat], events' \in Seq(EventType)
    PROVE  /\ TypeInv' /\ CallInv' /\ Only(e) /\ RingOK(ring'[e])
           /\ ring' = ring /\ pending' = pending /\ todo' = todo /\ abandoned' = abandoned
           /\ ctl'[e] = d
  <1>1. ctl \in [Endpoints -> ContextType]
    BY DEF BulkInv, TypeInv, BulkTypeOK
  <1>2. ctl' \in [Endpoints -> ContextType] /\ ctl'[e] = d
    BY <1>1
  <1>3. TypeInv'
    BY <1>2 DEF BulkInv, TypeInv, BulkTypeOK
  <1>4. CallInv'
    BY CallKept
  <1>5. RingOK(ring'[e])
    BY Parts
  <1> QED BY <1>1, <1>2, <1>3, <1>4, <1>5 DEF Only

\* A TRB the controller finishes keeps the invariant, reported or not.
LEMMA TakeInv ==
    ASSUME BulkInv, NEW e \in Endpoints, ctl[e].state = "running", ctl[e].deq # LinkSlot,
           Owned(ring[e], ctl[e]), NEW skip \in BOOLEAN,
           ctl' = [ctl EXCEPT ![e].deq = @ + 1, ![e].skip = skip],
           UNCHANGED <<ring, pending, todo, control, ep0, call, abandoned>>,
           moved' \in [Endpoints -> Nat],
           \/ events' = events
           \/ \E code \in {"Success", "Short"}, left \in Nat :
                 events' = Append(events, TransferEvent(e, ctl[e].deq, code, left))
    PROVE  BulkInv'
  <1> DEFINE r == ring[e]
             p == pending[e]
             n == todo[e]
             c == ctl[e]
             d == [c EXCEPT !.deq = c.deq + 1, !.skip = skip]
  <1>1. /\ RingOK(r) /\ p \in PendingType /\ n \in 0 .. UsableSize /\ c \in ContextType
        /\ ~abandoned[e] => EndpointOK(r, p, n, c)
    BY Parts
  <1>2. c.deq \in Slots /\ c.deq + 1 \in 0 .. LinkSlot
    BY <1>1, RingAssumption DEF ContextType, Slots, LinkSlot
  <1>3. d \in ContextType /\ d.deq = c.deq + 1 /\ d.ccs = c.ccs /\ d.cmd = c.cmd
    <2> HIDE DEF c
    <2> QED BY <1>1, <1>2 DEF ContextType
  <1>4. ctl' = [ctl EXCEPT ![e] = d]
    BY DEF BulkInv, TypeInv, BulkTypeOK
  <1>5. events \in Seq(EventType)
    BY DEF BulkInv, TypeInv
  <1> HIDE DEF d
  <1>6. ASSUME ~abandoned[e]
        PROVE  /\ EndpointOK(r, p, n, d)
               /\ \A ev : EventOK(r, p, n, c, ev) => EventOK(r, p, n, d, ev)
               /\ \A ev : ev.kind = "transfer" /\ ev.trb = c.deq /\ ev.code # "Error" =>
                     EventOK(r, p, n, d, ev)
               /\ \A a, ev : EventOK(r, p, n, c, a) /\ ev.kind = "transfer" => OrderOK(p, a, ev)
    <2>1. EndpointOK(r, p, n, c) /\ c.state = "running" /\ c.deq # LinkSlot /\ Owned(r, c)
      BY <1>1, <1>6
    <2> HIDE DEF r, p, n, c
    <2> QED BY <1>1, <1>3, <2>1, TakeEndpoint
  <1>7. CASE events' = events
    <2>1. /\ TypeInv' /\ CallInv' /\ Only(e) /\ RingOK(ring'[e])
          /\ ring' = ring /\ pending' = pending /\ todo' = todo /\ abandoned' = abandoned
          /\ ctl'[e] = d
      BY <1>3, <1>4, <1>5, <1>7, ControllerTypes
    <2>2. RingsInv' /\ EndpointsInv' /\ EventsInv' /\ OrderInv'
      BY <1>6, <1>7, <2>1, QuietStep DEF Holds
    <2> QED BY <2>1, <2>2 DEF BulkInv
  <1>8. ASSUME NEW code \in {"Success", "Short"}, NEW left \in Nat,
               events' = Append(events, TransferEvent(e, ctl[e].deq, code, left))
        PROVE  BulkInv'
    <2> DEFINE new == TransferEvent(e, ctl[e].deq, code, left)
    <2>1. /\ new \in EventType /\ new.ep = e /\ new.kind = "transfer" /\ new.trb = c.deq
          /\ new.code # "Error"
      BY <1>2, <1>8 DEF TransferEvent, EventType
    <2>2. events' = Append(events, new)
      BY <1>8
    <2> HIDE DEF new
    <2>3. events' \in Seq(EventType)
      BY <1>5, <2>1, <2>2, PostedEvents
    <2>4. /\ TypeInv' /\ CallInv' /\ Only(e) /\ RingOK(ring'[e])
          /\ ring' = ring /\ pending' = pending /\ todo' = todo /\ abandoned' = abandoned
          /\ ctl'[e] = d
      BY <1>3, <1>4, <2>3, ControllerTypes
    <2>5. RingsInv' /\ EndpointsInv' /\ EventsInv' /\ OrderInv'
      BY <1>6, <2>1, <2>2, <2>4, PostStep DEF Holds
    <2> QED BY <2>4, <2>5 DEF BulkInv
  <1> QED BY <1>7, <1>8

\* A TRB that halts the endpoint keeps the invariant.
LEMMA HaltInv ==
    ASSUME BulkInv, NEW e \in Endpoints, ctl[e].state = "running", ctl[e].deq # LinkSlot,
           Owned(ring[e], ctl[e]), ctl' = [ctl EXCEPT ![e].state = "halted"],
           UNCHANGED <<ring, pending, todo, control, ep0, call, abandoned, moved>>,
           events' = Append(events, TransferEvent(e, ctl[e].deq, "Error", 0))
    PROVE  BulkInv'
  <1> DEFINE r == ring[e]
             p == pending[e]
             n == todo[e]
             c == ctl[e]
             d == [c EXCEPT !.state = "halted"]
             new == TransferEvent(e, ctl[e].deq, "Error", 0)
  <1>1. /\ RingOK(r) /\ p \in PendingType /\ n \in 0 .. UsableSize /\ c \in ContextType
        /\ ~abandoned[e] => EndpointOK(r, p, n, c)
    BY Parts
  <1>2. c.deq \in Slots
    BY <1>1, RingAssumption DEF ContextType, Slots, LinkSlot
  <1>3. /\ d \in ContextType /\ d.deq = c.deq /\ d.ccs = c.ccs /\ d.cmd = c.cmd
        /\ d.state = "halted"
    <2> HIDE DEF c
    <2> QED BY <1>1 DEF ContextType
  <1>4. ctl' = [ctl EXCEPT ![e] = d]
    BY DEF BulkInv, TypeInv, BulkTypeOK
  <1>5. events \in Seq(EventType) /\ moved' \in [Endpoints -> Nat]
    BY DEF BulkInv, TypeInv, BulkTypeOK
  <1>6. /\ new \in EventType /\ new.ep = e /\ new.kind = "transfer" /\ new.trb = c.deq
        /\ new.code = "Error"
    BY <1>2 DEF TransferEvent, EventType
  <1>7. events' = Append(events, new)
    OBVIOUS
  <1> HIDE DEF d, new
  <1>8. ASSUME ~abandoned[e]
        PROVE  /\ EndpointOK(r, p, n, d)
               /\ \A ev : EventOK(r, p, n, c, ev) => EventOK(r, p, n, d, ev)
               /\ \A ev : ev.kind = "transfer" /\ ev.trb = c.deq /\ ev.code = "Error" =>
                     EventOK(r, p, n, d, ev)
               /\ \A a, ev : EventOK(r, p, n, c, a) /\ ev.kind = "transfer" => OrderOK(p, a, ev)
    <2>1. EndpointOK(r, p, n, c) /\ c.state = "running" /\ c.deq # LinkSlot /\ Owned(r, c)
      BY <1>1, <1>8
    <2> HIDE DEF r, p, n, c
    <2> QED BY <1>1, <1>3, <2>1, HaltEndpoint
  <1>9. events' \in Seq(EventType)
    BY <1>5, <1>6, <1>7, PostedEvents
  <1>10. /\ TypeInv' /\ CallInv' /\ Only(e) /\ RingOK(ring'[e])
         /\ ring' = ring /\ pending' = pending /\ todo' = todo /\ abandoned' = abandoned
         /\ ctl'[e] = d
    BY <1>3, <1>4, <1>5, <1>9, ControllerTypes
  <1>11. RingsInv' /\ EndpointsInv' /\ EventsInv' /\ OrderInv'
    BY <1>6, <1>7, <1>8, <1>10, PostStep DEF Holds
  <1> QED BY <1>10, <1>11 DEF BulkInv

\* Whatever the controller does with a TRB keeps the invariant.
LEMMA ExecuteTrbInv ==
    ASSUME BulkInv, NEW e \in Endpoints, ExecuteTrb(e)
    PROVE  BulkInv'
  <1> DEFINE c == ctl[e]
             t == ring[e].buf[c.deq]
  <1>1. /\ c.state = "running" /\ c.deq # LinkSlot /\ Owned(ring[e], c)
        /\ UNCHANGED <<ring, pending, todo, control, ep0, call, abandoned>>
    BY DEF ExecuteTrb
  <1>2. moved \in [Endpoints -> Nat] /\ TrbLen \in Nat
    BY BulkAssumption DEF BulkInv, TypeInv, BulkTypeOK
  <1>3. t.last \in BOOLEAN /\ (~t.last) \in BOOLEAN
    BY <1>1, Parts, RingAssumption DEF RingType, ContextType, Slots, LinkSlot
  <1>4. CASE /\ moved' = [moved EXCEPT ![e] = @ + TrbLen]
             /\ ctl' = [ctl EXCEPT ![e].deq = @ + 1, ![e].skip = FALSE]
             /\ IF t.last THEN Post(TransferEvent(e, c.deq, "Success", 0)) ELSE UNCHANGED events
    <2>1. moved' \in [Endpoints -> Nat]
      BY <1>2, <1>4
    <2>2. \/ events' = events
          \/ \E code \in {"Success", "Short"}, left \in Nat :
                 events' = Append(events, TransferEvent(e, c.deq, code, left))
      BY <1>4 DEF Post
    <2> QED BY <1>1, <1>4, <2>1, <2>2, TakeInv
  <1>5. ASSUME NEW left \in 1 .. TrbLen,
               moved' = [moved EXCEPT ![e] = @ + TrbLen - left],
               ctl' = [ctl EXCEPT ![e].deq = @ + 1, ![e].skip = ~t.last],
               Post(TransferEvent(e, c.deq, "Short", left))
        PROVE  BulkInv'
    <2>1. moved' \in [Endpoints -> Nat] /\ left \in Nat
      BY <1>2, <1>5
    <2>2. \E code \in {"Success", "Short"}, k \in Nat :
                 events' = Append(events, TransferEvent(e, c.deq, code, k))
      BY <1>5, <2>1 DEF Post
    <2> QED BY <1>1, <1>3, <1>5, <2>1, <2>2, TakeInv
  <1>6. CASE /\ ctl' = [ctl EXCEPT ![e].deq = @ + 1, ![e].skip = ~t.last]
             /\ IF t.last
                THEN \E code \in {"Success", "Short"}, left \in 0 .. TrbLen :
                        Post(TransferEvent(e, c.deq, code, left))
                ELSE UNCHANGED events
             /\ UNCHANGED moved
    <2>1. \/ events' = events
          \/ \E code \in {"Success", "Short"}, left \in Nat :
                 events' = Append(events, TransferEvent(e, c.deq, code, left))
      BY <1>2, <1>6 DEF Post
    <2> QED BY <1>1, <1>2, <1>3, <1>6, <2>1, TakeInv
  <1>7. CASE /\ ctl' = [ctl EXCEPT ![e].state = "halted"]
             /\ Post(TransferEvent(e, c.deq, "Error", 0))
             /\ UNCHANGED moved
    BY <1>1, <1>7, HaltInv DEF Post
  <1> QED BY <1>4, <1>5, <1>6, <1>7 DEF ExecuteTrb

\* Following the Link TRB, or stopping at an empty ring, keeps the invariant.
LEMMA MoveInv ==
    ASSUME BulkInv, NEW e \in Endpoints, FollowLink(e) \/ RunDry(e)
    PROVE  BulkInv'
  <1> DEFINE c == ctl[e]
  <1>1. c \in ContextType /\ ctl \in [Endpoints -> ContextType] /\ moved \in [Endpoints -> Nat]
        /\ events \in Seq(EventType)
    BY DEF BulkInv, TypeInv, BulkTypeOK
  <1>2. /\ c.state = "running" /\ events' = events /\ moved' = moved
        /\ UNCHANGED <<ring, pending, todo, control, ep0, call, abandoned>>
    BY DEF FollowLink, RunDry
  <1>3. PICK d \in ContextType :
           /\ ctl' = [ctl EXCEPT ![e] = d] /\ d.cmd = c.cmd
           /\ HeadSlot(d) = HeadSlot(c) /\ HeadCycle(d) = HeadCycle(c)
    <2>1. CASE FollowLink(e)
      <3>1. ctl' = [ctl EXCEPT ![e] = Linked(c)] /\ c.deq = LinkSlot
        BY <2>1 DEF FollowLink
      <3>2. Linked(c).cmd = c.cmd
        BY <1>1 DEF Linked, ContextType
      <3> HIDE DEF c
      <3> QED BY <1>1, <3>1, <3>2, LinkedPosition
    <2>2. CASE RunDry(e)
      <3> DEFINE d == [c EXCEPT !.state = "idle"]
      <3>1. ctl' = [ctl EXCEPT ![e] = d]
        BY <1>1, <2>2 DEF RunDry
      <3>2. d \in ContextType /\ d.cmd = c.cmd /\ d.deq = c.deq /\ d.ccs = c.ccs
        BY <1>1 DEF ContextType
      <3> HIDE DEF d
      <3> QED BY <3>1, <3>2 DEF HeadSlot, HeadCycle
    <2> QED BY <2>1, <2>2
  <1>4. /\ TypeInv' /\ CallInv' /\ Only(e) /\ RingOK(ring'[e])
        /\ ring' = ring /\ pending' = pending /\ todo' = todo /\ abandoned' = abandoned
        /\ ctl'[e] = d
    BY <1>1, <1>2, <1>3, ControllerTypes
  <1>5. ~abandoned[e] =>
           /\ EndpointOK(ring[e], pending[e], todo[e], d)
           /\ \A ev : Holds(e, ev) => EventOK(ring[e], pending[e], todo[e], d, ev)
    BY <1>2, <1>3, Parts, StillEndpoint DEF Holds
  <1>6. RingsInv' /\ EndpointsInv' /\ EventsInv' /\ OrderInv'
    BY <1>2, <1>4, <1>5, QuietStep
  <1> QED BY <1>4, <1>6 DEF BulkInv

\* The answer to a command keeps the invariant.
LEMMA ExecuteCommandInv ==
    ASSUME BulkInv, NEW e \in Endpoints, ExecuteCommand(e)
    PROVE  BulkInv'
  <1> DEFINE r == ring[e]
             p == pending[e]
             n == todo[e]
             c == ctl[e]
  <1>1. /\ RingOK(r) /\ p \in PendingType /\ n \in 0 .. UsableSize /\ c \in ContextType
        /\ ~abandoned[e] => EndpointOK(r, p, n, c)
    BY Parts
  <1>2. /\ c.cmd # "none" /\ c.cmd \in Commands /\ events \in Seq(EventType)
        /\ moved' = moved /\ moved \in [Endpoints -> Nat]
        /\ UNCHANGED <<ring, pending, todo, control, ep0, call, abandoned>>
    BY <1>1 DEF ExecuteCommand, Commands, ContextType, BulkInv, TypeInv, BulkTypeOK
  <1>3. PICK ok \in BOOLEAN :
          /\ events' = Append(events, CompletionEvent(c.cmd, e, ok))
          /\ ctl' = [ctl EXCEPT ![e] =
                CASE ok /\ @.cmd = "ResetEndpoint" ->
                        [@ EXCEPT !.cmd = "none", !.state = "stopped"]
                  [] ok /\ @.cmd = "SetDequeuePointer" ->
                        [@ EXCEPT !.cmd = "none", !.skip = FALSE,
                                  !.deq = pending[e].next, !.ccs = pending[e].next_cycle]
                  [] OTHER -> [@ EXCEPT !.cmd = "none"]]
    BY DEF ExecuteCommand, Post
  <1>4. PICK d \in ContextType :
          /\ ctl' = [ctl EXCEPT ![e] = d] /\ d.cmd = "none" /\ d.state \in {c.state, "stopped"}
          /\ IF ok /\ c.cmd = "SetDequeuePointer"
             THEN d.deq = p.next /\ d.ccs = p.next_cycle
             ELSE d.deq = c.deq /\ d.ccs = c.ccs
    <2>0. /\ p.next \in 0 .. LinkSlot /\ p.next_cycle \in BOOLEAN
          /\ ctl \in [Endpoints -> ContextType]
      BY <1>1, RingAssumption DEF PendingType, Slots, LinkSlot, BulkInv, TypeInv, BulkTypeOK
    <2>1. CASE ok /\ c.cmd = "ResetEndpoint"
      <3> DEFINE d == [c EXCEPT !.cmd = "none", !.state = "stopped"]
      <3>1. ctl' = [ctl EXCEPT ![e] = d]
        BY <1>3, <2>0, <2>1
      <3>2. /\ d \in ContextType /\ d.deq = c.deq /\ d.ccs = c.ccs /\ d.cmd = "none"
            /\ d.state = "stopped"
        <4> HIDE DEF c
        <4> QED BY <1>1 DEF ContextType
      <3> HIDE DEF d
      <3> QED BY <2>1, <3>1, <3>2
    <2>2. CASE ok /\ c.cmd = "SetDequeuePointer"
      <3> DEFINE d == [c EXCEPT !.cmd = "none", !.skip = FALSE,
                                !.deq = p.next, !.ccs = p.next_cycle]
      <3>1. ctl' = [ctl EXCEPT ![e] = d]
        BY <1>3, <2>0, <2>2
      <3>2. /\ d \in ContextType /\ d.deq = p.next /\ d.ccs = p.next_cycle /\ d.cmd = "none"
            /\ d.state = c.state
        <4> HIDE DEF c, p
        <4> QED BY <1>1, <2>0 DEF ContextType
      <3> HIDE DEF d
      <3> QED BY <2>2, <3>1, <3>2
    <2>3. CASE ~ok \/ c.cmd \notin {"ResetEndpoint", "SetDequeuePointer"}
      <3> DEFINE d == [c EXCEPT !.cmd = "none"]
      <3>1. ctl' = [ctl EXCEPT ![e] = d]
        BY <1>3, <2>0, <2>3
      <3>2. /\ d \in ContextType /\ d.deq = c.deq /\ d.ccs = c.ccs /\ d.cmd = "none"
            /\ d.state = c.state
        <4> HIDE DEF c
        <4> QED BY <1>1 DEF ContextType
      <3> HIDE DEF d
      <3> QED BY <2>3, <3>1, <3>2
    <2> QED BY <2>1, <2>2, <2>3
  <1> DEFINE new == CompletionEvent(c.cmd, e, ok)
  <1>5. new \in EventType /\ new.ep = e /\ new.kind = c.cmd /\ new.ok = ok
    BY <1>2 DEF CompletionEvent, EventType
  <1>6. events' = Append(events, new)
    BY <1>3
  <1> HIDE DEF new
  <1>7. events' \in Seq(EventType)
    BY <1>2, <1>5, <1>6, PostedEvents
  <1>8. /\ TypeInv' /\ CallInv' /\ Only(e) /\ RingOK(ring'[e])
        /\ ring' = ring /\ pending' = pending /\ todo' = todo /\ abandoned' = abandoned
        /\ ctl'[e] = d
    BY <1>2, <1>4, <1>7, ControllerTypes
  <1>9. ASSUME ~abandoned[e]
        PROVE  /\ EndpointOK(r, p, n, d) /\ EventOK(r, p, n, d, new)
               /\ \A ev : EventOK(r, p, n, c, ev) =>
                     EventOK(r, p, n, d, ev) /\ OrderOK(p, ev, new)
    <2>1. EndpointOK(r, p, n, c)
      BY <1>1, <1>9
    <2> HIDE DEF r, p, n, c
    <2>2. EndpointOK(r, p, n, d)
          /\ (\A ev : EventOK(r, p, n, c, ev) => ev.kind # "transfer" /\ ev.kind \notin Commands)
          /\ (\A ev : ev.kind = c.cmd /\ ev.ok = ok => EventOK(r, p, n, d, ev))
      BY <1>1, <1>2, <1>4, <2>1, CommandEndpoint
    <2>3. \A ev : ev.kind # "transfer" /\ ev.kind \notin Commands
              => EventOK(r, p, n, d, ev) /\ OrderOK(p, ev, new)
      BY DEF EventOK, OrderOK
    <2> QED BY <1>5, <2>2, <2>3
  <1>10. RingsInv' /\ EndpointsInv' /\ EventsInv' /\ OrderInv'
    BY <1>5, <1>6, <1>8, <1>9, PostStep DEF Holds
  <1> QED BY <1>8, <1>10 DEF BulkInv

\* Control requests do not touch the bulk endpoints.
LEMMA ExecuteControlInv ==
    ASSUME BulkInv, ExecuteControl
    PROVE  BulkInv'
  <1>1. /\ control # <<>> /\ control \in Seq(RequestType) /\ events \in Seq(EventType)
        /\ UNCHANGED <<ring, pending, todo, ctl, call, moved, abandoned>>
        /\ ep0' \in BOOLEAN
    BY DEF ExecuteControl, BulkInv, TypeInv
  <1>2. CallInv'
    BY <1>1, CallKept
  <1>3. CASE UNCHANGED <<control, events>>
    <2>1. TypeInv'
      BY <1>1, <1>3 DEF BulkInv, TypeInv, BulkTypeOK
    <2>2. RingsInv' /\ EndpointsInv' /\ EventsInv' /\ OrderInv'
      BY <1>1, <1>3 DEF BulkInv, RingsInv, EndpointsInv, EventsInv, OrderInv
    <2> QED BY <1>2, <2>1, <2>2 DEF BulkInv
  <1>4. ASSUME NEW ok \in BOOLEAN,
               Post([kind |-> "control", req |-> Head(control).req,
                     ep |-> Head(control).ep, ok |-> ok]),
               control' = Tail(control)
        PROVE  BulkInv'
    <2> DEFINE new == [kind |-> "control", req |-> Head(control).req,
                       ep |-> Head(control).ep, ok |-> ok]
    <2>1. Head(control) \in RequestType /\ control' \in Seq(RequestType)
      BY <1>1, <1>4
    <2>2. new \in EventType /\ new.kind = "control" /\ new.ep \in Endpoints
      BY <2>1 DEF EventType, RequestType
    <2>3. events' = Append(events, new)
      BY <1>4 DEF Post
    <2> HIDE DEF new
    <2>4. events' \in Seq(EventType)
      BY <1>1, <2>2, <2>3, PostedEvents
    <2>5. TypeInv'
      BY <1>1, <2>1, <2>4 DEF BulkInv, TypeInv, BulkTypeOK
    <2>6. \A r, p, n, c, a : EventOK(r, p, n, c, new) /\ OrderOK(p, a, new)
      BY <2>2 DEF EventOK, OrderOK, Commands
    <2>7. RingOK(ring'[new.ep]) /\ Only(new.ep)
      BY <1>1, <2>2, Parts DEF Only
    <2>8. ~abandoned[new.ep] =>
              EndpointOK(ring[new.ep], pending[new.ep], todo[new.ep], ctl[new.ep])
      BY <2>2, Parts
    <2>9. RingsInv' /\ EndpointsInv' /\ EventsInv' /\ OrderInv'
      BY <1>1, <2>2, <2>3, <2>6, <2>7, <2>8, PostStep DEF Holds
    <2> QED BY <1>2, <2>5, <2>9 DEF BulkInv
  <1> QED BY <1>3, <1>4 DEF ExecuteControl

\* The class driver submits a transfer.
LEMMA SubmitInv ==
    ASSUME BulkInv, NEW e \in Endpoints, NEW item \in Items, NEW m \in 1 .. MaxTrbs,
           Submit(e, item, m)
    PROVE  BulkInv'
  <1> DEFINE r == ring[e]
             c == ctl[e]
             q == [NoPending EXCEPT !.active = TRUE, !.item = item, !.count = m]
  <1>1. /\ RingOK(r) /\ pending[e] \in PendingType /\ todo[e] \in 0 .. UsableSize
        /\ c \in ContextType
        /\ ~abandoned[e] => EndpointOK(r, pending[e], todo[e], c)
    BY Parts
  <1>2. /\ ~pending[e].active /\ m <= UsableSize /\ todo[e] = 0
        /\ pending' = [pending EXCEPT ![e] = q] /\ todo' = [todo EXCEPT ![e] = m]
        /\ moved' = [moved EXCEPT ![e] = 0]
        /\ ring' = ring /\ ctl' = ctl /\ control' = control /\ ep0' = ep0 /\ events' = events
        /\ abandoned' = abandoned /\ call' = call
    BY DEF Submit, CanSubmit, Accepts, QueueBulkTransfer, hwVars
  <1>3. m \in 1 .. UsableSize
    BY <1>2, RingAssumption, BulkAssumption DEF UsableSize
  <1>4. q \in PendingType /\ q.phase = "None" /\ m \in 0 .. UsableSize
    <2>1. m \in 0 .. UsableSize /\ 0 \in Slots
      BY <1>3, RingAssumption DEF UsableSize, Slots
    <2>2. q \in PendingType /\ q.phase = NoPending.phase
      BY <2>1, PendingTyped DEF PendingType
    <2>3. NoPending.phase = "None"
      BY DEF NoPending
    <2> QED BY <2>1, <2>2, <2>3
  <1> HIDE DEF q
  <1>5. /\ pending' \in [Endpoints -> PendingType] /\ todo' \in [Endpoints -> 0 .. UsableSize]
        /\ moved' \in [Endpoints -> Nat]
        /\ pending'[e] = q /\ todo'[e] = m /\ Only(e)
    BY <1>2, <1>4 DEF BulkInv, TypeInv, BulkTypeOK, Only
  <1>6. TypeInv'
    BY <1>2, <1>5 DEF BulkInv, TypeInv, BulkTypeOK
  <1>7. ASSUME ~abandoned[e]
        PROVE  /\ pending[e].phase = "None"
               /\ EndpointOK(r, q, m, c)
               /\ \A ev : Holds(e, ev) => ev.kind # "transfer" /\ ev.kind \notin Commands
    <2>1. EndpointOK(r, pending[e], 0, c)
      BY <1>1, <1>2, <1>7
    <2>2. pending[e].phase = "None" /\ c.cmd = "none" /\ pending[e].count = 0
      BY <1>1, <1>2, <2>1 DEF EndpointOK, ContextType
    <2>3. Occupancy(r, c) \in 0 .. UsableSize
      BY <1>1, <2>1, OccupancyBounds DEF EndpointOK
    <2>4. Occupancy(r, c) = 0
      BY <2>1, <2>2, <2>3, RingAssumption DEF EndpointOK, UsableSize
    <2>5. EndpointOK(r, q, m, c)
      BY <1>1, <1>3, <2>1, <2>2, <2>4, FreeEndpoint DEF q
    <2> QED BY <1>2, <2>2, <2>5 DEF Holds, EventOK, Commands
  <1>8. RingsInv' /\ EndpointsInv' /\ EventsInv' /\ OrderInv'
    <2>1. ~abandoned'[e] =>
              /\ ~abandoned[e]
              /\ EndpointOK(ring'[e], pending'[e], todo'[e], ctl'[e])
              /\ \A ev : Holds(e, ev) => EventOK(ring'[e], pending'[e], todo'[e], ctl'[e], ev)
              /\ \A a, b : Holds(e, a) /\ Holds(e, b) /\ OrderOK(pending[e], a, b)
                              => OrderOK(pending'[e], a, b)
      BY <1>2, <1>5, <1>7 DEF EventOK, OrderOK
    <2> QED BY <1>1, <1>2, <1>5, <2>1, QuietStep
  <1>9. CallInv'
    <2>1. \A f \in Endpoints : ~abandoned'[f] => ~abandoned[f]
             /\ (pending[f].phase = "ClearEndpointHalt" => pending'[f].phase = pending[f].phase)
      BY <1>2, <1>5, <1>7 DEF Only
    <2> QED BY <1>2, <2>1, CallKept
  <1> QED BY <1>6, <1>8, <1>9 DEF BulkInv

\* It sends a request, or returns from a call.
LEMMA AnswerInv ==
    ASSUME BulkInv, (\E e \in Endpoints : SendClearHalt(e)) \/ (\E err \in BOOLEAN : Answer(err))
    PROVE  BulkInv'
  <1>1. UNCHANGED <<ring, pending, todo, ctl, ep0, events, moved, abandoned>>
    BY DEF SendClearHalt, Answer, hwVars
  <1>2. RingsInv' /\ EndpointsInv' /\ EventsInv' /\ OrderInv'
    BY <1>1 DEF BulkInv, RingsInv, EndpointsInv, EventsInv, OrderInv
  <1>3. CASE \E e \in Endpoints : SendClearHalt(e)
    <2>1. PICK e \in Endpoints : control' = Append(control, [req |-> "ClearHalt", ep |-> e])
                                 /\ call' = call
      BY <1>3 DEF SendClearHalt
    <2>2. control' \in Seq(RequestType)
      <3>1. [req |-> "ClearHalt", ep |-> e] \in RequestType
        BY DEF RequestType
      <3> QED BY <2>1, <3>1 DEF BulkInv, TypeInv
    <2>3. TypeInv'
      BY <1>1, <2>1, <2>2 DEF BulkInv, TypeInv, BulkTypeOK
    <2>4. CallInv'
      BY <1>1, <2>1, CallKept
    <2> QED BY <1>2, <2>3, <2>4 DEF BulkInv
  <1>4. CASE \E err \in BOOLEAN : Answer(err)
    <2>1. PICK err \in BOOLEAN : /\ call # NoCall /\ call' = [call EXCEPT !.done = TRUE, !.err = err]
                                 /\ control' = control /\ ep0' = ep0
      BY <1>4 DEF Answer, hwVars
    <2>2. call \in CallType
      BY <2>1 DEF BulkInv, TypeInv
    <2>3. call' \in CallType /\ call'.fn = call.fn /\ call'.ep = call.ep
      BY <2>1, <2>2 DEF CallType
    <2>4. TypeInv'
      BY <1>1, <2>1, <2>3 DEF BulkInv, TypeInv, BulkTypeOK
    <2>5. CallInv'
      BY <1>1, <2>3 DEF BulkInv, CallInv
    <2> QED BY <1>2, <2>4, <2>5 DEF BulkInv
  <1> QED BY <1>3, <1>4

\* The handler's event, and the driver's state while it runs.
LEMMA HeadEvent ==
    ASSUME BulkInv, NEW kind, Event(kind)
    PROVE  /\ events # <<>> /\ Head(events) \in EventType /\ Head(events).kind = kind
           /\ Head(events).ep \in Endpoints /\ Tail(events) \in Seq(EventType)
           /\ call = NoCall /\ todo[Head(events).ep] = 0
           /\ ~abandoned[Head(events).ep] => Holds(Head(events).ep, Head(events))
  <1>1. events # <<>> /\ Head(events).kind = kind /\ call = NoCall
        /\ \A e \in Endpoints : todo[e] = 0
    BY DEF Event, DriverIdle
  <1>2. events \in Seq(EventType)
    BY DEF BulkInv, TypeInv
  <1>3. /\ Head(events) \in EventType /\ Tail(events) \in Seq(EventType)
        /\ Head(events) = events[1] /\ 1 \in 1 .. Len(events)
    BY <1>1, <1>2, TakenEvents
  <1>4. Head(events).ep \in Endpoints
    BY <1>3 DEF EventType
  <1>5. ~abandoned[Head(events).ep] => Holds(Head(events).ep, Head(events))
    BY <1>3, <1>4 DEF BulkInv, EventsInv, Holds
  <1> QED BY <1>1, <1>3, <1>4, <1>5

\* An event that is neither of a transfer nor of a command says nothing.
LEMMA OtherEvents ==
    ASSUME NEW ev, ev.kind # "transfer", ev.kind \notin Commands
    PROVE  /\ \A r, p, n, c : EventOK(r, p, n, c, ev)
           /\ \A p, b : OrderOK(p, ev, b)
  BY DEF EventOK, OrderOK

\* What one endpoint's handler leaves alone, and the types of what it changes.
Handled(e, p, c, a) ==
    /\ pending' = [pending EXCEPT ![e] = p] /\ ctl' = [ctl EXCEPT ![e] = c]
    /\ abandoned' = [abandoned EXCEPT ![e] = a]
    /\ ring' = ring /\ todo' = todo /\ control' = control /\ ep0' = ep0 /\ moved' = moved

\* Types after a handler that touches one endpoint.
LEMMA HandledTypes ==
    ASSUME BulkInv, NEW e \in Endpoints, NEW p \in PendingType, NEW c \in ContextType,
           NEW a \in BOOLEAN, Handled(e, p, c, a), events' \in Seq(EventType),
           call' = NoCall \/ call' \in CallType
    PROVE  /\ TypeInv' /\ Only(e) /\ RingOK(ring'[e])
           /\ pending'[e] = p /\ ctl'[e] = c /\ abandoned'[e] = a
  <1>1. /\ pending \in [Endpoints -> PendingType] /\ ctl \in [Endpoints -> ContextType]
        /\ abandoned \in [Endpoints -> BOOLEAN]
    BY DEF BulkInv, TypeInv, BulkTypeOK
  <1>2. /\ pending' \in [Endpoints -> PendingType] /\ ctl' \in [Endpoints -> ContextType]
        /\ abandoned' \in [Endpoints -> BOOLEAN]
        /\ pending'[e] = p /\ ctl'[e] = c /\ abandoned'[e] = a /\ Only(e)
    BY <1>1 DEF Handled, Only
  <1>3. TypeInv'
    BY <1>2 DEF BulkInv, TypeInv, BulkTypeOK, Handled
  <1>4. RingOK(ring'[e])
    BY Parts DEF Handled
  <1> QED BY <1>2, <1>3, <1>4

\* Abandon as a change of one endpoint.
LEMMA AbandonHandled ==
    ASSUME BulkInv, NEW e \in Endpoints, Abandon(e),
           ring' = ring /\ todo' = todo /\ control' = control /\ ep0' = ep0 /\ moved' = moved
    PROVE  NoPending \in PendingType /\ ctl[e] \in ContextType /\ Handled(e, NoPending, ctl[e], TRUE)
  <1>1. ctl \in [Endpoints -> ContextType]
    BY DEF BulkInv, TypeInv, BulkTypeOK
  <1>2. ctl' = [ctl EXCEPT ![e] = ctl[e]]
    BY <1>1 DEF Abandon
  <1> QED BY <1>1, <1>2, PendingTyped DEF Abandon, Handled

\* SendCommand as a change of one endpoint.
LEMMA SendHandled ==
    ASSUME BulkInv, NEW e \in Endpoints, NEW cmd \in Commands, SendCommand(e, cmd),
           ring' = ring /\ todo' = todo /\ control' = control /\ ep0' = ep0 /\ moved' = moved,
           abandoned' = abandoned
    PROVE  LET q == [pending[e] EXCEPT !.phase = cmd]
               d == [ctl[e] EXCEPT !.cmd = cmd]
           IN  /\ q \in PendingType /\ d \in ContextType /\ Handled(e, q, d, abandoned[e])
               /\ q.phase = cmd /\ q.count = pending[e].count /\ q.first = pending[e].first
               /\ d.deq = ctl[e].deq /\ d.ccs = ctl[e].ccs /\ d.state = ctl[e].state
               /\ d.cmd = cmd
  <1>1. /\ pending \in [Endpoints -> PendingType] /\ ctl \in [Endpoints -> ContextType]
        /\ abandoned \in [Endpoints -> BOOLEAN]
    BY DEF BulkInv, TypeInv, BulkTypeOK
  <1> DEFINE q == [pending[e] EXCEPT !.phase = cmd]
             d == [ctl[e] EXCEPT !.cmd = cmd]
  <1>2. pending' = [pending EXCEPT ![e] = q] /\ ctl' = [ctl EXCEPT ![e] = d]
    BY <1>1 DEF SendCommand
  <1>3. abandoned' = [abandoned EXCEPT ![e] = abandoned[e]]
    BY <1>1
  <1>4. pending[e] \in PendingType /\ ctl[e] \in ContextType
    BY <1>1
  <1>5. /\ q \in PendingType /\ q.phase = cmd /\ q.count = pending[e].count
        /\ q.first = pending[e].first
    BY <1>4 DEF PendingType, Phases, Commands
  <1>6. /\ d \in ContextType /\ d.deq = ctl[e].deq /\ d.ccs = ctl[e].ccs
        /\ d.state = ctl[e].state /\ d.cmd = cmd
    BY <1>4 DEF ContextType, Commands
  <1> QED BY <1>2, <1>3, <1>5, <1>6 DEF Handled

\* A recovery that fails: nothing is claimed of the endpoint any more.
LEMMA AbandonInv ==
    ASSUME BulkInv, NEW e \in Endpoints, Abandon(e),
           ring' = ring /\ todo' = todo /\ control' = control /\ ep0' = ep0 /\ moved' = moved,
           \/ events' = events
           \/ events # <<>> /\ Head(events).ep = e /\ events' = Tail(events),
           call' = NoCall \/ (call' \in CallType /\ call'.fn = "Recovered")
    PROVE  BulkInv'
  <1>1. NoPending \in PendingType /\ ctl[e] \in ContextType /\ Handled(e, NoPending, ctl[e], TRUE)
    BY AbandonHandled
  <1>2. events' \in Seq(EventType)
    BY TakenEvents DEF BulkInv, TypeInv
  <1>3. TypeInv' /\ Only(e) /\ RingOK(ring'[e]) /\ abandoned'[e] = TRUE
    BY <1>1, <1>2, HandledTypes
  <1>4. CallInv'
    BY DEF CallInv, NoCall
  <1>5. RingsInv' /\ EndpointsInv' /\ EventsInv' /\ OrderInv'
    <2>1. CASE events' = events
      BY <1>3, <2>1, QuietStep
    <2>2. CASE events # <<>> /\ Head(events).ep = e /\ events' = Tail(events)
      BY <1>3, <2>2, TakeStep
    <2> QED BY <2>1, <2>2
  <1> QED BY <1>3, <1>4, <1>5 DEF BulkInv

\* A command is sent when every event of the endpoint has been handled.
LEMMA SendInv ==
    ASSUME BulkInv, NEW e \in Endpoints, NEW cmd \in Commands, SendCommand(e, cmd),
           ring' = ring /\ todo' = todo /\ control' = control /\ ep0' = ep0 /\ moved' = moved,
           abandoned' = abandoned, call' = NoCall,
           ~abandoned[e] => pending[e].active /\ todo[e] = 0
                            /\ ctl[e].state \in {"halted", "stopped"},
           \/ /\ events' = events
              /\ ~abandoned[e] => \A ev : Holds(e, ev) =>
                    ev.kind # "transfer" /\ ev.kind \notin Commands
           \/ /\ events # <<>> /\ Head(events).ep = e /\ events' = Tail(events)
              /\ ~abandoned[e] => \A ev : Holds(e, ev) /\ OrderOK(pending[e], Head(events), ev) =>
                    ev.kind # "transfer" /\ ev.kind \notin Commands
    PROVE  BulkInv'
  <1> DEFINE q == [pending[e] EXCEPT !.phase = cmd]
             d == [ctl[e] EXCEPT !.cmd = cmd]
  <1>1. /\ q \in PendingType /\ d \in ContextType /\ Handled(e, q, d, abandoned[e])
        /\ d.deq = ctl[e].deq /\ d.ccs = ctl[e].ccs /\ d.state = ctl[e].state /\ d.cmd = cmd
    BY SendHandled
  <1>2. events' \in Seq(EventType)
    BY TakenEvents DEF BulkInv, TypeInv
  <1>3. abandoned[e] \in BOOLEAN /\ pending[e] \in PendingType /\ ctl[e] \in ContextType
    BY Parts
  <1>4. ~abandoned[e] => EndpointOK(ring[e], q, todo[e], d)
    <2> SUFFICES ASSUME ~abandoned[e] PROVE EndpointOK(ring[e], q, todo[e], d)
      OBVIOUS
    <2>1. EndpointOK(ring[e], pending[e], todo[e], ctl[e])
      BY Parts
    <2>2. q = [pending[e] EXCEPT !.phase = cmd]
      OBVIOUS
    <2> HIDE DEF q, d
    <2>3. /\ pending[e].active /\ todo[e] = 0 /\ ctl[e].state \in {"halted", "stopped"}
          /\ d.cmd \in {"none", cmd}
      BY <1>1
    <2> DEFINE p == pending[e]
               n == todo[e]
               c == ctl[e]
               r == ring[e]
    <2>4. /\ EndpointOK(r, p, n, c) /\ p \in PendingType /\ c \in ContextType /\ n = 0
          /\ p.active /\ c.state \in {"halted", "stopped"} /\ q = [p EXCEPT !.phase = cmd]
          /\ d.deq = c.deq /\ d.ccs = c.ccs /\ d.state = c.state
      BY <1>1, <1>3, <2>1, <2>2, <2>3
    <2> HIDE DEF p, n, c, r
    <2>5. EndpointOK(r, q, n, d)
      BY <1>1, <2>3, <2>4, PhaseEndpoint
    <2> QED BY <2>5 DEF r, n
  <1> HIDE DEF q, d
  <1>5. /\ TypeInv' /\ Only(e) /\ RingOK(ring'[e])
        /\ pending'[e] = q /\ ctl'[e] = d /\ abandoned'[e] = abandoned[e]
    BY <1>1, <1>2, <1>3, HandledTypes
  <1>6. CallInv'
    BY DEF CallInv, NoCall
  <1>7. RingsInv' /\ EndpointsInv' /\ EventsInv' /\ OrderInv'
    <2>1. CASE /\ events' = events
               /\ ~abandoned[e] => \A ev : Holds(e, ev) =>
                     ev.kind # "transfer" /\ ev.kind \notin Commands
      <3>1. ~abandoned'[e] =>
              /\ ~abandoned[e]
              /\ EndpointOK(ring'[e], pending'[e], todo'[e], ctl'[e])
              /\ \A ev : Holds(e, ev) => EventOK(ring'[e], pending'[e], todo'[e], ctl'[e], ev)
              /\ \A a, b : Holds(e, a) /\ Holds(e, b) /\ OrderOK(pending[e], a, b)
                              => OrderOK(pending'[e], a, b)
        BY <1>4, <1>5, <2>1, OtherEvents
      <3> QED BY <1>5, <2>1, <3>1, QuietStep
    <2>2. CASE /\ events # <<>> /\ Head(events).ep = e /\ events' = Tail(events)
               /\ ~abandoned[e] => \A ev : Holds(e, ev) /\ OrderOK(pending[e], Head(events), ev) =>
                     ev.kind # "transfer" /\ ev.kind \notin Commands
      <3>1. ~abandoned'[e] =>
              /\ ~abandoned[e]
              /\ EndpointOK(ring[e], pending'[e], todo'[e], ctl'[e])
              /\ \A ev : Holds(e, ev) /\ OrderOK(pending[e], Head(events), ev)
                    => EventOK(ring[e], pending'[e], todo'[e], ctl'[e], ev)
              /\ \A a, b : /\ Holds(e, a) /\ OrderOK(pending[e], Head(events), a)
                           /\ OrderOK(pending[e], a, b)
                    => OrderOK(pending'[e], a, b)
        BY <1>4, <1>5, <2>2, OtherEvents
      <3> QED BY <1>5, <2>2, <3>1, TakeStep
    <2> QED BY <2>1, <2>2
  <1> QED BY <1>5, <1>6, <1>7 DEF BulkInv

\* An event is dropped, or answered by a call that changes no transfer.
LEMMA DropInv ==
    ASSUME BulkInv, events # <<>>, Head(events).ep \in Endpoints, events' = Tail(events),
           UNCHANGED <<ring, pending, todo, ctl, control, ep0, moved, abandoned>>,
           call' = NoCall \/ call' \in CallType, CallInv'
    PROVE  BulkInv'
  <1>1. events' \in Seq(EventType)
    BY TakenEvents DEF BulkInv, TypeInv
  <1>2. TypeInv'
    BY <1>1 DEF BulkInv, TypeInv, BulkTypeOK
  <1> DEFINE e == Head(events).ep
  <1>3. Only(e)
    BY DEF Only
  <1>4. ~abandoned'[e] =>
              /\ ~abandoned[e]
              /\ EndpointOK(ring[e], pending'[e], todo'[e], ctl'[e])
              /\ \A ev : Holds(e, ev) /\ OrderOK(pending[e], Head(events), ev)
                    => EventOK(ring[e], pending'[e], todo'[e], ctl'[e], ev)
              /\ \A a, b : /\ Holds(e, a) /\ OrderOK(pending[e], Head(events), a)
                           /\ OrderOK(pending[e], a, b)
                    => OrderOK(pending'[e], a, b)
    BY Parts DEF Holds
  <1>5. RingsInv' /\ EndpointsInv' /\ EventsInv' /\ OrderInv'
    BY <1>3, <1>4, TakeStep
  <1> QED BY <1>2, <1>5 DEF BulkInv

\* A transfer is over with nothing left in the ring and no event of it.
LEMMA FreeInv ==
    ASSUME BulkInv, NEW e \in Endpoints, events # <<>>, Head(events).ep = e,
           events' = Tail(events), todo[e] = 0,
           pending' = [pending EXCEPT ![e] = NoPending],
           UNCHANGED <<ring, todo, ctl, control, ep0, moved, abandoned>>,
           call' \in CallType, call'.fn # "ClearHaltDone",
           ~abandoned[e] =>
              /\ Occupancy(ring[e], ctl[e]) = 0 /\ ctl[e].cmd = "none"
              /\ \A ev : Holds(e, ev) /\ OrderOK(pending[e], Head(events), ev) =>
                    ev.kind # "transfer" /\ ev.kind \notin Commands
    PROVE  BulkInv'
  <1>1. events' \in Seq(EventType)
    BY TakenEvents DEF BulkInv, TypeInv
  <1>2. /\ abandoned[e] \in BOOLEAN /\ pending[e] \in PendingType /\ ctl[e] \in ContextType
        /\ ctl \in [Endpoints -> ContextType] /\ abandoned \in [Endpoints -> BOOLEAN]
    BY Parts DEF BulkInv, TypeInv, BulkTypeOK
  <1>3. Handled(e, NoPending, ctl[e], abandoned[e])
    BY <1>2 DEF Handled
  <1>4. /\ TypeInv' /\ Only(e) /\ RingOK(ring'[e])
        /\ pending'[e] = NoPending /\ ctl'[e] = ctl[e] /\ abandoned'[e] = abandoned[e]
    BY <1>1, <1>2, <1>3, PendingTyped, HandledTypes
  <1>5. CallInv'
    BY DEF CallInv
  <1>6. ~abandoned[e] => EndpointOK(ring[e], NoPending, todo[e], ctl[e])
    BY <1>2, Parts, FreeEndpoint
  <1>7. ~abandoned'[e] =>
              /\ ~abandoned[e]
              /\ EndpointOK(ring[e], pending'[e], todo'[e], ctl'[e])
              /\ \A ev : Holds(e, ev) /\ OrderOK(pending[e], Head(events), ev)
                    => EventOK(ring[e], pending'[e], todo'[e], ctl'[e], ev)
              /\ \A a, b : /\ Holds(e, a) /\ OrderOK(pending[e], Head(events), a)
                           /\ OrderOK(pending[e], a, b)
                    => OrderOK(pending'[e], a, b)
    BY <1>4, <1>6, OtherEvents
  <1>8. RingsInv' /\ EndpointsInv' /\ EventsInv' /\ OrderInv'
    BY <1>4, <1>7, TakeStep
  <1> QED BY <1>4, <1>5, <1>8 DEF BulkInv

\* OnTransferEvent keeps the invariant.
LEMMA OnTransferEventInv ==
    ASSUME BulkInv, OnTransferEvent
    PROVE  BulkInv'
  <1> DEFINE ev == Head(events)
             e == ev.ep
             p == pending[e]
             len == IF p.short_seen THEN p.short_len ELSE TransferredLength(e, ev.trb, ev.residual)
  <1>1. Event("transfer")
    BY DEF OnTransferEvent
  <1>2. /\ events # <<>> /\ ev \in EventType /\ ev.kind = "transfer" /\ e \in Endpoints
        /\ call = NoCall /\ todo[e] = 0 /\ Tail(events) \in Seq(EventType)
        /\ ~abandoned[e] => Holds(e, ev)
    BY <1>1, HeadEvent
  <1>3. /\ events' = Tail(events) /\ ring' = ring /\ todo' = todo /\ control' = control /\ ep0' = ep0
        /\ moved' = moved /\ abandoned' = abandoned
    BY DEF OnTransferEvent
  <1>4. /\ p \in PendingType /\ RingOK(ring[e]) /\ ctl[e] \in ContextType
        /\ ~abandoned[e] => EndpointOK(ring[e], p, 0, ctl[e])
    BY <1>2, Parts
  <1>5. ev.trb \in Slots /\ ev.residual \in Nat
    BY <1>2 DEF EventType, Commands
  <1>6. len \in Int
    <2>1. TrbIndex(p.first, ev.trb) \in Int /\ TrbLen \in Int /\ p.short_len \in Int
      BY <1>4, <1>5, RingAssumption, BulkAssumption
      DEF TrbIndex, PendingType, Slots, UsableSize
    <2>2. TrbLen * TrbIndex(p.first, ev.trb) \in Int
      BY <2>1
    <2>3. TransferredLength(e, ev.trb, ev.residual) \in Int
      BY <1>5, <2>1, <2>2 DEF TransferredLength
    <2> QED BY <2>1, <2>3
  <1>7. ~abandoned[e] => p.phase = "None" /\ p.active /\ ctl[e].cmd = "none"
    BY <1>2, <1>4 DEF Holds, EventOK, EndpointOK, ContextType
  <1>8. ~abandoned[e] => \A x : Holds(e, x) => x.kind \notin Commands
    BY <1>7 DEF Holds, EventOK, Commands
  <1>9. CASE UNCHANGED <<pending, ctl, call>>
    <2>1. CallInv'
      BY <1>2, <1>9 DEF CallInv, NoCall
    <2> QED BY <1>2, <1>3, <1>9, <2>1, DropInv
  <1>10. CASE ev.code = "Error" /\ SendCommand(e, "ResetEndpoint") /\ UNCHANGED call
    <2>1. ~abandoned[e] => ctl[e].state = "halted"
      BY <1>2, <1>10 DEF Holds, EventOK
    <2>2. \A x : OrderOK(p, ev, x) => x.kind # "transfer"
      BY <1>2, <1>10 DEF OrderOK
    <2>3. "ResetEndpoint" \in Commands
      BY DEF Commands
    <2> QED BY <1>2, <1>3, <1>7, <1>8, <1>10, <2>1, <2>2, <2>3, SendInv
  <1>11. CASE /\ pending' = [pending EXCEPT ![e].short_seen = TRUE, ![e].short_len = len]
              /\ UNCHANGED <<ctl, call>>
    <2> DEFINE q == [p EXCEPT !.short_seen = TRUE, !.short_len = len]
    <2>1. /\ pending \in [Endpoints -> PendingType] /\ ctl \in [Endpoints -> ContextType]
          /\ abandoned \in [Endpoints -> BOOLEAN]
      BY DEF BulkInv, TypeInv, BulkTypeOK
    <2>2. Handled(e, q, ctl[e], abandoned[e])
      BY <1>2, <1>3, <1>11, <2>1 DEF Handled
    <2>3. /\ q \in PendingType /\ q.active = p.active /\ q.item = p.item /\ q.first = p.first
          /\ q.last = p.last /\ q.count = p.count /\ q.next = p.next
          /\ q.next_cycle = p.next_cycle /\ q.phase = p.phase
      <3> HIDE DEF p, len
      <3> QED BY <1>4, <1>6 DEF PendingType
    <2> HIDE DEF q
    <2>4. abandoned[e] \in BOOLEAN
      BY <1>2, Parts
    <2>5. /\ TypeInv' /\ Only(e) /\ RingOK(ring'[e])
          /\ pending'[e] = q /\ ctl'[e] = ctl[e] /\ abandoned'[e] = abandoned[e]
      BY <1>2, <1>3, <1>4, <1>11, <2>2, <2>3, <2>4, HandledTypes
    <2>6. CallInv'
      BY <1>2, <1>11 DEF CallInv, NoCall
    <2>7. ~abandoned[e] => EndpointOK(ring[e], q, 0, ctl[e])
      BY <1>4, <2>3 DEF EndpointOK
    <2>8. \A r, n, c, x : EventOK(r, p, n, c, x) => EventOK(r, q, n, c, x)
      BY <2>3 DEF EventOK
    <2>9. \A a, b : OrderOK(p, a, b) => OrderOK(q, a, b)
      BY <2>3 DEF OrderOK
    <2>10. RingsInv' /\ EndpointsInv' /\ EventsInv' /\ OrderInv'
      BY <1>2, <1>3, <2>5, <2>7, <2>8, <2>9, TakeStep DEF Holds
    <2> QED BY <2>5, <2>6, <2>10 DEF BulkInv
  <1>12. CASE /\ ev.code # "Error" /\ Final(e, ev)
              /\ pending' = [pending EXCEPT ![e] = NoPending]
              /\ Call("Completed", e, TRUE, p.item, len)
              /\ UNCHANGED ctl
    <2>1. call' \in CallType /\ call'.fn = "Completed"
      BY <1>2, <1>4, <1>6, <1>12 DEF Call, CallOf, CallType, PendingType
    <2>2. ~abandoned[e] => /\ Occupancy(ring[e], ctl[e]) = 0
                           /\ \A b : OrderOK(p, ev, b) => b.kind # "transfer"
      <3> SUFFICES ASSUME ~abandoned[e]
                   PROVE  /\ Occupancy(ring[e], ctl[e]) = 0
                          /\ \A b : OrderOK(p, ev, b) => b.kind # "transfer"
        OBVIOUS
      <3> DEFINE r == ring[e]
                 c == ctl[e]
      <3>1. /\ EventOK(r, p, 0, c, ev) /\ EndpointOK(r, p, 0, c) /\ RingOK(r)
            /\ p \in PendingType /\ ev.kind = "transfer" /\ ev.code # "Error" /\ ev.trb = p.last
        BY <1>2, <1>4, <1>12 DEF Holds, Final
      <3> HIDE DEF r, c, p, ev
      <3>2. Occupancy(r, c) = 0 /\ \A b : OrderOK(p, ev, b) => b.kind # "transfer"
        BY <3>1, LastEvent
      <3> QED BY <3>2 DEF r, c
    <2> QED BY <1>2, <1>3, <1>7, <1>8, <1>12, <2>1, <2>2, FreeInv
  <1> QED BY <1>9, <1>10, <1>11, <1>12 DEF OnTransferEvent

\* The completions of the recovery commands.
LEMMA CompletionFacts ==
    ASSUME BulkInv, NEW cmd \in Commands, Event(cmd)
    PROVE  LET e == Head(events).ep IN
           ~abandoned[e] =>
              /\ pending[e].phase = cmd /\ ctl[e].cmd = "none" /\ pending[e].active
              /\ ctl[e].state \in {"halted", "stopped"}
              /\ \A x : Holds(e, x) /\ OrderOK(pending[e], Head(events), x) =>
                    x.kind # "transfer" /\ x.kind \notin Commands
              /\ cmd = "SetDequeuePointer" /\ Head(events).ok => Occupancy(ring[e], ctl[e]) = 0
  <1> DEFINE e == Head(events).ep
  <1> SUFFICES ASSUME ~abandoned[e]
               PROVE  /\ pending[e].phase = cmd /\ ctl[e].cmd = "none" /\ pending[e].active
                      /\ ctl[e].state \in {"halted", "stopped"}
                      /\ \A x : Holds(e, x) /\ OrderOK(pending[e], Head(events), x) =>
                            x.kind # "transfer" /\ x.kind \notin Commands
                      /\ cmd = "SetDequeuePointer" /\ Head(events).ok
                            => Occupancy(ring[e], ctl[e]) = 0
    OBVIOUS
  <1>1. /\ Head(events).kind = cmd /\ e \in Endpoints /\ Holds(e, Head(events))
    BY HeadEvent
  <1>2. EndpointOK(ring[e], pending[e], todo[e], ctl[e])
    BY <1>1, Parts
  <1>3. /\ pending[e].phase = cmd /\ ctl[e].cmd = "none"
        /\ cmd = "SetDequeuePointer" /\ Head(events).ok => Occupancy(ring[e], ctl[e]) = 0
    BY <1>1 DEF Holds, EventOK
  <1>4. cmd # "None"
    BY DEF Commands
  <1>5. pending[e].active /\ ctl[e].state \in {"halted", "stopped"}
    BY <1>2, <1>3, <1>4 DEF EndpointOK
  <1>6. \A x : Holds(e, x) => x.kind # "transfer"
    BY <1>3, <1>4 DEF Holds, EventOK
  <1>7. \A x : OrderOK(pending[e], Head(events), x) => x.kind \notin Commands
    BY <1>1 DEF OrderOK
  <1> QED BY <1>3, <1>5, <1>6, <1>7

\* OnEndpointResetCompleted keeps the invariant.
LEMMA OnEndpointResetCompletedInv ==
    ASSUME BulkInv, OnEndpointResetCompleted
    PROVE  BulkInv'
  <1> DEFINE e == Head(events).ep
  <1>1. Event("ResetEndpoint") /\ "ResetEndpoint" \in Commands
    BY DEF OnEndpointResetCompleted, Commands
  <1>2. /\ events # <<>> /\ e \in Endpoints /\ call = NoCall /\ todo[e] = 0
        /\ Tail(events) \in Seq(EventType)
    BY <1>1, HeadEvent
  <1>3. /\ events' = Tail(events) /\ ring' = ring /\ todo' = todo /\ control' = control /\ ep0' = ep0
        /\ moved' = moved
    BY DEF OnEndpointResetCompleted
  <1>4. ~abandoned[e] =>
              /\ pending[e].active /\ ctl[e].cmd = "none"
              /\ ctl[e].state \in {"halted", "stopped"}
              /\ \A x : Holds(e, x) /\ OrderOK(pending[e], Head(events), x) =>
                    x.kind # "transfer" /\ x.kind \notin Commands
    BY <1>1, CompletionFacts
  <1>5. CASE UNCHANGED <<pending, ctl, abandoned, call>>
    <2>1. CallInv'
      BY <1>2, <1>5 DEF CallInv, NoCall
    <2> QED BY <1>2, <1>3, <1>5, <2>1, DropInv
  <1>6. CASE Abandon(e) /\ Call("Recovered", e, FALSE, NoItem, 0)
    <2>1. call' \in CallType /\ call'.fn = "Recovered"
      BY <1>2, <1>6 DEF Call, CallOf, CallType
    <2> QED BY <1>2, <1>3, <1>6, <2>1, AbandonInv
  <1>7. CASE /\ pending' = [pending EXCEPT ![e].phase = "ClearEndpointHalt"]
             /\ Call("ResetDone", e, TRUE, NoItem, 0)
             /\ UNCHANGED <<ctl, abandoned>>
    <2> DEFINE p == pending[e]
               q == [p EXCEPT !.phase = "ClearEndpointHalt"]
               r == ring[e]
               c == ctl[e]
    <2>1. /\ pending \in [Endpoints -> PendingType] /\ ctl \in [Endpoints -> ContextType]
          /\ abandoned \in [Endpoints -> BOOLEAN]
      BY DEF BulkInv, TypeInv, BulkTypeOK
    <2>2. Handled(e, q, c, abandoned[e])
      BY <1>2, <1>3, <1>7, <2>1 DEF Handled
    <2>3. /\ p \in PendingType /\ c \in ContextType /\ abandoned[e] \in BOOLEAN
          /\ ~abandoned[e] => EndpointOK(r, p, todo[e], c)
      BY <1>2, Parts
    <2>4. q \in PendingType
      <3> HIDE DEF p
      <3> QED BY <2>3 DEF PendingType, Phases
    <2>5. call' \in CallType /\ call'.fn = "ResetDone"
      BY <1>2, <1>7 DEF Call, CallOf, CallType
    <2>6. ASSUME ~abandoned[e] PROVE EndpointOK(r, q, 0, c)
      <3>1. /\ EndpointOK(r, p, 0, c) /\ p.active /\ c.state \in {"halted", "stopped"}
            /\ c.cmd \in {"none", "ClearEndpointHalt"} /\ q = [p EXCEPT !.phase = "ClearEndpointHalt"]
        BY <1>2, <1>4, <2>3, <2>6
      <3> HIDE DEF p, q, r, c
      <3> QED BY <2>3, <2>4, <3>1, PhaseEndpoint
    <2> HIDE DEF q
    <2>7. /\ TypeInv' /\ Only(e) /\ RingOK(ring'[e])
          /\ pending'[e] = q /\ ctl'[e] = c /\ abandoned'[e] = abandoned[e]
      BY <1>2, <1>3, <2>2, <2>3, <2>4, <2>5, HandledTypes
    <2>8. CallInv'
      BY <2>5 DEF CallInv
    <2>9. ~abandoned'[e] =>
              /\ ~abandoned[e]
              /\ EndpointOK(ring[e], pending'[e], todo'[e], ctl'[e])
              /\ \A ev : Holds(e, ev) /\ OrderOK(pending[e], Head(events), ev)
                    => EventOK(ring[e], pending'[e], todo'[e], ctl'[e], ev)
              /\ \A a, b : /\ Holds(e, a) /\ OrderOK(pending[e], Head(events), a)
                           /\ OrderOK(pending[e], a, b)
                    => OrderOK(pending'[e], a, b)
      BY <1>2, <1>3, <1>4, <2>6, <2>7, OtherEvents
    <2>10. RingsInv' /\ EndpointsInv' /\ EventsInv' /\ OrderInv'
      BY <1>2, <1>3, <2>7, <2>9, TakeStep
    <2> QED BY <2>7, <2>8, <2>10 DEF BulkInv
  <1> QED BY <1>5, <1>6, <1>7 DEF OnEndpointResetCompleted

\* The completion of a control transfer keeps the invariant.
LEMMA OnControlEventInv ==
    ASSUME BulkInv, OnControlEvent
    PROVE  BulkInv'
  <1> DEFINE ev == Head(events)
  <1>1. Event("control")
    BY DEF OnControlEvent
  <1>2. events # <<>> /\ ev \in EventType /\ ev.kind = "control" /\ ev.ep \in Endpoints
    BY <1>1, HeadEvent
  <1>3. ev.req = "ClearHalt" /\ ev.ok \in BOOLEAN
    BY <1>2 DEF EventType, Commands
  <1>4. /\ events' = Tail(events)
        /\ UNCHANGED <<ring, pending, todo, ctl, control, ep0, moved, abandoned>>
    BY DEF OnControlEvent, hwVars
  <1>5. CASE pending[ev.ep].phase = "ClearEndpointHalt"
    <2>1. call' = CallOf("ClearHaltDone", ev.ep, ev.ok, ev.req, 0)
      BY <1>3, <1>5 DEF OnControlEvent, Call
    <2>2. call' \in CallType /\ call'.ep = ev.ep
      BY <1>2, <1>3, <2>1 DEF CallOf, CallType
    <2>3. CallInv'
      BY <1>4, <1>5, <2>2 DEF CallInv
    <2> QED BY <1>2, <1>4, <2>2, <2>3, DropInv
  <1>6. CASE pending[ev.ep].phase # "ClearEndpointHalt"
    <2>1. call' = CallOf("ControlDone", ev.ep, ev.ok, ev.req, 0)
      BY <1>3, <1>6 DEF OnControlEvent, Call
    <2>2. call' \in CallType /\ call'.fn = "ControlDone"
      BY <1>2, <1>3, <2>1 DEF CallOf, CallType
    <2>3. CallInv'
      BY <2>2 DEF CallInv
    <2> QED BY <1>2, <1>4, <2>2, <2>3, DropInv
  <1> QED BY <1>5, <1>6

\* OnTTBufferClearCompleted keeps the invariant.
LEMMA OnTTBufferClearCompletedInv ==
    ASSUME BulkInv, OnTTBufferClearCompleted
    PROVE  BulkInv'
  <1> DEFINE e == Head(events).ep
  <1>1. Event("ClearTTBuffer") /\ "ClearTTBuffer" \in Commands /\ "SetDequeuePointer" \in Commands
    BY DEF OnTTBufferClearCompleted, Commands
  <1>2. /\ events # <<>> /\ e \in Endpoints /\ call = NoCall /\ todo[e] = 0
    BY <1>1, HeadEvent
  <1>3. /\ events' = Tail(events) /\ ring' = ring /\ todo' = todo /\ control' = control /\ ep0' = ep0
        /\ moved' = moved
    BY DEF OnTTBufferClearCompleted
  <1>4. ~abandoned[e] =>
              /\ pending[e].active
              /\ ctl[e].state \in {"halted", "stopped"}
              /\ \A x : Holds(e, x) /\ OrderOK(pending[e], Head(events), x) =>
                    x.kind # "transfer" /\ x.kind \notin Commands
    BY <1>1, CompletionFacts
  <1>5. CASE UNCHANGED <<pending, ctl, abandoned, call>>
    <2>1. CallInv'
      BY <1>2, <1>5 DEF CallInv, NoCall
    <2> QED BY <1>2, <1>3, <1>5, <2>1, DropInv
  <1>6. CASE Abandon(e) /\ Call("Recovered", e, FALSE, NoItem, 0)
    <2>1. call' \in CallType /\ call'.fn = "Recovered"
      BY <1>2, <1>6 DEF Call, CallOf, CallType
    <2> QED BY <1>2, <1>3, <1>6, <2>1, AbandonInv
  <1>7. CASE SendCommand(e, "SetDequeuePointer") /\ UNCHANGED <<abandoned, call>>
    BY <1>1, <1>2, <1>3, <1>4, <1>7, SendInv
  <1> QED BY <1>5, <1>6, <1>7 DEF OnTTBufferClearCompleted

\* OnTransferRingDequeueSet keeps the invariant.
LEMMA OnTransferRingDequeueSetInv ==
    ASSUME BulkInv, OnTransferRingDequeueSet
    PROVE  BulkInv'
  <1> DEFINE e == Head(events).ep
             ok == Head(events).ok
  <1>1. Event("SetDequeuePointer") /\ "SetDequeuePointer" \in Commands
    BY DEF OnTransferRingDequeueSet, Commands
  <1>2. /\ events # <<>> /\ e \in Endpoints /\ call = NoCall /\ todo[e] = 0 /\ ok \in BOOLEAN
    <2>1. Head(events) \in EventType /\ Head(events).kind = "SetDequeuePointer"
      BY <1>1, HeadEvent
    <2>2. ok \in BOOLEAN
      BY <2>1 DEF EventType
    <2> QED BY <1>1, <2>2, HeadEvent
  <1>3. /\ events' = Tail(events) /\ ring' = ring /\ todo' = todo /\ control' = control /\ ep0' = ep0
        /\ moved' = moved
    BY DEF OnTransferRingDequeueSet
  <1>4. ~abandoned[e] =>
              /\ ctl[e].cmd = "none"
              /\ \A x : Holds(e, x) /\ OrderOK(pending[e], Head(events), x) =>
                    x.kind # "transfer" /\ x.kind \notin Commands
              /\ ok => Occupancy(ring[e], ctl[e]) = 0
    BY <1>1, CompletionFacts
  <1>5. CASE UNCHANGED <<pending, ctl, abandoned, call>>
    <2>1. CallInv'
      BY <1>2, <1>5 DEF CallInv, NoCall
    <2> QED BY <1>2, <1>3, <1>5, <2>1, DropInv
  <1>6. ASSUME Call("Recovered", e, ok, NoItem, 0)
        PROVE  call' \in CallType /\ call'.fn = "Recovered" /\ call'.fn # "ClearHaltDone"
    BY <1>2, <1>6 DEF Call, CallOf, CallType
  <1>7. CASE ~ok /\ Abandon(e) /\ Call("Recovered", e, ok, NoItem, 0)
    BY <1>2, <1>3, <1>6, <1>7, AbandonInv
  <1>8. CASE /\ ok /\ pending' = [pending EXCEPT ![e] = NoPending]
             /\ UNCHANGED <<ctl, abandoned>> /\ Call("Recovered", e, ok, NoItem, 0)
    BY <1>2, <1>3, <1>4, <1>6, <1>8, FreeInv
  <1> QED BY <1>5, <1>7, <1>8 DEF OnTransferRingDequeueSet

\* Running a callback keeps the invariant.
LEMMA ReturnInv ==
    ASSUME BulkInv, Return
    PROVE  BulkInv'
  <1> DEFINE e == call.ep
  <1>1. /\ call \in CallType /\ e \in Endpoints /\ todo[e] = 0
        /\ ring' = ring /\ todo' = todo /\ control' = control /\ ep0' = ep0 /\ moved' = moved
        /\ events' = events
    <2>1. call # NoCall /\ \A f \in Endpoints : todo[f] = 0
      BY DEF Return
    <2>2. call \in CallType
      BY <2>1 DEF BulkInv, TypeInv
    <2>3. e \in Endpoints
      BY <2>2 DEF CallType
    <2> QED BY <2>1, <2>2, <2>3 DEF Return
  <1>2. CASE call' = NoCall /\ UNCHANGED <<pending, ctl, abandoned>>
    <2>1. CallInv'
      BY <1>2 DEF CallInv, NoCall
    <2> QED
      BY <1>1, <1>2, <2>1
      DEF BulkInv, TypeInv, BulkTypeOK, RingsInv, EndpointsInv, EventsInv, OrderInv
  <1>3. CASE Abandon(e) /\ call' = NoCall
    BY <1>1, <1>3, AbandonInv
  <1>4. CASE Abandon(e) /\ Call("Recovered", e, FALSE, NoItem, 0)
    <2>1. call' \in CallType /\ call'.fn = "Recovered"
      BY <1>1, <1>4 DEF Call, CallOf, CallType
    <2> QED BY <1>1, <1>4, <2>1, AbandonInv
  <1>5. ASSUME GoesOn, NEW cmd \in Commands, SendCommand(e, cmd), call' = NoCall,
               UNCHANGED abandoned
        PROVE  BulkInv'
    <2>1. ~abandoned[e] => pending[e].phase = "ClearEndpointHalt"
      BY <1>5 DEF BulkInv, CallInv, GoesOn
    <2>2. ~abandoned[e] => pending[e].active /\ ctl[e].state \in {"halted", "stopped"}
      BY <1>1, <2>1, Parts DEF EndpointOK
    <2>3. ~abandoned[e] => \A ev : Holds(e, ev) => ev.kind # "transfer" /\ ev.kind \notin Commands
      BY <2>1 DEF Holds, EventOK, Commands
    <2> QED BY <1>1, <1>5, <2>2, <2>3, SendInv
  <1>6. "ClearTTBuffer" \in Commands /\ "SetDequeuePointer" \in Commands
    BY DEF Commands
  <1> QED BY <1>2, <1>3, <1>4, <1>5, <1>6 DEF Return

-----------------------------------------------------------------------------
(* Theorems                                                                *)

\* The invariant holds in every reachable state.
THEOREM BulkInvariant == BulkSpec => []BulkInv
  <1>1. BulkInv /\ [BulkNext]_bulkVars => BulkInv'
    <2> SUFFICES ASSUME BulkInv, [BulkNext]_bulkVars PROVE BulkInv'
      OBVIOUS
    <2>1. CASE \E e \in Endpoints : PushTrb(e)
      BY <2>1, PushTrbInv
    <2>2. CASE \E e \in Endpoints : ExecuteTrb(e) \/ FollowLink(e) \/ RunDry(e) \/ ExecuteCommand(e)
      BY <2>2, ExecuteTrbInv, MoveInv, ExecuteCommandInv
    <2>3. CASE ExecuteControl
      BY <2>3, ExecuteControlInv
    <2>4. CASE HandlerStep
      BY <2>4, OnTransferEventInv, OnEndpointResetCompletedInv, OnControlEventInv,
         OnTTBufferClearCompletedInv, OnTransferRingDequeueSetInv, ReturnInv
      DEF HandlerStep
    <2>5. CASE \E e \in Endpoints, item \in Items, n \in 1 .. MaxTrbs : Submit(e, item, n)
      BY <2>5, SubmitInv
    <2>6. CASE (\E e \in Endpoints : SendClearHalt(e)) \/ (\E err \in BOOLEAN : Answer(err))
      BY <2>6, AnswerInv
    <2>7. CASE UNCHANGED bulkVars
      BY <2>7
      DEF bulkVars, hwVars, BulkInv, TypeInv, BulkTypeOK, RingsInv, EndpointsInv, EventsInv,
          OrderInv, CallInv
    <2> QED
      BY <2>1, <2>2, <2>3, <2>4, <2>5, <2>6, <2>7 DEF BulkNext, TransportStep, ControllerStep
  <1> QED BY <1>1, InitInv, PTL DEF BulkSpec

\* Every variable keeps its type, ring indexes and dequeue pointer included.
THEOREM BulkTypeCorrect == BulkSpec => []BulkTypeOK
  <1>1. BulkInv => BulkTypeOK
    BY DEF BulkInv, TypeInv
  <1> QED BY <1>1, BulkInvariant, PTL

\* The controller reads and writes only the buffer of the pending transfer, for
\* rings, transfers and endpoints of any number and size.
THEOREM OnlyPendingIsExecuted == BulkSpec => []OnlyPendingExecuted
  <1>1. BulkInv => OnlyPendingExecuted
    <2> SUFFICES ASSUME BulkInv, NEW e \in Endpoints, ~abandoned[e],
                        NEW k \in DOMAIN Contents(ring[e], ctl[e])
                 PROVE  /\ pending[e].active
                        /\ Contents(ring[e], ctl[e])[k].item = pending[e].item
      BY DEF OnlyPendingExecuted
    <2> DEFINE r == ring[e]
               c == ctl[e]
               o == Occupancy(r, c)
    <2>1. /\ RingOK(r) /\ pending[e] \in PendingType /\ todo[e] \in 0 .. UsableSize
          /\ EndpointOK(r, pending[e], todo[e], c)
      BY Parts
    <2>2. k \in 1 .. o /\ o \in 0 .. UsableSize
      BY <2>1, OccupancyBounds DEF Contents, EndpointOK
    <2>3. o > 0
      BY <2>2, RingAssumption DEF UsableSize
    <2>4. pending[e].active
      BY <2>1, <2>3, HeadIndex
    <2>5. r.buf[SlotAfter(HeadSlot(c), k - 1)].item = pending[e].item
      BY <2>1, <2>2 DEF EndpointOK
    <2>6. Contents(r, c)[k].item = r.buf[SlotAfter(HeadSlot(c), k - 1)].item
      BY <2>2 DEF Contents
    <2> QED BY <2>4, <2>5, <2>6
  <1> QED BY <1>1, BulkInvariant, PTL

-----------------------------------------------------------------------------
(* What the ring holds, as a sequence                                      *)

\* A queued TRB as the bounded queue sees it.
BlockType == [item : Items \cup {NoItem}, last : BOOLEAN]

\* The contents of a ring are a sequence as long as the ring is full.
LEMMA ContentsSeq ==
    ASSUME NEW r, RingOK(r), NEW c, PositionOK(r, c)
    PROVE  /\ Contents(r, c) \in Seq(BlockType)
           /\ Len(Contents(r, c)) = Occupancy(r, c)
           /\ \A k \in 1 .. Occupancy(r, c) :
                 Contents(r, c)[k] = [item |-> r.buf[SlotAfter(HeadSlot(c), k - 1)].item,
                                      last |-> r.buf[SlotAfter(HeadSlot(c), k - 1)].last]
  <1> DEFINE o == Occupancy(r, c)
             h == HeadSlot(c)
             s == Contents(r, c)
  <1>1. o \in 0 .. UsableSize /\ h \in Slots /\ o \in Nat
    BY OccupancyBounds, RingAssumption DEF UsableSize
  <1>2. s = [k \in 1 .. o |-> [item |-> r.buf[SlotAfter(h, k - 1)].item,
                               last |-> r.buf[SlotAfter(h, k - 1)].last]]
    BY DEF Contents
  <1> HIDE DEF o, h, s
  <1>3. \A k \in 1 .. o : SlotAfter(h, k - 1) \in Slots
    BY <1>1, RingAssumption DEF SlotAfter, Slots, UsableSize
  <1>4. \A k \in 1 .. o : s[k] = [item |-> r.buf[SlotAfter(h, k - 1)].item,
                                  last |-> r.buf[SlotAfter(h, k - 1)].last]
    BY <1>2
  <1>5. r.buf \in [Slots -> [cycle : BOOLEAN, item : Items \cup {NoItem}, last : BOOLEAN]]
    BY DEF RingOK, RingType
  <1>6. \A k \in 1 .. o : s[k] \in BlockType
    <2>1. \A i \in Slots : r.buf[i].item \in Items \cup {NoItem} /\ r.buf[i].last \in BOOLEAN
      BY <1>5
    <2>2. \A x \in Items \cup {NoItem}, y \in BOOLEAN : [item |-> x, last |-> y] \in BlockType
      BY DEF BlockType
    <2> QED BY <1>3, <1>4, <2>1, <2>2, Zenon
  <1>7. s \in [1 .. o -> BlockType]
    BY <1>2, <1>6
  <1>8. s \in Seq(BlockType) /\ Len(s) = o
    BY <1>1, <1>7
  <1> QED BY <1>4, <1>8 DEF o, h, s

\* A push into a ring with room appends a block.
LEMMA ContentsPush ==
    ASSUME NEW r, RingOK(r), NEW c, PositionOK(r, c), Occupancy(r, c) < UsableSize,
           NEW item \in Items \cup {NoItem}, NEW last \in BOOLEAN, NEW q, q = Push(r, item, last)
    PROVE  Contents(q, c) = Append(Contents(r, c), [item |-> item, last |-> last])
  <1> DEFINE o == Occupancy(r, c)
             h == HeadSlot(c)
             s == Contents(r, c)
             t == Contents(q, c)
             b == [item |-> item, last |-> last]
  <1>1. /\ PositionOK(q, c) /\ Occupancy(q, c) = o + 1
        /\ \A k \in 1 .. o : q.buf[SlotAfter(h, k - 1)] = r.buf[SlotAfter(h, k - 1)]
        /\ q.buf[SlotAfter(h, o)] = [cycle |-> r.cycle_bit, item |-> item, last |-> last]
    BY PushPosition
  <1>2. RingOK(q)
    BY PushRing
  <1>3. /\ s \in Seq(BlockType) /\ Len(s) = o
        /\ \A k \in 1 .. o : s[k] = [item |-> r.buf[SlotAfter(h, k - 1)].item,
                                     last |-> r.buf[SlotAfter(h, k - 1)].last]
    BY ContentsSeq
  <1>4. /\ t \in Seq(BlockType) /\ Len(t) = o + 1
        /\ \A k \in 1 .. o + 1 : t[k] = [item |-> q.buf[SlotAfter(h, k - 1)].item,
                                         last |-> q.buf[SlotAfter(h, k - 1)].last]
    BY <1>1, <1>2, ContentsSeq
  <1>5. o \in Nat
    BY OccupancyBounds, RingAssumption DEF UsableSize
  <1>6. b \in BlockType
    BY DEF BlockType
  <1> HIDE DEF o, h, s, t
  <1>7. /\ Append(s, b) \in Seq(BlockType) /\ Len(Append(s, b)) = o + 1
        /\ \A k \in 1 .. o : Append(s, b)[k] = s[k]
        /\ Append(s, b)[o + 1] = b
    <2> HIDE DEF b
    <2>1. /\ Append(s, b) \in Seq(BlockType) /\ Len(Append(s, b)) = Len(s) + 1
          /\ \A k \in 1 .. Len(s) : Append(s, b)[k] = s[k]
          /\ Append(s, b)[Len(s) + 1] = b
      BY <1>3, <1>6, AppendProperties
    <2> QED BY <1>3, <2>1
  <1>8. \A k \in 1 .. o : t[k] = s[k]
    <2> SUFFICES ASSUME NEW k \in 1 .. o PROVE t[k] = s[k]
      OBVIOUS
    <2>1. k \in 1 .. o + 1
      BY <1>5
    <2>2. q.buf[SlotAfter(h, k - 1)] = r.buf[SlotAfter(h, k - 1)]
      BY <1>1
    <2> QED BY <1>3, <1>4, <2>1, <2>2, Zenon
  <1>9. t[o + 1] = b
    <2>1. t[o + 1] = [item |-> q.buf[SlotAfter(h, o + 1 - 1)].item,
                      last |-> q.buf[SlotAfter(h, o + 1 - 1)].last]
      BY <1>4, <1>5
    <2>2. o + 1 - 1 = o
      BY <1>5
    <2> QED BY <1>1, <2>1, <2>2
  <1>10. \A k \in 1 .. o + 1 : t[k] = Append(s, b)[k]
    BY <1>5, <1>7, <1>8, <1>9
  <1>11. t = Append(s, b)
    BY <1>4, <1>7, <1>10, SeqEqual
  <1> QED BY <1>11 DEF s, t

\* Taking a TRB the controller owns removes the oldest block.
LEMMA ContentsTake ==
    ASSUME NEW r, RingOK(r), NEW c, PositionOK(r, c), c.deq # LinkSlot, Owned(r, c),
           NEW d, d.deq = c.deq + 1, d.ccs = c.ccs
    PROVE  Contents(r, c) # <<>> /\ Contents(r, d) = Tail(Contents(r, c))
  <1> DEFINE o == Occupancy(r, c)
             h == HeadSlot(c)
             s == Contents(r, c)
             t == Contents(r, d)
  <1>1. /\ o > 0 /\ PositionOK(r, d) /\ Occupancy(r, d) = o - 1
        /\ HeadSlot(d) = SlotAfter(h, 1)
    BY TakePosition
  <1>2. o \in 0 .. UsableSize /\ h \in Slots
    BY OccupancyBounds
  <1>3. /\ s \in Seq(BlockType) /\ Len(s) = o
        /\ \A k \in 1 .. o : s[k] = [item |-> r.buf[SlotAfter(h, k - 1)].item,
                                     last |-> r.buf[SlotAfter(h, k - 1)].last]
    BY ContentsSeq
  <1>4. /\ t \in Seq(BlockType) /\ Len(t) = o - 1
        /\ \A k \in 1 .. o - 1 : t[k] = [item |-> r.buf[SlotAfter(SlotAfter(h, 1), k - 1)].item,
                                         last |-> r.buf[SlotAfter(SlotAfter(h, 1), k - 1)].last]
    BY <1>1, ContentsSeq
  <1> HIDE DEF o, h, s, t
  <1>5. s # <<>>
    BY <1>1, <1>2, <1>3
  <1>6. /\ Tail(s) \in Seq(BlockType) /\ Len(Tail(s)) = o - 1
        /\ \A k \in 1 .. o - 1 : Tail(s)[k] = s[k + 1]
    BY <1>3, <1>5, HeadTailProperties
  <1>7. \A k \in 1 .. o - 1 : /\ SlotAfter(SlotAfter(h, 1), k - 1) = SlotAfter(h, (k + 1) - 1)
                              /\ k + 1 \in 1 .. o
    BY <1>1, <1>2, RingAssumption DEF SlotAfter, Slots, UsableSize
  <1>8. \A k \in 1 .. o - 1 : t[k] = Tail(s)[k]
    BY <1>3, <1>4, <1>6, <1>7
  <1>9. t = Tail(s)
    BY <1>4, <1>6, <1>8, SeqEqual
  <1> QED BY <1>5, <1>9 DEF s, t

\* An empty ring holds nothing.
LEMMA ContentsEmpty ==
    ASSUME NEW r, RingOK(r), NEW c, PositionOK(r, c), Occupancy(r, c) = 0
    PROVE  Contents(r, c) = <<>>
  <1>1. Contents(r, c) \in Seq(BlockType) /\ Len(Contents(r, c)) = 0
    BY ContentsSeq
  <1> QED BY <1>1

-----------------------------------------------------------------------------
(* Every step is a step of the queue                                       *)

\* A step of the bounded queue, or none.
QueueStep == [Queue!Next]_<<Queued, abandoned>>

\* The queue of one endpoint, before and after a step.
LEMMA QueuedAt ==
    ASSUME NEW e \in Endpoints
    PROVE  /\ Queued[e] = IF abandoned[e] THEN <<>> ELSE Contents(ring[e], ctl[e])
           /\ Queued'[e] = IF abandoned'[e] THEN <<>> ELSE Contents(ring'[e], ctl'[e])
  BY DEF Queued

\* A step of one endpoint changes its queue only.
LEMMA QueuedOnly ==
    ASSUME NEW e \in Endpoints, Only(e)
    PROVE  Queued' = [Queued EXCEPT ![e] = Queued'[e]]
  <1>1. Queued = [f \in Endpoints |-> IF abandoned[f] THEN <<>> ELSE Contents(ring[f], ctl[f])]
    BY DEF Queued
  <1>2. Queued' = [f \in Endpoints |-> IF abandoned'[f] THEN <<>> ELSE Contents(ring'[f], ctl'[f])]
    BY DEF Queued
  <1>3. \A f \in Endpoints : f # e => Queued'[f] = Queued[f]
    BY QueuedAt DEF Only
  <1> QED BY <1>1, <1>2, <1>3

\* A step that moves neither ring nor controller.
LEMMA StillQueue ==
    ASSUME abandoned' = abandoned,
           \A f \in Endpoints : ~abandoned[f] =>
              Contents(ring'[f], ctl'[f]) = Contents(ring[f], ctl[f])
    PROVE  QueueStep
  <1>1. Queued' = Queued
    BY DEF Queued
  <1> QED BY <1>1 DEF QueueStep

\* A failed recovery breaks the queue, unless it is broken.
LEMMA AbandonQueue ==
    ASSUME BulkInv, NEW e \in Endpoints, Abandon(e), ring' = ring
    PROVE  QueueStep
  <1>1. abandoned \in [Endpoints -> BOOLEAN]
    BY DEF BulkInv, TypeInv, BulkTypeOK
  <1>2. abandoned' = [abandoned EXCEPT ![e] = TRUE] /\ ctl' = ctl
    BY DEF Abandon
  <1>3. CASE abandoned[e]
    <2>1. abandoned' = abandoned
      BY <1>1, <1>2, <1>3
    <2> QED BY <1>2, <2>1, StillQueue
  <1>4. CASE ~abandoned[e]
    <2>1. \A f \in Endpoints : f # e => Queued'[f] = Queued[f]
      BY <1>1, <1>2, QueuedAt
    <2>2. Queued'[e] = <<>>
      BY <1>1, <1>2, QueuedAt
    <2>3. Queued' = [Queued EXCEPT ![e] = <<>>]
      BY <2>1, <2>2 DEF Queued
    <2>4. Queue!Break(e)
      BY <1>2, <2>3 DEF Queue!Break
    <2> QED BY <1>4, <2>4 DEF QueueStep, Queue!Next
  <1> QED BY <1>3, <1>4

\* Push enqueues: there is room, and the blocks queued are of the same transfer.
LEMMA PushQueue ==
    ASSUME BulkInv, NEW e \in Endpoints, PushTrb(e)
    PROVE  QueueStep
  <1> DEFINE r == ring[e]
             p == pending[e]
             n == todo[e]
             c == ctl[e]
             l == (todo[e] = 1)
             s == Push(r, p.item, l)
             b == [item |-> p.item, last |-> l]
             o == Occupancy(r, c)
  <1>1. /\ RingOK(r) /\ p \in PendingType /\ n \in 0 .. UsableSize /\ c \in ContextType
        /\ ~abandoned[e] => EndpointOK(r, p, n, c)
    BY Parts
  <1>2. /\ n > 0 /\ ring' = [ring EXCEPT ![e] = s] /\ abandoned' = abandoned
        /\ ctl' = IF l THEN [ctl EXCEPT ![e] = Doorbell(@)] ELSE ctl
        /\ ring \in [Endpoints -> RingType] /\ ctl \in [Endpoints -> ContextType]
    BY DEF PushTrb, BulkInv, TypeInv, BulkTypeOK
  <1>3. /\ ring'[e] = s /\ ctl'[e].deq = c.deq /\ ctl'[e].ccs = c.ccs
        /\ \A f \in Endpoints : f # e => ring'[f] = ring[f] /\ ctl'[f] = ctl[f]
    <2>1. ring'[e] = s /\ \A f \in Endpoints : f # e => ring'[f] = ring[f] /\ ctl'[f] = ctl[f]
      BY <1>2
    <2>2. ctl'[e] = IF l THEN Doorbell(c) ELSE c
      BY <1>2
    <2>3. Doorbell(c).deq = c.deq /\ Doorbell(c).ccs = c.ccs
      <3> HIDE DEF c
      <3> QED BY <1>1 DEF Doorbell, ContextType
    <2> QED BY <2>1, <2>2, <2>3
  <1>4. ctl'[e].deq \in 0 .. LinkSlot /\ ctl'[e].ccs \in BOOLEAN
    BY <1>1, <1>3 DEF ContextType
  <1>5. Contents(ring'[e], ctl'[e]) = Contents(s, c)
    <2>1. HeadSlot(ctl'[e]) = HeadSlot(c) /\ HeadCycle(ctl'[e]) = HeadCycle(c)
      BY <1>3 DEF HeadSlot, HeadCycle
    <2>2. Contents(s, ctl'[e]) = Contents(s, c)
      BY <1>4, <2>1, SamePosition
    <2> QED BY <1>3, <2>2
  <1>6. CASE abandoned[e]
    BY <1>2, <1>3, <1>6, StillQueue
  <1>7. CASE ~abandoned[e]
    <2>1. EndpointOK(r, p, n, c) /\ PositionOK(r, c) /\ o + n <= p.count
      BY <1>1, <1>7 DEF EndpointOK
    <2>2. o \in 0 .. UsableSize /\ p.count \in 0 .. UsableSize /\ UsableSize \in Nat
      BY <1>1, <2>1, OccupancyBounds, RingAssumption DEF PendingType, UsableSize
    <2>3. o < UsableSize /\ p.count # 0
      <3> HIDE DEF o, n
      <3> QED BY <1>1, <1>2, <2>1, <2>2
    <2>4. p.item \in Items /\ l \in BOOLEAN
      BY <1>1, <2>1, <2>3 DEF EndpointOK, PendingType
    <2>5. Contents(s, c) = Append(Contents(r, c), b)
      <3> HIDE DEF r, c, p, l
      <3> QED BY <1>1, <2>1, <2>3, <2>4, ContentsPush DEF o
    <2>6. /\ Contents(r, c) \in Seq(BlockType) /\ Len(Contents(r, c)) = o
          /\ \A k \in 1 .. o :
                 Contents(r, c)[k] = [item |-> r.buf[SlotAfter(HeadSlot(c), k - 1)].item,
                                      last |-> r.buf[SlotAfter(HeadSlot(c), k - 1)].last]
      BY <1>1, <2>1, ContentsSeq
    <2>7. \A k \in 1 .. o : /\ r.buf[SlotAfter(HeadSlot(c), k - 1)].item = p.item
                            /\ ~r.buf[SlotAfter(HeadSlot(c), k - 1)].last
      BY <1>2, <2>1 DEF EndpointOK
    <2>8. Queued[e] = Contents(r, c) /\ Queued'[e] = Append(Queued[e], b)
      BY <1>2, <1>5, <1>7, <2>5, QueuedAt
    <2>9. Queued' = [Queued EXCEPT ![e] = Append(@, b)]
      <3>1. \A f \in Endpoints : f # e => Queued'[f] = Queued[f]
        BY <1>2, <1>3, QueuedAt
      <3> QED BY <2>8, <3>1 DEF Queued
    <2>10. Queued[e] # <<>> => /\ ~Queued[e][Len(Queued[e])].last
                               /\ Queued[e][Len(Queued[e])].item = b.item
      <3> SUFFICES ASSUME Queued[e] # <<>>
                   PROVE  /\ ~Contents(r, c)[o].last /\ Contents(r, c)[o].item = p.item
        BY <2>6, <2>8
      <3>1. o \in 1 .. o
        <4> HIDE DEF o, r, c
        <4> QED BY <2>2, <2>6, <2>8
      <3> DEFINE t == r.buf[SlotAfter(HeadSlot(c), o - 1)]
      <3>2. Contents(r, c)[o] = [item |-> t.item, last |-> t.last]
        BY <2>6, <3>1
      <3>3. t.item = p.item /\ ~t.last
        BY <2>7, <3>1
      <3> HIDE DEF t, o, r, c, p
      <3> QED BY <3>2, <3>3
    <2>11. b \in Queue!Block /\ b.item = p.item
      BY <2>4 DEF Queue!Block
    <2>12. Len(Queued[e]) < UsableSize
      BY <2>3, <2>6, <2>8
    <2> HIDE DEF b
    <2>13. Queue!Enqueue(e, b)
      BY <1>2, <2>9, <2>10, <2>12 DEF Queue!Enqueue
    <2> QED BY <1>7, <2>11, <2>13 DEF QueueStep, Queue!Next
  <1> QED BY <1>6, <1>7

\* A TRB executed is the oldest block; one that fails stays.
LEMMA TakeQueue ==
    ASSUME BulkInv, NEW e \in Endpoints, ctl[e].deq # LinkSlot, Owned(ring[e], ctl[e]),
           ring' = ring, abandoned' = abandoned, NEW skip,
           ctl' = [ctl EXCEPT ![e].deq = @ + 1, ![e].skip = skip]
    PROVE  QueueStep
  <1> DEFINE r == ring[e]
             c == ctl[e]
             d == ctl'[e]
  <1>1. /\ RingOK(r) /\ c \in ContextType /\ ctl \in [Endpoints -> ContextType]
        /\ ~abandoned[e] => EndpointOK(r, pending[e], todo[e], c)
    BY Parts DEF BulkInv, TypeInv, BulkTypeOK
  <1>2. d = [c EXCEPT !.deq = c.deq + 1, !.skip = skip]
        /\ \A f \in Endpoints : f # e => ctl'[f] = ctl[f]
    BY <1>1
  <1>3. d.deq = c.deq + 1 /\ d.ccs = c.ccs
    <2> HIDE DEF c, d
    <2> QED BY <1>1, <1>2 DEF ContextType
  <1>4. CASE abandoned[e]
    BY <1>2, <1>4, StillQueue
  <1>5. CASE ~abandoned[e]
    <2>1. PositionOK(r, c)
      BY <1>1, <1>5 DEF EndpointOK
    <2>2. Contents(r, c) # <<>> /\ Contents(r, d) = Tail(Contents(r, c))
      BY <1>1, <1>3, <2>1, ContentsTake
    <2>3. Queued[e] = Contents(r, c) /\ Queued'[e] = Tail(Queued[e]) /\ Queued[e] # <<>>
      BY <1>5, <2>2, QueuedAt
    <2>4. Queued' = [Queued EXCEPT ![e] = Tail(@)]
      <3>1. \A f \in Endpoints : f # e => Queued'[f] = Queued[f]
        <4> SUFFICES ASSUME NEW f \in Endpoints, f # e PROVE Queued'[f] = Queued[f]
          OBVIOUS
        <4>1. ctl'[f] = ctl[f]
          BY <1>2
        <4> QED BY <4>1, QueuedAt
      <3> QED BY <2>3, <3>1 DEF Queued
    <2>5. Queue!Execute(e)
      BY <2>3, <2>4 DEF Queue!Execute
    <2> QED BY <1>5, <2>5 DEF QueueStep, Queue!Next
  <1> QED BY <1>4, <1>5

\* A step that changes no more of the contexts than the position stays with.
LEMMA SameQueue ==
    ASSUME BulkInv, ring' = ring, abandoned' = abandoned,
           \A f \in Endpoints : /\ ctl'[f].deq \in 0 .. LinkSlot /\ ctl'[f].ccs \in BOOLEAN
                                /\ HeadSlot(ctl'[f]) = HeadSlot(ctl[f])
                                /\ HeadCycle(ctl'[f]) = HeadCycle(ctl[f])
    PROVE  QueueStep
  <1>1. \A f \in Endpoints : Contents(ring[f], ctl'[f]) = Contents(ring[f], ctl[f])
    BY SamePosition
  <1> QED BY <1>1, StillQueue

\* A TRB the controller finishes leaves the queue; one that halts the endpoint stays.
LEMMA ExecuteTrbQueue ==
    ASSUME BulkInv, NEW e \in Endpoints, ExecuteTrb(e)
    PROVE  QueueStep
  <1>1. /\ ctl[e].deq # LinkSlot /\ Owned(ring[e], ctl[e]) /\ ring' = ring
        /\ abandoned' = abandoned
    BY DEF ExecuteTrb
  <1>2. ctl \in [Endpoints -> ContextType]
    BY DEF BulkInv, TypeInv, BulkTypeOK
  <1>3. CASE \E skip : ctl' = [ctl EXCEPT ![e].deq = @ + 1, ![e].skip = skip]
    BY <1>1, <1>3, TakeQueue
  <1>4. CASE ctl' = [ctl EXCEPT ![e].state = "halted"]
    <2>1. \A f \in Endpoints : ctl'[f].deq = ctl[f].deq /\ ctl'[f].ccs = ctl[f].ccs
      BY <1>2, <1>4 DEF ContextType
    <2>2. \A f \in Endpoints : ctl[f].deq \in 0 .. LinkSlot /\ ctl[f].ccs \in BOOLEAN
      BY <1>2 DEF ContextType
    <2> QED BY <1>1, <2>1, <2>2, SameQueue DEF HeadSlot, HeadCycle
  <1> QED BY <1>3, <1>4 DEF ExecuteTrb

\* Following the Link TRB does not change the queue.
LEMMA MoveQueue ==
    ASSUME BulkInv, NEW e \in Endpoints, FollowLink(e) \/ RunDry(e)
    PROVE  QueueStep
  <1>1. ctl \in [Endpoints -> ContextType] /\ ring' = ring /\ abandoned' = abandoned
    BY DEF BulkInv, TypeInv, BulkTypeOK, FollowLink, RunDry
  <1>2. \A f \in Endpoints : ctl[f] \in ContextType
    BY <1>1
  <1>3. CASE FollowLink(e)
    <2>1. ctl' = [ctl EXCEPT ![e] = Linked(ctl[e])] /\ ctl[e].deq = LinkSlot
      BY <1>3 DEF FollowLink
    <2>2. /\ Linked(ctl[e]) \in ContextType /\ HeadSlot(Linked(ctl[e])) = HeadSlot(ctl[e])
          /\ HeadCycle(Linked(ctl[e])) = HeadCycle(ctl[e])
      BY <1>2, <2>1, LinkedPosition
    <2>3. \A f \in Endpoints : /\ ctl'[f] \in ContextType
                               /\ HeadSlot(ctl'[f]) = HeadSlot(ctl[f])
                               /\ HeadCycle(ctl'[f]) = HeadCycle(ctl[f])
      BY <1>1, <1>2, <2>1, <2>2
    <2>4. \A f \in Endpoints : ctl'[f].deq \in 0 .. LinkSlot /\ ctl'[f].ccs \in BOOLEAN
      BY <2>3 DEF ContextType
    <2> QED BY <1>1, <2>3, <2>4, SameQueue
  <1>4. CASE RunDry(e)
    <2>1. \A f \in Endpoints : ctl'[f].deq = ctl[f].deq /\ ctl'[f].ccs = ctl[f].ccs
      BY <1>1, <1>4 DEF ContextType, RunDry
    <2>2. \A f \in Endpoints : ctl[f].deq \in 0 .. LinkSlot /\ ctl[f].ccs \in BOOLEAN
      BY <1>2 DEF ContextType
    <2> QED BY <1>1, <2>1, <2>2, SameQueue DEF HeadSlot, HeadCycle
  <1> QED BY <1>3, <1>4

\* Set TR Dequeue Pointer drops the rest of the failed transfer.
LEMMA ExecuteCommandQueue ==
    ASSUME BulkInv, NEW e \in Endpoints, ExecuteCommand(e)
    PROVE  QueueStep
  <1> DEFINE r == ring[e]
             p == pending[e]
             c == ctl[e]
  <1>1. /\ RingOK(r) /\ c \in ContextType /\ ctl \in [Endpoints -> ContextType]
        /\ ~abandoned[e] => EndpointOK(r, p, todo[e], c)
    BY Parts DEF BulkInv, TypeInv, BulkTypeOK
  <1>2. /\ c.cmd # "none" /\ ring' = ring /\ abandoned' = abandoned
    BY DEF ExecuteCommand
  <1>3. PICK ok \in BOOLEAN : ctl' = [ctl EXCEPT ![e] =
                CASE ok /\ @.cmd = "ResetEndpoint" ->
                        [@ EXCEPT !.cmd = "none", !.state = "stopped"]
                  [] ok /\ @.cmd = "SetDequeuePointer" ->
                        [@ EXCEPT !.cmd = "none", !.skip = FALSE,
                                  !.deq = pending[e].next, !.ccs = pending[e].next_cycle]
                  [] OTHER -> [@ EXCEPT !.cmd = "none"]]
    BY DEF ExecuteCommand
  <1>4. \A f \in Endpoints : f # e => ctl'[f] = ctl[f]
    BY <1>1, <1>3
  <1>5. \A f \in Endpoints : ctl[f].deq \in 0 .. LinkSlot /\ ctl[f].ccs \in BOOLEAN
    BY <1>1 DEF ContextType
  <1>6. CASE ~(ok /\ c.cmd = "SetDequeuePointer")
    <2>1. ctl'[e].deq = c.deq /\ ctl'[e].ccs = c.ccs
      <3>1. ctl'[e] = [c EXCEPT !.cmd = "none", !.state = "stopped"]
            \/ ctl'[e] = [c EXCEPT !.cmd = "none"]
        BY <1>1, <1>3, <1>6
      <3> HIDE DEF c
      <3> QED BY <1>1, <3>1 DEF ContextType
    <2>2. \A f \in Endpoints : ctl'[f].deq = ctl[f].deq /\ ctl'[f].ccs = ctl[f].ccs
      BY <1>4, <2>1
    <2> QED BY <1>2, <1>5, <2>2, SameQueue DEF HeadSlot, HeadCycle
  <1>7. CASE ok /\ c.cmd = "SetDequeuePointer"
    <2>1. ctl'[e].deq = p.next /\ ctl'[e].ccs = p.next_cycle
      <3>1. ctl'[e] = [c EXCEPT !.cmd = "none", !.skip = FALSE,
                                !.deq = p.next, !.ccs = p.next_cycle]
        BY <1>1, <1>3, <1>7
      <3> HIDE DEF c
      <3> QED BY <1>1, <3>1 DEF ContextType
    <2>2. CASE abandoned[e]
      BY <1>2, <1>4, <2>2, StillQueue
    <2>3. CASE ~abandoned[e]
      <3>1. p.phase # "None" /\ p.next = r.write_index /\ p.next_cycle = r.cycle_bit
        BY <1>1, <1>7, <2>3 DEF EndpointOK
      <3>2. PositionOK(r, ctl'[e]) /\ Occupancy(r, ctl'[e]) = 0
        BY <1>1, <2>1, <3>1, EmptyAtEnd
      <3>3. Contents(r, ctl'[e]) = <<>>
        BY <1>1, <3>2, ContentsEmpty
      <3>4. Queued'[e] = <<>>
        BY <1>2, <2>3, <3>3, QueuedAt
      <3>5. \A f \in Endpoints : f # e => Queued'[f] = Queued[f]
        BY <1>2, <1>4, QueuedAt
      <3>6. Queued' = [Queued EXCEPT ![e] = <<>>]
        BY <3>4, <3>5 DEF Queued
      <3>7. CASE Queued[e] = <<>>
        <4>1. Queued' = Queued
          BY <3>4, <3>5, <3>7 DEF Queued
        <4> QED BY <1>2, <4>1 DEF QueueStep
      <3>8. CASE Queued[e] # <<>>
        <4>1. Queue!Recover(e)
          BY <1>2, <3>6, <3>8 DEF Queue!Recover
        <4> QED BY <2>3, <4>1 DEF QueueStep, Queue!Next
      <3> QED BY <3>7, <3>8
    <2> QED BY <2>2, <2>3
  <1> QED BY <1>6, <1>7

\* SendCommand moves no dequeue pointer.
LEMMA SendQueue ==
    ASSUME BulkInv, NEW e \in Endpoints, NEW cmd, SendCommand(e, cmd), ring' = ring,
           abandoned' = abandoned
    PROVE  QueueStep
  <1>1. ctl \in [Endpoints -> ContextType] /\ ctl' = [ctl EXCEPT ![e].cmd = cmd]
    BY DEF BulkInv, TypeInv, BulkTypeOK, SendCommand
  <1>2. \A f \in Endpoints : ctl'[f].deq = ctl[f].deq /\ ctl'[f].ccs = ctl[f].ccs
    BY <1>1 DEF ContextType
  <1>3. \A f \in Endpoints : ctl[f].deq \in 0 .. LinkSlot /\ ctl[f].ccs \in BOOLEAN
    BY <1>1 DEF ContextType
  <1> QED BY <1>2, <1>3, SameQueue DEF HeadSlot, HeadCycle

\* A handler leaves the queue alone or gives it up.
LEMMA HandlerQueue ==
    ASSUME BulkInv, HandlerStep
    PROVE  QueueStep
  <1>1. ring' = ring
    BY DEF HandlerStep, OnTransferEvent, OnEndpointResetCompleted, OnControlEvent,
           OnTTBufferClearCompleted, OnTransferRingDequeueSet, Return
  <1>2. CASE ctl' = ctl /\ abandoned' = abandoned
    BY <1>1, <1>2, StillQueue
  <1>3. CASE \E e \in Endpoints : Abandon(e)
    BY <1>1, <1>3, AbandonQueue
  <1>4. CASE \E e \in Endpoints, cmd \in Commands : SendCommand(e, cmd) /\ abandoned' = abandoned
    BY <1>1, <1>4, SendQueue
  <1>5. \A kind : Event(kind) => Head(events).ep \in Endpoints
    BY HeadEvent
  <1>6. call # NoCall => call.ep \in Endpoints
    BY DEF BulkInv, TypeInv, CallType
  <1>7. CASE OnTransferEvent
    BY <1>2, <1>4, <1>5, <1>7 DEF OnTransferEvent, Commands
  <1>8. CASE OnEndpointResetCompleted
    BY <1>2, <1>3, <1>5, <1>8 DEF OnEndpointResetCompleted
  <1>9. CASE OnControlEvent
    BY <1>2, <1>9 DEF OnControlEvent, hwVars
  <1>10. CASE OnTTBufferClearCompleted
    BY <1>2, <1>3, <1>4, <1>5, <1>10 DEF OnTTBufferClearCompleted, Commands
  <1>11. CASE OnTransferRingDequeueSet
    BY <1>2, <1>3, <1>5, <1>11 DEF OnTransferRingDequeueSet
  <1>12. CASE Return
    BY <1>2, <1>3, <1>4, <1>6, <1>12 DEF Return, Commands
  <1> QED BY <1>7, <1>8, <1>9, <1>10, <1>11, <1>12 DEF HandlerStep

\* The ring, its cycle bits and the recovery are a bounded queue of one transfer,
\* for every size of the ring: no TRB is lost, overwritten or taken twice.
THEOREM RingIsQueue == BulkSpec => ImplementsQueue
  <1>1. BulkInit => Queue!Init
    <2> SUFFICES ASSUME BulkInit PROVE Queue!Init
      OBVIOUS
    <2>1. BulkInv
      BY InitInv
    <2>2. \A e \in Endpoints : Contents(ring[e], ctl[e]) = <<>>
      <3> SUFFICES ASSUME NEW e \in Endpoints PROVE Contents(ring[e], ctl[e]) = <<>>
        OBVIOUS
      <3>1. /\ RingOK(ring[e]) /\ ctl[e].deq = ring[e].write_index
            /\ ctl[e].ccs = ring[e].cycle_bit
        BY <2>1, Parts DEF BulkInit, EmptyRing
      <3>2. PositionOK(ring[e], ctl[e]) /\ Occupancy(ring[e], ctl[e]) = 0
        BY <3>1, EmptyAtEnd
      <3> QED BY <3>1, <3>2, ContentsEmpty
    <2>3. Queued = [e \in Endpoints |-> <<>>]
      BY <2>2 DEF Queued
    <2>4. abandoned = [e \in Endpoints |-> FALSE]
      BY DEF BulkInit
    <2> QED BY <2>3, <2>4 DEF Queue!Init
  <1>2. BulkInv /\ [BulkNext]_bulkVars => [Queue!Next]_<<Queued, abandoned>>
    <2> SUFFICES ASSUME BulkInv, [BulkNext]_bulkVars PROVE QueueStep
      BY DEF QueueStep
    <2>1. CASE \E e \in Endpoints : PushTrb(e)
      BY <2>1, PushQueue
    <2>2. CASE \E e \in Endpoints : ExecuteTrb(e) \/ FollowLink(e) \/ RunDry(e) \/ ExecuteCommand(e)
      BY <2>2, ExecuteTrbQueue, MoveQueue, ExecuteCommandQueue
    <2>3. CASE HandlerStep
      BY <2>3, HandlerQueue
    <2>4. CASE UNCHANGED <<ring, ctl, abandoned>>
      BY <2>4, StillQueue
    <2>5. CASE \E e \in Endpoints, item \in Items, n \in 1 .. MaxTrbs : Submit(e, item, n)
      BY <2>4, <2>5 DEF Submit, QueueBulkTransfer, hwVars
    <2>6. CASE \E e \in Endpoints : SendClearHalt(e)
      BY <2>4, <2>6 DEF SendClearHalt
    <2>7. CASE \E err \in BOOLEAN : Answer(err)
      BY <2>4, <2>7 DEF Answer, hwVars
    <2>8. CASE ExecuteControl
      BY <2>4, <2>8 DEF ExecuteControl
    <2>9. CASE UNCHANGED bulkVars
      BY <2>4, <2>9 DEF bulkVars, hwVars
    <2> QED
      BY <2>1, <2>2, <2>3, <2>5, <2>6, <2>7, <2>8, <2>9
      DEF BulkNext, TransportStep, ControllerStep
  <1> QED
    BY <1>1, <1>2, BulkInvariant, PTL DEF BulkSpec, ImplementsQueue, Queue!Spec

-----------------------------------------------------------------------------
(* The bytes a transfer moved                                              *)

\* Event k of `es' reports a TRB of endpoint e that the controller has taken.
Reported(e, es, k) == es[k].ep = e /\ es[k].kind = "transfer" /\ es[k].code # "Error"

\* The controller has reported a TRB of the pending transfer p.
Seen(e, es, p) == p.short_seen \/ \E k \in 1 .. Len(es) : Reported(e, es, k)

\* The length a transfer that ends with event ev has.
LengthOf(p, ev) == TrbLen * TrbIndex(p.first, ev.trb) + TrbLen - ev.residual

\* With `left' TRBs ahead of the controller: until it reports one, every TRB
\* behind it was moved to the end; the first report says how much was moved,
\* and from then on it skips the rest; only the last TRB reports success.
ReportsOK(e, es, p, c, left, m) ==
    p.active /\ p.phase = "None" =>
        /\ ~Seen(e, es, p) => ~c.skip /\ m = TrbLen * (p.count - left)
        /\ Seen(e, es, p) => c.skip \/ left = 0
        /\ p.short_seen => p.short_len = m
        /\ \A k \in 1 .. Len(es) : Reported(e, es, k) =>
              \/ p.short_seen
              \/ LengthOf(p, es[k]) = m
              \/ \E j \in 1 .. k - 1 : Reported(e, es, j)
        /\ \A k \in 1 .. Len(es) : Reported(e, es, k) /\ es[k].code = "Success" =>
              TrbIndex(p.first, es[k].trb) = p.count - 1

\* Only the rest of a transfer under way is skipped.
SkipOK(p, c, left) == c.skip => p.active /\ left > 0 /\ c.state \in {"running", "idle"}

\* The chain bit is off in the last TRB of the transfer only.
LastOK(r, n, c) ==
    \A k \in 1 .. Occupancy(r, c) :
        r.buf[SlotAfter(HeadSlot(c), k - 1)].last <=> (n = 0 /\ k = Occupancy(r, c))

\* The account of the bytes of one endpoint.
MovedOK(e, es, r, p, n, c, m) ==
    /\ SkipOK(p, c, n + Occupancy(r, c))
    /\ ReportsOK(e, es, p, c, n + Occupancy(r, c), m)
    /\ LastOK(r, n, c)

\* The inductive invariant, for the endpoints whose recovery was not given up.
LengthInv == \A e \in Endpoints :
    ~abandoned[e] => MovedOK(e, events, ring[e], pending[e], todo[e], ctl[e], moved[e])

\* An event that reports no TRB of the endpoint changes nothing for it when it is
\* posted.
LEMMA PostedElsewhere ==
    ASSUME NEW e, NEW es \in Seq(EventType), NEW ev \in EventType,
           ~(ev.ep = e /\ ev.kind = "transfer" /\ ev.code # "Error"),
           NEW p, NEW c, NEW left, NEW m, ReportsOK(e, es, p, c, left, m)
    PROVE  ReportsOK(e, Append(es, ev), p, c, left, m)
  <1> DEFINE fs == Append(es, ev)
  <1>1. /\ Len(fs) = Len(es) + 1 /\ Len(es) \in Nat
        /\ \A k \in 1 .. Len(es) : fs[k] = es[k]
        /\ fs[Len(es) + 1] = ev
    BY PostedEvents
  <1> HIDE DEF fs
  <1>2. \A k \in 1 .. Len(fs) : Reported(e, fs, k) => k \in 1 .. Len(es)
    BY <1>1 DEF Reported
  <1>3. \A k \in 1 .. Len(es) : k \in 1 .. Len(fs) /\ (Reported(e, fs, k) <=> Reported(e, es, k))
    BY <1>1 DEF Reported
  <1>4. Seen(e, fs, p) <=> Seen(e, es, p)
    BY <1>2, <1>3 DEF Seen
  <1>5. ASSUME NEW k \in 1 .. Len(fs), Reported(e, fs, k)
        PROVE  /\ k \in 1 .. Len(es) /\ Reported(e, es, k) /\ fs[k] = es[k]
               /\ (\E j \in 1 .. k - 1 : Reported(e, es, j)) => \E j \in 1 .. k - 1 : Reported(e, fs, j)
    <2>1. k \in 1 .. Len(es)
      BY <1>2, <1>5
    <2>2. \A j \in 1 .. k - 1 : j \in 1 .. Len(es)
      BY <1>1, <2>1
    <2> QED BY <1>1, <1>3, <1>5, <2>1, <2>2
  <1>6. ReportsOK(e, fs, p, c, left, m)
    BY <1>4, <1>5 DEF ReportsOK
  <1> QED BY <1>6 DEF fs

\* Nor when it is handled.
LEMMA TakenElsewhere ==
    ASSUME NEW e, NEW es \in Seq(EventType), es # <<>>,
           ~(Head(es).ep = e /\ Head(es).kind = "transfer" /\ Head(es).code # "Error"),
           NEW p, NEW c, NEW left, NEW m, ReportsOK(e, es, p, c, left, m)
    PROVE  ReportsOK(e, Tail(es), p, c, left, m)
  <1> DEFINE fs == Tail(es)
  <1>1. /\ Len(fs) = Len(es) - 1 /\ Len(es) \in Nat /\ Len(es) >= 1
        /\ \A k \in 1 .. Len(es) - 1 : fs[k] = es[k + 1]
        /\ Head(es) = es[1]
    BY TakenEvents
  <1> HIDE DEF fs
  <1>2. \A k \in 1 .. Len(es) : Reported(e, es, k) => k - 1 \in 1 .. Len(fs) /\ Reported(e, fs, k - 1)
    <2> SUFFICES ASSUME NEW k \in 1 .. Len(es), Reported(e, es, k)
                 PROVE  k - 1 \in 1 .. Len(fs) /\ Reported(e, fs, k - 1)
      OBVIOUS
    <2>1. k # 1
      BY <1>1 DEF Reported
    <2>2. k - 1 \in 1 .. Len(es) - 1 /\ (k - 1) + 1 = k
      BY <1>1, <2>1
    <2>3. fs[k - 1] = es[k]
      BY <1>1, <2>2
    <2> QED BY <1>1, <2>2, <2>3 DEF Reported
  <1>3. \A k \in 1 .. Len(fs) : /\ k + 1 \in 1 .. Len(es) /\ fs[k] = es[k + 1]
                                /\ Reported(e, fs, k) <=> Reported(e, es, k + 1)
    BY <1>1 DEF Reported
  <1>4. Seen(e, fs, p) <=> Seen(e, es, p)
    BY <1>2, <1>3 DEF Seen
  <1>5. ASSUME NEW k \in 1 .. Len(fs), Reported(e, fs, k)
        PROVE  (\E j \in 1 .. (k + 1) - 1 : Reported(e, es, j))
                   => \E j \in 1 .. k - 1 : Reported(e, fs, j)
    <2> SUFFICES ASSUME NEW j \in 1 .. (k + 1) - 1, Reported(e, es, j)
                 PROVE  \E i \in 1 .. k - 1 : Reported(e, fs, i)
      OBVIOUS
    <2>1. j \in 1 .. Len(es) /\ j <= k /\ k \in Int
      BY <1>1
    <2>2. j - 1 \in 1 .. Len(fs) /\ Reported(e, fs, j - 1)
      BY <1>2, <2>1
    <2>3. j - 1 \in 1 .. k - 1
      BY <2>1, <2>2
    <2> QED BY <2>2, <2>3
  <1>6. ReportsOK(e, fs, p, c, left, m)
    BY <1>3, <1>4, <1>5 DEF ReportsOK
  <1> QED BY <1>6 DEF fs

\* The controller reports a TRB: the first report has the length moved by then, a
\* later one moves no more.
LEMMA PostedReport ==
    ASSUME NEW e, NEW es \in Seq(EventType), NEW ev \in EventType,
           ev.ep = e, ev.kind = "transfer", ev.code # "Error",
           NEW p, NEW c, NEW left, NEW m, ReportsOK(e, es, p, c, left, m),
           p.active, p.phase = "None",
           NEW d, NEW rest, NEW moves, d.skip \/ rest = 0,
           Seen(e, es, p) => moves = m,
           ~Seen(e, es, p) => LengthOf(p, ev) = moves,
           ev.code = "Success" => TrbIndex(p.first, ev.trb) = p.count - 1
    PROVE  ReportsOK(e, Append(es, ev), p, d, rest, moves)
  <1> DEFINE fs == Append(es, ev)
  <1>1. /\ Len(fs) = Len(es) + 1 /\ Len(es) \in Nat
        /\ \A k \in 1 .. Len(es) : fs[k] = es[k]
        /\ fs[Len(es) + 1] = ev
    BY PostedEvents
  <1> HIDE DEF fs
  <1>2. \A k \in 1 .. Len(es) : k \in 1 .. Len(fs) /\ (Reported(e, fs, k) <=> Reported(e, es, k))
    BY <1>1 DEF Reported
  <1>3. Len(es) + 1 \in 1 .. Len(fs) /\ Reported(e, fs, Len(es) + 1)
    BY <1>1 DEF Reported
  <1>4. Seen(e, fs, p)
    BY <1>3 DEF Seen
  <1>5. p.short_seen => p.short_len = moves
    BY DEF ReportsOK, Seen
  <1>6. ASSUME NEW k \in 1 .. Len(fs), Reported(e, fs, k)
        PROVE  /\ \/ p.short_seen
                  \/ LengthOf(p, fs[k]) = moves
                  \/ \E j \in 1 .. k - 1 : Reported(e, fs, j)
               /\ fs[k].code = "Success" => TrbIndex(p.first, fs[k].trb) = p.count - 1
    <2>1. CASE k \in 1 .. Len(es)
      <3>1. Reported(e, es, k) /\ fs[k] = es[k] /\ Seen(e, es, p)
        BY <1>1, <1>2, <1>6, <2>1 DEF Seen
      <3>2. \/ p.short_seen
            \/ LengthOf(p, es[k]) = m
            \/ \E j \in 1 .. k - 1 : Reported(e, es, j)
        BY <2>1, <3>1 DEF ReportsOK
      <3>3. es[k].code = "Success" => TrbIndex(p.first, es[k].trb) = p.count - 1
        BY <2>1, <3>1 DEF ReportsOK
      <3>4. \A j \in 1 .. k - 1 : j \in 1 .. Len(es)
        BY <1>1, <2>1
      <3> QED BY <1>2, <3>1, <3>2, <3>3, <3>4
    <2>2. CASE k = Len(es) + 1
      <3>1. fs[k] = ev
        BY <1>1, <2>2
      <3>2. CASE ~Seen(e, es, p)
        BY <3>1, <3>2
      <3>3. CASE Seen(e, es, p) /\ ~p.short_seen
        <4>1. PICK j \in 1 .. Len(es) : Reported(e, es, j)
          BY <3>3 DEF Seen
        <4>2. j \in 1 .. k - 1 /\ Reported(e, fs, j)
          BY <1>1, <1>2, <2>2, <4>1
        <4> QED BY <3>1, <4>2
      <3> QED BY <3>1, <3>2, <3>3
    <2> QED BY <1>1, <2>1, <2>2
  <1>7. ReportsOK(e, fs, p, d, rest, moves)
    BY <1>4, <1>5, <1>6 DEF ReportsOK
  <1> QED BY <1>7 DEF fs

\* One TRB more or less in a length.
LEMMA OneMore ==
    ASSUME NEW a \in Int, NEW x \in Int
    PROVE  a * x \in Int /\ a * (x + 1) = a * x + a
  OBVIOUS

\* The controller takes a TRB: where in the transfer that is, whether it is the
\* last one, and what was moved before.
LEMMA TakeMoved ==
    ASSUME NEW r, RingOK(r), NEW p \in PendingType, NEW n \in 0 .. UsableSize,
           NEW c \in ContextType, EndpointOK(r, p, n, c),
           c.state = "running", c.deq # LinkSlot, Owned(r, c),
           NEW d \in ContextType, d.deq = c.deq + 1, d.ccs = c.ccs,
           NEW e, NEW es, NEW m, MovedOK(e, es, r, p, n, c, m)
    PROVE  LET o == Occupancy(r, c) IN
           /\ p.active /\ p.phase = "None" /\ n \in Int /\ o \in Int /\ p.count \in Int
           /\ n >= 0 /\ o > 0 /\ Occupancy(r, d) = o - 1
           /\ TrbIndex(p.first, c.deq) = p.count - (n + o)
           /\ r.buf[c.deq].last <=> n + (o - 1) = 0
           /\ ~c.skip => ~Seen(e, es, p) /\ m = TrbLen * (p.count - (n + o))
           /\ c.skip => Seen(e, es, p)
           /\ LastOK(r, n, d)
  <1> DEFINE o == Occupancy(r, c)
             h == HeadSlot(c)
  <1>1. PositionOK(r, c)
    BY DEF EndpointOK
  <1>2. /\ h = c.deq /\ o > 0
        /\ PositionOK(r, d) /\ Occupancy(r, d) = o - 1 /\ HeadSlot(d) = SlotAfter(h, 1)
    BY <1>1, TakePosition
  <1>3. o \in 0 .. UsableSize /\ h \in Slots
    BY <1>1, OccupancyBounds
  <1>4. p.active /\ n < p.count /\ TrbIndex(p.first, h) = p.count - n - o
    BY <1>2, HeadIndex
  <1>5. p.phase = "None"
    BY RunningEndpoint
  <1>6. p.count \in Int /\ n \in Int /\ o \in Int /\ n >= 0 /\ UsableSize \in Nat
    BY <1>3, RingAssumption DEF PendingType, UsableSize
  <1>7. \A k \in 1 .. o : r.buf[SlotAfter(h, k - 1)].last <=> (n = 0 /\ k = o)
    BY DEF MovedOK, LastOK
  <1>8. /\ ~Seen(e, es, p) => ~c.skip /\ m = TrbLen * (p.count - (n + o))
        /\ Seen(e, es, p) => c.skip \/ n + o = 0
    BY <1>4, <1>5 DEF MovedOK, ReportsOK
  <1>9. LastOK(r, n, d)
    <2> SUFFICES ASSUME NEW k \in 1 .. o - 1
                 PROVE  r.buf[SlotAfter(HeadSlot(d), k - 1)].last <=> (n = 0 /\ k = o - 1)
      BY <1>2 DEF LastOK
    <2> HIDE DEF o, h
    <2>1. SlotAfter(HeadSlot(d), k - 1) = SlotAfter(h, (k + 1) - 1) /\ k + 1 \in 1 .. o
      BY <1>2, <1>3, <1>6, RingAssumption DEF SlotAfter, Slots, UsableSize
    <2>2. r.buf[SlotAfter(HeadSlot(d), k - 1)].last <=> (n = 0 /\ k + 1 = o)
      BY <1>7, <2>1
    <2>3. (k + 1 = o) <=> (k = o - 1)
      BY <1>6
    <2> QED BY <2>2, <2>3
  <1> HIDE DEF o, h
  <1>10. r.buf[c.deq].last <=> n + (o - 1) = 0
    <2>1. 1 \in 1 .. o /\ SlotAfter(h, 1 - 1) = c.deq
      BY <1>2, <1>3, <1>6, RingAssumption DEF SlotAfter, Slots, UsableSize
    <2>2. r.buf[c.deq].last <=> (n = 0 /\ 1 = o)
      BY <1>7, <2>1
    <2>3. (n = 0 /\ 1 = o) <=> n + (o - 1) = 0
      BY <1>2, <1>6
    <2> QED BY <2>2, <2>3
  <1>11. n + o # 0
    BY <1>2, <1>6
  <1>12. ~c.skip => ~Seen(e, es, p) /\ m = TrbLen * (p.count - (n + o))
    BY <1>8, <1>11
  <1>13. c.skip => Seen(e, es, p)
    BY <1>8
  <1>14. TrbIndex(p.first, c.deq) = p.count - (n + o)
    BY <1>2, <1>4, <1>6
  <1> QED
    BY <1>2, <1>4, <1>5, <1>6, <1>9, <1>10, <1>12, <1>13, <1>14 DEF o

\* Every way to take a TRB keeps the account of the bytes moved.
LEMMA AccountKept ==
    ASSUME NEW r, RingOK(r), NEW p \in PendingType, NEW n \in 0 .. UsableSize,
           NEW c \in ContextType, EndpointOK(r, p, n, c),
           c.state = "running", c.deq # LinkSlot, Owned(r, c), r.buf[c.deq].last \in BOOLEAN,
           NEW d \in ContextType, d.deq = c.deq + 1, d.ccs = c.ccs, d.state = c.state,
           NEW e, NEW es \in Seq(EventType), NEW m \in Nat, MovedOK(e, es, r, p, n, c, m)
    PROVE  /\ ~c.skip /\ ~r.buf[c.deq].last /\ ~d.skip
                 => MovedOK(e, es, r, p, n, d, m + TrbLen)
           /\ c.skip /\ ~r.buf[c.deq].last /\ d.skip
                 => MovedOK(e, es, r, p, n, d, m)
           /\ \A ev \in EventType :
                 /\ ev.ep = e /\ ev.kind = "transfer" /\ ev.code # "Error" /\ ev.trb = c.deq
                 /\ d.skip <=> ~r.buf[c.deq].last
                 /\ ev.code = "Success" => r.buf[c.deq].last
                 => /\ ~c.skip => MovedOK(e, Append(es, ev), r, p, n, d, m + TrbLen - ev.residual)
                    /\ c.skip => MovedOK(e, Append(es, ev), r, p, n, d, m)
  <1> DEFINE o == Occupancy(r, c)
             last == r.buf[c.deq].last
             x == p.count - (n + o)
  <1>1. /\ p.active /\ p.phase = "None" /\ n \in Int /\ o \in Int /\ p.count \in Int
        /\ n >= 0 /\ o > 0 /\ Occupancy(r, d) = o - 1
        /\ TrbIndex(p.first, c.deq) = x
        /\ last <=> n + (o - 1) = 0
        /\ ~c.skip => ~Seen(e, es, p) /\ m = TrbLen * x
        /\ c.skip => Seen(e, es, p)
        /\ LastOK(r, n, d)
    BY TakeMoved
  <1>2. ReportsOK(e, es, p, c, n + o, m)
    BY DEF MovedOK
  <1>3. TrbLen \in Nat /\ m \in Int /\ x \in Int
    BY <1>1, BulkAssumption
  <1>4. p.count - (n + (o - 1)) = x + 1
    BY <1>1
  <1>5. TrbLen * (x + 1) = TrbLen * x + TrbLen /\ TrbLen * x \in Int
    BY <1>3, OneMore
  <1>6. ~last => n + (o - 1) > 0
    BY <1>1
  <1> HIDE DEF o, last, x
  <1>7. ASSUME ~c.skip, ~last, ~d.skip PROVE MovedOK(e, es, r, p, n, d, m + TrbLen)
    <2>1. ~Seen(e, es, p) /\ m + TrbLen = TrbLen * (p.count - (n + (o - 1)))
      BY <1>1, <1>4, <1>5, <1>7
    <2>2. ~p.short_seen /\ \A k \in 1 .. Len(es) : ~Reported(e, es, k)
      BY <2>1 DEF Seen
    <2>3. ReportsOK(e, es, p, d, n + (o - 1), m + TrbLen)
      BY <1>7, <2>1, <2>2 DEF ReportsOK
    <2>4. SkipOK(p, d, n + (o - 1))
      BY <1>7 DEF SkipOK
    <2> QED BY <1>1, <2>3, <2>4 DEF MovedOK
  <1>8. ASSUME c.skip, ~last, d.skip PROVE MovedOK(e, es, r, p, n, d, m)
    <2>1. ReportsOK(e, es, p, d, n + (o - 1), m)
      BY <1>1, <1>2, <1>8 DEF ReportsOK
    <2>2. SkipOK(p, d, n + (o - 1))
      BY <1>1, <1>6, <1>8 DEF SkipOK
    <2> QED BY <1>1, <2>1, <2>2 DEF MovedOK
  <1>9. ASSUME NEW ev \in EventType, ev.ep = e, ev.kind = "transfer", ev.code # "Error",
               ev.trb = c.deq, d.skip <=> ~last, ev.code = "Success" => last
        PROVE  /\ ~c.skip => MovedOK(e, Append(es, ev), r, p, n, d, m + TrbLen - ev.residual)
               /\ c.skip => MovedOK(e, Append(es, ev), r, p, n, d, m)
    <2>1. d.skip \/ n + (o - 1) = 0
      BY <1>1, <1>9
    <2>2. ev.code = "Success" => TrbIndex(p.first, ev.trb) = p.count - 1
      BY <1>1, <1>9 DEF x
    <2>3. SkipOK(p, d, n + (o - 1))
      BY <1>1, <1>6, <1>9 DEF SkipOK
    <2>4. LengthOf(p, ev) = TrbLen * x + TrbLen - ev.residual
      BY <1>1, <1>9 DEF LengthOf
    <2>5. ASSUME ~c.skip PROVE ReportsOK(e, Append(es, ev), p, d, n + (o - 1), m + TrbLen - ev.residual)
      <3> DEFINE moves == m + TrbLen - ev.residual
                 rest == n + (o - 1)
      <3>1. ~Seen(e, es, p) /\ LengthOf(p, ev) = moves
        BY <1>1, <2>4, <2>5
      <3>2. d.skip \/ rest = 0
        BY <2>1
      <3> HIDE DEF moves, rest
      <3>3. ReportsOK(e, Append(es, ev), p, d, rest, moves)
        BY <1>1, <1>2, <1>9, <2>2, <3>1, <3>2, PostedReport
      <3> QED BY <3>3 DEF moves, rest
    <2>6. ASSUME c.skip PROVE ReportsOK(e, Append(es, ev), p, d, n + (o - 1), m)
      <3> DEFINE rest == n + (o - 1)
      <3>1. Seen(e, es, p) /\ (d.skip \/ rest = 0)
        BY <1>1, <2>1, <2>6
      <3> HIDE DEF rest
      <3>3. ReportsOK(e, Append(es, ev), p, d, rest, m)
        BY <1>1, <1>2, <1>9, <2>2, <3>1, PostedReport
      <3> QED BY <3>3 DEF rest
    <2> QED BY <1>1, <2>3, <2>5, <2>6 DEF MovedOK
  <1> QED BY <1>7, <1>8, <1>9 DEF last

\* Only the events of an endpoint's own TRBs matter to it.
SameReports(e) ==
    \/ events' = events
    \/ \E ev \in EventType : /\ events' = Append(events, ev)
                             /\ ~(ev.ep = e /\ ev.kind = "transfer" /\ ev.code # "Error")
    \/ /\ events # <<>> /\ events' = Tail(events)
       /\ ~(Head(events).ep = e /\ Head(events).kind = "transfer" /\ Head(events).code # "Error")

\* Such events change nothing in the account of the endpoint.
LEMMA ReportsKept ==
    ASSUME events \in Seq(EventType), NEW e, SameReports(e),
           NEW p, NEW c, NEW left, NEW m, ReportsOK(e, events, p, c, left, m)
    PROVE  ReportsOK(e, events', p, c, left, m)
  <1>1. CASE events' = events
    BY <1>1
  <1>2. CASE \E ev \in EventType : /\ events' = Append(events, ev)
                                   /\ ~(ev.ep = e /\ ev.kind = "transfer" /\ ev.code # "Error")
    BY <1>2, PostedElsewhere
  <1>3. CASE /\ events # <<>> /\ events' = Tail(events)
             /\ ~(/\ Head(events).ep = e /\ Head(events).kind = "transfer"
                  /\ Head(events).code # "Error")
    BY <1>3, TakenElsewhere
  <1> QED BY <1>1, <1>2, <1>3 DEF SameReports

\* A step of one endpoint leaves the accounts of the others alone.
LEMMA OthersLength ==
    ASSUME BulkInv, LengthInv, NEW e \in Endpoints, Only(e),
           \A f \in Endpoints : f # e => moved'[f] = moved[f] /\ SameReports(f),
           ~abandoned'[e] =>
              MovedOK(e, events', ring'[e], pending'[e], todo'[e], ctl'[e], moved'[e])
    PROVE  LengthInv'
  <1> SUFFICES ASSUME NEW f \in Endpoints, ~abandoned'[f]
               PROVE  MovedOK(f, events', ring'[f], pending'[f], todo'[f], ctl'[f], moved'[f])
    BY DEF LengthInv
  <1>1. CASE f = e
    BY <1>1
  <1>2. CASE f # e
    <2>1. /\ ring'[f] = ring[f] /\ pending'[f] = pending[f] /\ todo'[f] = todo[f]
          /\ ctl'[f] = ctl[f] /\ ~abandoned[f] /\ moved'[f] = moved[f] /\ SameReports(f)
      BY <1>2 DEF Only
    <2>2. MovedOK(f, events, ring[f], pending[f], todo[f], ctl[f], moved[f])
      BY <2>1 DEF LengthInv
    <2>3. events \in Seq(EventType)
      BY DEF BulkInv, TypeInv
    <2>4. ReportsOK(f, events', pending[f], ctl[f], todo[f] + Occupancy(ring[f], ctl[f]), moved[f])
      BY <2>1, <2>2, <2>3, ReportsKept DEF MovedOK
    <2> QED BY <2>1, <2>2, <2>4 DEF MovedOK
  <1> QED BY <1>1, <1>2

\* At the start nothing is moved, and nothing reported.
LEMMA LengthInit == BulkInit => LengthInv
  <1> SUFFICES ASSUME BulkInit, NEW e \in Endpoints
               PROVE  MovedOK(e, events, ring[e], pending[e], todo[e], ctl[e], moved[e])
    BY DEF LengthInv
  <1>1. BulkInv
    BY InitInv
  <1>2. /\ RingOK(ring[e]) /\ ctl[e].deq = ring[e].write_index
        /\ ctl[e].ccs = ring[e].cycle_bit /\ ctl[e].skip = FALSE /\ pending[e].active = FALSE
    BY <1>1, Parts DEF BulkInit, EmptyRing, NoPending
  <1>3. Occupancy(ring[e], ctl[e]) = 0
    BY <1>2, EmptyAtEnd
  <1> QED BY <1>2, <1>3 DEF MovedOK, SkipOK, ReportsOK, LastOK

\* One turn of QueueBulkTransfer's loop: the TRB is only moved from the ones to
\* push to the ones to take.
LEMMA PushMoved ==
    ASSUME NEW r, RingOK(r), NEW p \in PendingType, NEW q \in PendingType,
           NEW n \in 1 .. UsableSize, NEW c \in ContextType, NEW d \in ContextType,
           EndpointOK(r, p, n, c),
           q.active = p.active, q.count = p.count, q.phase = p.phase,
           q.short_seen = p.short_seen, q.short_len = p.short_len,
           NEW l \in BOOLEAN, l <=> n = 1, NEW s, s = Push(r, p.item, l),
           d.deq = c.deq, d.ccs = c.ccs, d.skip = c.skip,
           c.state \in {"running", "idle"} => d.state \in {"running", "idle"},
           NEW e, NEW es, NEW m, MovedOK(e, es, r, p, n, c, m),
           \A k \in 1 .. Len(es) : Reported(e, es, k) => q.first = p.first
    PROVE  MovedOK(e, es, s, q, n - 1, d, m)
  <1> DEFINE o == Occupancy(r, c)
             h == HeadSlot(c)
  <1>1. /\ p.count \in 0 .. UsableSize /\ p.item \in Items \cup {NoItem} /\ UsableSize \in Nat
        /\ n \in Int
    BY RingAssumption DEF PendingType, UsableSize
  <1>2. o \in 0 .. UsableSize /\ PositionOK(r, c) /\ o + n <= p.count
    BY OccupancyBounds DEF EndpointOK
  <1>3. o < UsableSize /\ o \in Int
    BY <1>1, <1>2
  <1>4. PositionOK(s, c) /\ Occupancy(s, c) = o + 1
        /\ (\A k \in 1 .. o : s.buf[SlotAfter(h, k - 1)] = r.buf[SlotAfter(h, k - 1)])
        /\ s.buf[SlotAfter(h, o)] = [cycle |-> r.cycle_bit, item |-> p.item, last |-> l]
    BY <1>1, <1>2, <1>3, PushPosition
  <1>5. HeadSlot(d) = h /\ HeadCycle(d) = HeadCycle(c)
    BY DEF HeadSlot, HeadCycle
  <1>6. Occupancy(s, d) = o + 1
    BY <1>4, <1>5, SamePosition DEF ContextType
  <1>7. /\ SkipOK(p, c, n + o) /\ ReportsOK(e, es, p, c, n + o, m)
        /\ \A k \in 1 .. o : r.buf[SlotAfter(h, k - 1)].last <=> (n = 0 /\ k = o)
    BY DEF MovedOK, LastOK
  <1> HIDE DEF o, h
  <1>8. (n - 1) + (o + 1) = n + o
    BY <1>1, <1>3
  <1>9. SkipOK(q, d, (n - 1) + (o + 1))
    BY <1>7, <1>8 DEF SkipOK
  <1>10. ReportsOK(e, es, q, d, n + o, m)
    <2>1. Seen(e, es, q) <=> Seen(e, es, p)
      BY DEF Seen
    <2>2. \A k \in 1 .. Len(es) : Reported(e, es, k) => LengthOf(q, es[k]) = LengthOf(p, es[k])
      BY DEF LengthOf
    <2> QED BY <1>7, <2>1, <2>2 DEF ReportsOK
  <1>11. LastOK(s, n - 1, d)
    <2> SUFFICES ASSUME NEW k \in 1 .. o + 1
                 PROVE  s.buf[SlotAfter(h, k - 1)].last <=> (n - 1 = 0 /\ k = o + 1)
      BY <1>5, <1>6 DEF LastOK
    <2>1. CASE k \in 1 .. o
      <3>1. ~r.buf[SlotAfter(h, k - 1)].last /\ k # o + 1
        BY <1>1, <1>3, <1>7, <2>1
      <3> QED BY <1>4, <2>1, <3>1
    <2>2. CASE k = o + 1
      <3>1. k - 1 = o /\ (n = 1 <=> n - 1 = 0)
        BY <1>1, <1>3, <2>2
      <3>2. s.buf[SlotAfter(h, k - 1)].last = l
        BY <1>4, <3>1
      <3> QED BY <2>2, <3>1, <3>2
    <2> QED BY <1>3, <2>1, <2>2
  <1> QED BY <1>6, <1>8, <1>9, <1>10, <1>11 DEF MovedOK

\* Pushing a TRB.
LEMMA PushTrbLength ==
    ASSUME BulkInv, LengthInv, NEW e \in Endpoints, PushTrb(e)
    PROVE  LengthInv'
  <1> DEFINE r == ring[e]
             p == pending[e]
             n == todo[e]
             c == ctl[e]
             l == (todo[e] = 1)
             s == Push(r, p.item, l)
             q == [p EXCEPT !.first = IF n = p.count THEN r.write_index ELSE @,
                            !.last = IF l THEN r.write_index ELSE @,
                            !.next = IF l THEN s.write_index ELSE @,
                            !.next_cycle = IF l THEN s.cycle_bit ELSE @]
             d == IF l THEN Doorbell(c) ELSE c
  <1>1. /\ RingOK(r) /\ p \in PendingType /\ n \in 0 .. UsableSize /\ c \in ContextType
        /\ ~abandoned[e] => EndpointOK(r, p, n, c)
    BY Parts
  <1>2. /\ n > 0 /\ n \in 1 .. UsableSize /\ l \in BOOLEAN
        /\ p.item \in Items \cup {NoItem} /\ r.write_index \in Slots
    BY <1>1, RingAssumption DEF PushTrb, UsableSize, PendingType, RingOK, RingType
  <1>3. /\ ring \in [Endpoints -> RingType] /\ pending \in [Endpoints -> PendingType]
        /\ todo \in [Endpoints -> 0 .. UsableSize] /\ ctl \in [Endpoints -> ContextType]
    BY DEF BulkInv, TypeInv, BulkTypeOK
  <1>4. /\ ring' = [ring EXCEPT ![e] = s] /\ todo' = [todo EXCEPT ![e] = @ - 1]
        /\ events' = events /\ moved' = moved /\ abandoned' = abandoned
    BY DEF PushTrb
  <1>5. pending' = [pending EXCEPT ![e] = q]
    BY <1>3 DEF PushTrb
  <1>6. ctl' = [ctl EXCEPT ![e] = d]
    BY <1>3 DEF PushTrb
  <1>7. RingOK(s)
    <2>1. p.item \in Items \cup {NoItem} /\ l \in BOOLEAN
      BY <1>2
    <2> HIDE DEF r, p, l
    <2> QED BY <1>1, <2>1, PushRing
  <1>8. s.write_index \in Slots /\ s.cycle_bit \in BOOLEAN
    BY <1>7 DEF RingOK, RingType
  <1>9. /\ q \in PendingType /\ q.active = p.active /\ q.count = p.count /\ q.phase = p.phase
        /\ q.short_seen = p.short_seen /\ q.short_len = p.short_len
        /\ n # p.count => q.first = p.first
    <2> HIDE DEF r, p, n, c, l, s
    <2> QED BY <1>1, <1>2, <1>8 DEF PendingType
  <1>10. /\ d \in ContextType /\ d.deq = c.deq /\ d.ccs = c.ccs /\ d.skip = c.skip
         /\ c.state \in {"running", "idle"} => d.state \in {"running", "idle"}
    <2> HIDE DEF c, l
    <2> QED BY <1>1 DEF Doorbell, ContextType
  <1> HIDE DEF q, d, s
  <1>11. /\ ring'[e] = s /\ pending'[e] = q /\ todo'[e] = n - 1 /\ ctl'[e] = d /\ Only(e)
    BY <1>3, <1>4, <1>5, <1>6 DEF Only
  <1>12. ASSUME ~abandoned[e]
         PROVE  MovedOK(e, events, s, q, n - 1, d, moved[e])
    <2>1. EndpointOK(r, p, n, c) /\ MovedOK(e, events, r, p, n, c, moved[e])
      BY <1>1, <1>12 DEF LengthInv
    <2>2. \A k \in 1 .. Len(events) : Reported(e, events, k) => q.first = p.first
      <3>1. \A k \in 1 .. Len(events) : Reported(e, events, k) => n < p.count
        BY <1>12 DEF BulkInv, EventsInv, EventOK, Reported
      <3>2. p.count \in Int /\ n \in Int
        BY <1>1, RingAssumption DEF PendingType, UsableSize
      <3> QED BY <1>9, <3>1, <3>2
    <2>3. s = Push(r, p.item, l) /\ (l <=> n = 1)
      BY DEF s
    <2> HIDE DEF r, p, n, c, l
    <2> QED BY <1>1, <1>2, <1>9, <1>10, <2>1, <2>2, <2>3, PushMoved
  <1> QED BY <1>4, <1>11, <1>12, OthersLength DEF SameReports

\* A step of the controller at endpoint e.
LEMMA ControllerLength ==
    ASSUME BulkInv, LengthInv, NEW e \in Endpoints, NEW d, ctl' = [ctl EXCEPT ![e] = d],
           UNCHANGED <<ring, pending, todo, abandoned>>,
           \A f \in Endpoints : f # e => moved'[f] = moved[f],
           events' = events \/ \E ev \in EventType : events' = Append(events, ev) /\ ev.ep = e,
           ~abandoned[e] =>
              MovedOK(e, events', ring[e], pending[e], todo[e], d, moved'[e])
    PROVE  LengthInv'
  <1>1. ctl'[e] = d /\ Only(e)
    BY DEF Only, BulkInv, TypeInv, BulkTypeOK
  <1>2. \A f \in Endpoints : f # e => SameReports(f)
    BY DEF SameReports
  <1> QED BY <1>1, <1>2, OthersLength

\* The controller executes a TRB.
LEMMA ExecuteTrbLength ==
    ASSUME BulkInv, LengthInv, NEW e \in Endpoints, ExecuteTrb(e)
    PROVE  LengthInv'
  <1> DEFINE r == ring[e]
             p == pending[e]
             n == todo[e]
             c == ctl[e]
             m == moved[e]
             t == r.buf[c.deq]
  <1>1. /\ RingOK(r) /\ p \in PendingType /\ n \in 0 .. UsableSize /\ c \in ContextType
        /\ ~abandoned[e] => EndpointOK(r, p, n, c)
        /\ ~abandoned[e] => MovedOK(e, events, r, p, n, c, m)
    BY Parts DEF LengthInv
  <1>2. /\ c.state = "running" /\ c.deq # LinkSlot /\ Owned(r, c)
        /\ UNCHANGED <<ring, pending, todo, control, ep0, call, abandoned>>
    BY DEF ExecuteTrb
  <1>3. /\ moved \in [Endpoints -> Nat] /\ m \in Nat /\ TrbLen \in Nat
        /\ events \in Seq(EventType) /\ ctl \in [Endpoints -> ContextType]
    BY BulkAssumption DEF BulkInv, TypeInv, BulkTypeOK
  <1>4. /\ c.deq \in Slots /\ c.deq + 1 \in 0 .. LinkSlot /\ c.skip \in BOOLEAN
    BY <1>1, <1>2, RingAssumption DEF ContextType, Slots, LinkSlot
  <1>5. t.last \in BOOLEAN /\ (~t.last) \in BOOLEAN
    BY <1>1, <1>4 DEF RingOK, RingType
  <1> DEFINE d(skip) == [c EXCEPT !.deq = c.deq + 1, !.skip = skip]
  <1>6. ASSUME NEW skip \in BOOLEAN
        PROVE  /\ d(skip) \in ContextType /\ d(skip).deq = c.deq + 1 /\ d(skip).ccs = c.ccs
               /\ d(skip).state = c.state /\ d(skip).skip = skip
    <2> HIDE DEF c
    <2> QED BY <1>1, <1>4 DEF ContextType
  <1>7. \A skip : ctl' = [ctl EXCEPT ![e].deq = @ + 1, ![e].skip = skip]
                     => ctl' = [ctl EXCEPT ![e] = d(skip)]
    BY <1>3
  <1>8. ASSUME NEW code \in {"Success", "Short"}, NEW left \in Nat
        PROVE  LET ev == TransferEvent(e, c.deq, code, left) IN
               /\ ev \in EventType /\ ev.ep = e /\ ev.kind = "transfer" /\ ev.code # "Error"
               /\ ev.code = code /\ ev.trb = c.deq /\ ev.residual = left
    BY <1>4 DEF TransferEvent, EventType
  <1> HIDE DEF d
  <1>9. ASSUME NEW skip \in BOOLEAN, ~abandoned[e]
        PROVE  /\ ~c.skip /\ ~t.last /\ ~skip
                     => MovedOK(e, events, r, p, n, d(skip), m + TrbLen)
               /\ c.skip /\ ~t.last /\ skip
                     => MovedOK(e, events, r, p, n, d(skip), m)
               /\ \A ev \in EventType :
                     /\ ev.ep = e /\ ev.kind = "transfer" /\ ev.code # "Error" /\ ev.trb = c.deq
                     /\ skip <=> ~t.last
                     /\ ev.code = "Success" => t.last
                     => /\ ~c.skip => MovedOK(e, Append(events, ev), r, p, n, d(skip),
                                              m + TrbLen - ev.residual)
                        /\ c.skip => MovedOK(e, Append(events, ev), r, p, n, d(skip), m)
    <2> DEFINE w == d(skip)
    <2>1. /\ w \in ContextType /\ w.deq = c.deq + 1 /\ w.ccs = c.ccs /\ w.state = c.state
          /\ w.skip = skip
      BY <1>6
    <2>2. EndpointOK(r, p, n, c) /\ MovedOK(e, events, r, p, n, c, m)
      BY <1>1, <1>9
    <2>3. r.buf[c.deq].last \in BOOLEAN
      BY <1>5
    <2> HIDE DEF w, r, p, n, c, m
    <2>4. /\ ~c.skip /\ ~r.buf[c.deq].last /\ ~w.skip
                 => MovedOK(e, events, r, p, n, w, m + TrbLen)
          /\ c.skip /\ ~r.buf[c.deq].last /\ w.skip
                 => MovedOK(e, events, r, p, n, w, m)
          /\ \A ev \in EventType :
                 /\ ev.ep = e /\ ev.kind = "transfer" /\ ev.code # "Error" /\ ev.trb = c.deq
                 /\ w.skip <=> ~r.buf[c.deq].last
                 /\ ev.code = "Success" => r.buf[c.deq].last
                 => /\ ~c.skip => MovedOK(e, Append(events, ev), r, p, n, w, m + TrbLen - ev.residual)
                    /\ c.skip => MovedOK(e, Append(events, ev), r, p, n, w, m)
      BY <1>1, <1>2, <1>3, <2>1, <2>2, <2>3, AccountKept
    <2> QED BY <2>1, <2>4 DEF w
  <1>10. CASE /\ ~c.skip
              /\ moved' = [moved EXCEPT ![e] = @ + TrbLen]
              /\ ctl' = [ctl EXCEPT ![e].deq = @ + 1, ![e].skip = FALSE]
              /\ IF t.last THEN Post(TransferEvent(e, c.deq, "Success", 0)) ELSE UNCHANGED events
    <2>1. /\ moved'[e] = m + TrbLen /\ \A f \in Endpoints : f # e => moved'[f] = moved[f]
          /\ ctl' = [ctl EXCEPT ![e] = d(FALSE)]
      BY <1>3, <1>7, <1>10
    <2>2. CASE ~t.last
      <3>1. events' = events
        BY <1>10, <2>2
      <3>2. ~abandoned[e] => MovedOK(e, events', r, p, n, d(FALSE), moved'[e])
        BY <1>9, <1>10, <2>1, <2>2, <3>1
      <3> QED BY <1>2, <2>1, <3>1, <3>2, ControllerLength
    <2>3. CASE t.last
      <3> DEFINE ev == TransferEvent(e, c.deq, "Success", 0)
      <3>1. /\ ev \in EventType /\ ev.ep = e /\ ev.kind = "transfer" /\ ev.code # "Error"
            /\ ev.trb = c.deq /\ ev.residual = 0
        BY <1>8
      <3>2. events' = Append(events, ev)
        BY <1>10, <2>3 DEF Post
      <3>3. m + TrbLen - 0 = m + TrbLen
        BY <1>3
      <3> HIDE DEF ev
      <3>4. ASSUME ~abandoned[e] PROVE MovedOK(e, events', r, p, n, d(FALSE), moved'[e])
        <4>1. MovedOK(e, Append(events, ev), r, p, n, d(FALSE), m + TrbLen - ev.residual)
          <5>1. FALSE \in BOOLEAN /\ (FALSE <=> ~t.last)
            BY <2>3
          <5> HIDE DEF r, p, n, c, m, t
          <5> QED BY <1>9, <1>10, <3>1, <3>4, <5>1, <2>3
        <4> QED BY <2>1, <3>1, <3>2, <3>3, <4>1
      <3> QED BY <1>2, <2>1, <3>1, <3>2, <3>4, ControllerLength
    <2> QED BY <2>2, <2>3
  <1>11. ASSUME ~c.skip, NEW left \in 1 .. TrbLen,
                moved' = [moved EXCEPT ![e] = @ + TrbLen - left],
                ctl' = [ctl EXCEPT ![e].deq = @ + 1, ![e].skip = ~t.last],
                Post(TransferEvent(e, c.deq, "Short", left))
         PROVE  LengthInv'
    <2>1. /\ moved'[e] = m + TrbLen - left /\ \A f \in Endpoints : f # e => moved'[f] = moved[f]
          /\ ctl' = [ctl EXCEPT ![e] = d(~t.last)] /\ left \in Nat
      <3>1. moved'[e] = m + TrbLen - left /\ \A f \in Endpoints : f # e => moved'[f] = moved[f]
        BY <1>3, <1>11
      <3>2. ctl' = [ctl EXCEPT ![e] = d(~t.last)]
        BY <1>7, <1>11, Zenon
      <3>3. left \in Nat
        BY <1>3
      <3> QED BY <3>1, <3>2, <3>3
    <2> DEFINE ev == TransferEvent(e, c.deq, "Short", left)
    <2>2. /\ ev \in EventType /\ ev.ep = e /\ ev.kind = "transfer" /\ ev.code = "Short"
          /\ ev.trb = c.deq /\ ev.residual = left
      BY <1>8, <2>1
    <2>3. events' = Append(events, ev)
      BY <1>11 DEF Post
    <2> HIDE DEF ev
    <2>4. ASSUME ~abandoned[e] PROVE MovedOK(e, events', r, p, n, d(~t.last), moved'[e])
      <3>1. MovedOK(e, Append(events, ev), r, p, n, d(~t.last), m + TrbLen - ev.residual)
        <4> HIDE DEF r, p, n, c, m, t
        <4>1. ev.code # "Error" /\ ev.code # "Success"
          BY <2>2
        <4> QED BY <1>5, <1>9, <1>11, <2>2, <2>4, <4>1, Zenon
      <3> QED BY <2>1, <2>2, <2>3, <3>1
    <2> QED BY <1>2, <2>1, <2>2, <2>3, <2>4, ControllerLength
  <1>12. CASE /\ c.skip
              /\ ctl' = [ctl EXCEPT ![e].deq = @ + 1, ![e].skip = ~t.last]
              /\ IF t.last
                 THEN \E code \in {"Success", "Short"}, left \in 0 .. TrbLen :
                         Post(TransferEvent(e, c.deq, code, left))
                 ELSE UNCHANGED events
              /\ UNCHANGED moved
    <2>1. ctl' = [ctl EXCEPT ![e] = d(~t.last)] /\ moved' = moved
      BY <1>7, <1>12
    <2>2. CASE ~t.last
      <3>1. events' = events
        BY <1>12, <2>2
      <3>2. ~abandoned[e] => MovedOK(e, events', r, p, n, d(~t.last), moved'[e])
        BY <1>5, <1>9, <1>12, <2>1, <2>2, <3>1
      <3> QED BY <1>2, <2>1, <3>1, <3>2, ControllerLength
    <2>3. CASE t.last
      <3>1. PICK code \in {"Success", "Short"}, left \in 0 .. TrbLen :
               Post(TransferEvent(e, c.deq, code, left))
        BY <1>12, <2>3
      <3> DEFINE ev == TransferEvent(e, c.deq, code, left)
      <3>2. /\ ev \in EventType /\ ev.ep = e /\ ev.kind = "transfer" /\ ev.code # "Error"
            /\ ev.trb = c.deq
        <4>1. left \in Nat
          BY <1>3
        <4> QED BY <1>8, <4>1
      <3>3. events' = Append(events, ev)
        BY <3>1 DEF Post
      <3> HIDE DEF ev
      <3>4. ~abandoned[e] => MovedOK(e, events', r, p, n, d(~t.last), moved'[e])
        BY <1>5, <1>9, <1>12, <2>1, <2>3, <3>2, <3>3
      <3> QED BY <1>2, <2>1, <3>2, <3>3, <3>4, ControllerLength
    <2> QED BY <2>2, <2>3
  <1>13. CASE /\ ~c.skip
              /\ ctl' = [ctl EXCEPT ![e].state = "halted"]
              /\ Post(TransferEvent(e, c.deq, "Error", 0))
              /\ UNCHANGED moved
    <2> DEFINE w == [c EXCEPT !.state = "halted"]
               ev == TransferEvent(e, c.deq, "Error", 0)
    <2>1. ctl' = [ctl EXCEPT ![e] = w]
      BY <1>3, <1>13
    <2>2. w.deq = c.deq /\ w.ccs = c.ccs /\ w.skip = c.skip /\ w \in ContextType
      <3> HIDE DEF c
      <3> QED BY <1>1 DEF ContextType
    <2>3. /\ ev \in EventType /\ ev.ep = e /\ ev.code = "Error"
      BY <1>4 DEF TransferEvent, EventType
    <2>4. events' = Append(events, ev)
      BY <1>13 DEF Post
    <2> HIDE DEF w, ev
    <2>5. HeadSlot(w) = HeadSlot(c) /\ HeadCycle(w) = HeadCycle(c)
      BY <2>2 DEF HeadSlot, HeadCycle
    <2>6. Occupancy(r, w) = Occupancy(r, c)
      BY <2>5 DEF Occupancy
    <2>7. ASSUME ~abandoned[e] PROVE MovedOK(e, events', r, p, n, w, moved'[e])
      <3>1. MovedOK(e, events, r, p, n, c, m)
        BY <1>1, <2>7
      <3>2. SameReports(e)
        BY <2>3, <2>4 DEF SameReports
      <3>3. ReportsOK(e, events', p, c, n + Occupancy(r, c), m)
        BY <1>3, <3>1, <3>2, ReportsKept DEF MovedOK
      <3>4. ReportsOK(e, events', p, w, n + Occupancy(r, w), m)
        BY <2>2, <2>6, <3>3 DEF ReportsOK
      <3>5. SkipOK(p, w, n + Occupancy(r, w))
        BY <1>13, <2>2 DEF SkipOK
      <3>6. LastOK(r, n, w)
        BY <2>5, <2>6, <3>1 DEF MovedOK, LastOK
      <3> QED BY <1>13, <3>4, <3>5, <3>6 DEF MovedOK
    <2> QED BY <1>2, <1>13, <2>1, <2>3, <2>4, <2>7, ControllerLength
  <1> QED BY <1>10, <1>11, <1>12, <1>13 DEF ExecuteTrb

\* The account depends on the controller's position past the Link TRB.
LEMMA StillMoved ==
    ASSUME NEW e, NEW es, NEW r, NEW p, NEW n, NEW c, NEW m, MovedOK(e, es, r, p, n, c, m),
           NEW d, HeadSlot(d) = HeadSlot(c), HeadCycle(d) = HeadCycle(c), d.skip = c.skip,
           c.skip => d.state \in {"running", "idle"}
    PROVE  MovedOK(e, es, r, p, n, d, m)
  <1>1. Occupancy(r, d) = Occupancy(r, c)
    BY DEF Occupancy
  <1> QED BY <1>1 DEF MovedOK, SkipOK, ReportsOK, LastOK

\* The controller follows the Link TRB, or finds nothing to do.
LEMMA MoveLength ==
    ASSUME BulkInv, LengthInv, NEW e \in Endpoints, FollowLink(e) \/ RunDry(e)
    PROVE  LengthInv'
  <1> DEFINE c == ctl[e]
  <1>1. c \in ContextType /\ ctl \in [Endpoints -> ContextType]
    BY DEF BulkInv, TypeInv, BulkTypeOK
  <1>2. /\ c.state = "running" /\ events' = events /\ moved' = moved
        /\ UNCHANGED <<ring, pending, todo, abandoned>>
    BY DEF FollowLink, RunDry
  <1>3. PICK d : /\ ctl' = [ctl EXCEPT ![e] = d] /\ d.skip = c.skip
                 /\ d.state \in {"running", "idle"}
                 /\ HeadSlot(d) = HeadSlot(c) /\ HeadCycle(d) = HeadCycle(c)
    <2>1. CASE FollowLink(e)
      <3>1. ctl' = [ctl EXCEPT ![e] = Linked(c)] /\ c.deq = LinkSlot
        BY <2>1 DEF FollowLink
      <3>2. Linked(c).skip = c.skip /\ Linked(c).state = c.state
        BY <1>1 DEF Linked, ContextType
      <3> HIDE DEF c
      <3> QED BY <1>1, <1>2, <3>1, <3>2, LinkedPosition
    <2>2. CASE RunDry(e)
      <3> DEFINE d == [c EXCEPT !.state = "idle"]
      <3>1. ctl' = [ctl EXCEPT ![e] = d]
        BY <1>1, <2>2 DEF RunDry
      <3>2. d.skip = c.skip /\ d.deq = c.deq /\ d.ccs = c.ccs /\ d.state = "idle"
        BY <1>1 DEF ContextType
      <3> HIDE DEF d
      <3> QED BY <3>1, <3>2 DEF HeadSlot, HeadCycle
    <2> QED BY <2>1, <2>2
  <1>4. ~abandoned[e] => MovedOK(e, events, ring[e], pending[e], todo[e], d, moved[e])
    BY <1>3, StillMoved DEF LengthInv
  <1> QED BY <1>2, <1>3, <1>4, ControllerLength

\* A recovery command finds no TRB being skipped.
LEMMA ExecuteCommandLength ==
    ASSUME BulkInv, LengthInv, NEW e \in Endpoints, ExecuteCommand(e)
    PROVE  LengthInv'
  <1> DEFINE r == ring[e]
             p == pending[e]
             n == todo[e]
             c == ctl[e]
  <1>1. /\ RingOK(r) /\ p \in PendingType /\ n \in 0 .. UsableSize /\ c \in ContextType
        /\ ctl \in [Endpoints -> ContextType]
        /\ ~abandoned[e] => EndpointOK(r, p, n, c)
    BY Parts DEF BulkInv, TypeInv, BulkTypeOK
  <1>2. /\ c.cmd # "none" /\ c.cmd \in Commands /\ moved' = moved
        /\ UNCHANGED <<ring, pending, todo, abandoned>>
    BY <1>1 DEF ExecuteCommand, Commands, ContextType
  <1>3. PICK ok \in BOOLEAN :
          /\ events' = Append(events, CompletionEvent(c.cmd, e, ok))
          /\ ctl' = [ctl EXCEPT ![e] =
                CASE ok /\ @.cmd = "ResetEndpoint" ->
                        [@ EXCEPT !.cmd = "none", !.state = "stopped"]
                  [] ok /\ @.cmd = "SetDequeuePointer" ->
                        [@ EXCEPT !.cmd = "none", !.skip = FALSE,
                                  !.deq = pending[e].next, !.ccs = pending[e].next_cycle]
                  [] OTHER -> [@ EXCEPT !.cmd = "none"]]
    BY DEF ExecuteCommand, Post
  <1> DEFINE ev == CompletionEvent(c.cmd, e, ok)
             d == ctl'[e]
  <1>4. ev \in EventType /\ ev.ep = e
    BY <1>2 DEF CompletionEvent, EventType
  <1>5. ctl' = [ctl EXCEPT ![e] = d]
    BY <1>1, <1>3
  <1>6. CASE ~(ok /\ c.cmd = "SetDequeuePointer")
    <2>1. d.deq = c.deq /\ d.ccs = c.ccs /\ d.skip = c.skip
      <3>1. d = [c EXCEPT !.cmd = "none", !.state = "stopped"] \/ d = [c EXCEPT !.cmd = "none"]
        BY <1>1, <1>3, <1>6
      <3> HIDE DEF c, d
      <3> QED BY <1>1, <3>1 DEF ContextType
    <2>2. HeadSlot(d) = HeadSlot(c) /\ HeadCycle(d) = HeadCycle(c)
      BY <2>1 DEF HeadSlot, HeadCycle
    <2>3. ASSUME ~abandoned[e] PROVE MovedOK(e, events', r, p, n, d, moved'[e])
      <3>1. MovedOK(e, events, r, p, n, c, moved[e])
        BY <2>3 DEF LengthInv
      <3>2. p.phase # "None" /\ c.state \in {"halted", "stopped"}
        BY <1>1, <1>2, <2>3 DEF EndpointOK, Commands
      <3>3. ~c.skip
        BY <3>1, <3>2 DEF MovedOK, SkipOK
      <3>4. MovedOK(e, events, r, p, n, d, moved[e])
        <4>1. d.skip = c.skip
          BY <2>1
        <4> HIDE DEF c, d, r, p, n
        <4> QED BY <2>2, <3>1, <3>3, <4>1, StillMoved
      <3> QED BY <1>2, <3>2, <3>4 DEF MovedOK, ReportsOK
    <2> HIDE DEF d
    <2> QED BY <1>2, <1>3, <1>4, <1>5, <2>3, ControllerLength
  <1>7. CASE ok /\ c.cmd = "SetDequeuePointer"
    <2>1. d.deq = p.next /\ d.ccs = p.next_cycle /\ ~d.skip
      <3>1. d = [c EXCEPT !.cmd = "none", !.skip = FALSE, !.deq = p.next, !.ccs = p.next_cycle]
        BY <1>1, <1>3, <1>7
      <3> HIDE DEF c, d
      <3> QED BY <1>1, <3>1 DEF ContextType
    <2>2. ASSUME ~abandoned[e] PROVE MovedOK(e, events', r, p, n, d, moved'[e])
      <3>1. p.phase # "None" /\ p.next = r.write_index /\ p.next_cycle = r.cycle_bit
        BY <1>1, <1>2, <1>7, <2>2 DEF EndpointOK
      <3>2. Occupancy(r, d) = 0
        BY <1>1, <2>1, <3>1, EmptyAtEnd
      <3> QED BY <2>1, <3>1, <3>2 DEF MovedOK, SkipOK, ReportsOK, LastOK
    <2> HIDE DEF d
    <2> QED BY <1>2, <1>3, <1>4, <1>5, <2>2, ControllerLength
  <1> QED BY <1>6, <1>7

\* Nothing of an endpoint changes, and no event of a TRB comes or goes.
LEMMA StillLength ==
    ASSUME BulkInv, LengthInv, UNCHANGED <<ring, pending, todo, ctl, moved, abandoned>>,
           \A f \in Endpoints : SameReports(f)
    PROVE  LengthInv'
  <1> SUFFICES ASSUME NEW f \in Endpoints, ~abandoned[f]
               PROVE  MovedOK(f, events', ring[f], pending[f], todo[f], ctl[f], moved[f])
    BY DEF LengthInv
  <1>1. MovedOK(f, events, ring[f], pending[f], todo[f], ctl[f], moved[f])
    BY DEF LengthInv
  <1>2. events \in Seq(EventType)
    BY DEF BulkInv, TypeInv
  <1>3. ReportsOK(f, events', pending[f], ctl[f], todo[f] + Occupancy(ring[f], ctl[f]), moved[f])
    BY <1>1, <1>2, ReportsKept DEF MovedOK
  <1> QED BY <1>1, <1>3 DEF MovedOK

\* The device answers a control request.
LEMMA ExecuteControlLength ==
    ASSUME BulkInv, LengthInv, ExecuteControl
    PROVE  LengthInv'
  <1>1. /\ control # <<>> /\ control \in Seq(RequestType)
        /\ UNCHANGED <<ring, pending, todo, ctl, moved, abandoned>>
    BY DEF ExecuteControl, BulkInv, TypeInv
  <1>2. Head(control) \in RequestType
    BY <1>1
  <1>3. CASE UNCHANGED events
    BY <1>1, <1>3, StillLength DEF SameReports
  <1>4. ASSUME NEW ok \in BOOLEAN,
               Post([kind |-> "control", req |-> Head(control).req,
                     ep |-> Head(control).ep, ok |-> ok])
        PROVE  LengthInv'
    <2> DEFINE new == [kind |-> "control", req |-> Head(control).req,
                       ep |-> Head(control).ep, ok |-> ok]
    <2>1. new \in EventType /\ new.kind = "control" /\ events' = Append(events, new)
      BY <1>2, <1>4 DEF EventType, RequestType, Post
    <2> HIDE DEF new
    <2>2. \A f \in Endpoints : SameReports(f)
      BY <2>1 DEF SameReports
    <2> QED BY <1>1, <2>2, StillLength
  <1> QED BY <1>3, <1>4 DEF ExecuteControl

\* The driver changes the transfer of one endpoint.
LEMMA PendingLength ==
    ASSUME BulkInv, LengthInv, NEW e \in Endpoints, NEW q,
           pending' = [pending EXCEPT ![e] = q], UNCHANGED <<ring, todo, moved, abandoned>>,
           \A f \in Endpoints : f # e => ctl'[f] = ctl[f],
           ctl'[e].deq = ctl[e].deq, ctl'[e].ccs = ctl[e].ccs, ctl'[e].skip = ctl[e].skip,
           ctl'[e].state = ctl[e].state,
           events' = events \/ (events # <<>> /\ events' = Tail(events) /\ Head(events).ep = e),
           ~abandoned[e] =>
              /\ ctl[e].skip => q.active
              /\ ReportsOK(e, events', q, ctl[e],
                           todo[e] + Occupancy(ring[e], ctl[e]), moved[e])
    PROVE  LengthInv'
  <1> DEFINE r == ring[e]
             n == todo[e]
             c == ctl[e]
             d == ctl'[e]
             m == moved[e]
  <1>1. pending'[e] = q /\ Only(e)
    BY DEF Only, BulkInv, TypeInv, BulkTypeOK
  <1>2. HeadSlot(d) = HeadSlot(c) /\ HeadCycle(d) = HeadCycle(c)
    BY DEF HeadSlot, HeadCycle
  <1>3. Occupancy(r, d) = Occupancy(r, c)
    BY <1>2 DEF Occupancy
  <1>4. ASSUME ~abandoned[e] PROVE MovedOK(e, events', r, q, n, d, m)
    <2>1. MovedOK(e, events, r, pending[e], n, c, m)
      BY <1>4 DEF LengthInv
    <2>2. SkipOK(q, d, n + Occupancy(r, d))
      BY <1>3, <1>4, <2>1 DEF MovedOK, SkipOK
    <2>3. ReportsOK(e, events', q, d, n + Occupancy(r, d), m)
      BY <1>3, <1>4 DEF ReportsOK
    <2>4. LastOK(r, n, d)
      BY <1>2, <1>3, <2>1 DEF MovedOK, LastOK
    <2> QED BY <2>2, <2>3, <2>4 DEF MovedOK
  <1>5. \A f \in Endpoints : f # e => SameReports(f)
    BY DEF SameReports
  <1> QED BY <1>1, <1>4, <1>5, OthersLength

\* A new transfer starts with nothing moved and no report of it in the event ring.
LEMMA SubmitLength ==
    ASSUME BulkInv, LengthInv, NEW e \in Endpoints, NEW item \in Items,
           NEW size \in 1 .. MaxTrbs, Submit(e, item, size)
    PROVE  LengthInv'
  <1> DEFINE r == ring[e]
             c == ctl[e]
             q == [NoPending EXCEPT !.active = TRUE, !.item = item, !.count = size]
  <1>1. /\ RingOK(r) /\ pending[e] \in PendingType /\ todo[e] \in 0 .. UsableSize
        /\ c \in ContextType
        /\ ~abandoned[e] => EndpointOK(r, pending[e], todo[e], c)
    BY Parts
  <1>2. /\ ~pending[e].active /\ todo[e] = 0
        /\ pending' = [pending EXCEPT ![e] = q] /\ todo' = [todo EXCEPT ![e] = size]
        /\ moved' = [moved EXCEPT ![e] = 0]
        /\ ring' = ring /\ ctl' = ctl /\ events' = events /\ abandoned' = abandoned
    BY DEF Submit, CanSubmit, Accepts, QueueBulkTransfer, hwVars
  <1>3. q.active /\ q.phase = "None" /\ ~q.short_seen /\ q.count = size
    BY DEF NoPending
  <1> HIDE DEF q
  <1>4. /\ pending'[e] = q /\ todo'[e] = size /\ moved'[e] = 0 /\ Only(e)
        /\ \A f \in Endpoints : f # e => moved'[f] = moved[f]
    BY <1>2 DEF BulkInv, TypeInv, BulkTypeOK, Only
  <1>5. ASSUME ~abandoned[e] PROVE MovedOK(e, events, r, q, size, c, 0)
    <2>1. EndpointOK(r, pending[e], 0, c) /\ pending[e].count = 0
      BY <1>1, <1>2, <1>5 DEF EndpointOK
    <2>2. Occupancy(r, c) \in 0 .. UsableSize
      BY <1>1, <2>1, OccupancyBounds DEF EndpointOK
    <2>3. Occupancy(r, c) = 0
      BY <2>1, <2>2, RingAssumption DEF EndpointOK, UsableSize
    <2>4. ~c.skip
      BY <1>2, <1>5 DEF LengthInv, MovedOK, SkipOK
    <2>5. \A k \in 1 .. Len(events) : ~Reported(e, events, k)
      BY <1>2, <1>5 DEF BulkInv, EventsInv, EventOK, Reported
    <2>6. ~Seen(e, events, q)
      BY <1>3, <2>5 DEF Seen
    <2>7. size \in Int /\ TrbLen \in Int
      BY BulkAssumption
    <2>8. 0 = TrbLen * (q.count - (size + Occupancy(r, c)))
      <3>1. q.count - (size + Occupancy(r, c)) = 0
        BY <1>3, <2>3, <2>7
      <3> QED BY <2>7, <3>1
    <2>9. ReportsOK(e, events, q, c, size + Occupancy(r, c), 0)
      BY <1>3, <2>4, <2>5, <2>6, <2>8 DEF ReportsOK
    <2> QED BY <2>3, <2>4, <2>9 DEF MovedOK, SkipOK, LastOK
  <1>6. \A f \in Endpoints : f # e => SameReports(f)
    BY <1>2 DEF SameReports
  <1> QED BY <1>2, <1>4, <1>5, <1>6, OthersLength

\* The driver sends a command.
LEMMA SendLength ==
    ASSUME BulkInv, LengthInv, NEW e \in Endpoints, NEW cmd \in Commands, SendCommand(e, cmd),
           UNCHANGED <<ring, todo, moved, abandoned>>,
           events' = events \/ (events # <<>> /\ events' = Tail(events) /\ Head(events).ep = e)
    PROVE  LengthInv'
  <1> DEFINE q == [pending[e] EXCEPT !.phase = cmd]
  <1>1. /\ pending \in [Endpoints -> PendingType] /\ ctl \in [Endpoints -> ContextType]
        /\ pending[e] \in PendingType /\ ctl[e] \in ContextType
    BY DEF BulkInv, TypeInv, BulkTypeOK
  <1>2. pending' = [pending EXCEPT ![e] = q]
    BY <1>1 DEF SendCommand
  <1>3. /\ ctl'[e] = [ctl[e] EXCEPT !.cmd = cmd]
        /\ \A f \in Endpoints : f # e => ctl'[f] = ctl[f]
    BY <1>1 DEF SendCommand
  <1>4. /\ ctl'[e].deq = ctl[e].deq /\ ctl'[e].ccs = ctl[e].ccs
        /\ ctl'[e].skip = ctl[e].skip /\ ctl'[e].state = ctl[e].state
    BY <1>1, <1>3 DEF ContextType
  <1>5. q.active = pending[e].active /\ q.phase = cmd /\ cmd # "None"
    BY <1>1 DEF PendingType, Commands
  <1> HIDE DEF q
  <1>6. ~abandoned[e] =>
              /\ ctl[e].skip => q.active
              /\ ReportsOK(e, events', q, ctl[e], todo[e] + Occupancy(ring[e], ctl[e]), moved[e])
    BY <1>5 DEF LengthInv, MovedOK, SkipOK, ReportsOK
  <1> QED BY <1>2, <1>3, <1>4, <1>6, PendingLength

\* The driver gives a recovery up.
LEMMA AbandonLength ==
    ASSUME BulkInv, LengthInv, NEW e \in Endpoints, Abandon(e), UNCHANGED <<ring, todo, moved>>,
           events' = events \/ (events # <<>> /\ events' = Tail(events) /\ Head(events).ep = e)
    PROVE  LengthInv'
  <1>1. Only(e) /\ abandoned'[e]
    BY DEF Abandon, Only, BulkInv, TypeInv, BulkTypeOK
  <1>2. \A f \in Endpoints : f # e => SameReports(f)
    BY DEF SameReports
  <1> QED BY <1>1, <1>2, OthersLength

\* A handler forgets a transfer whose TRBs are not being skipped, or lets its
\* recovery go on.
LEMMA ForgetLength ==
    ASSUME BulkInv, LengthInv, NEW e \in Endpoints, NEW q,
           pending' = [pending EXCEPT ![e] = q], UNCHANGED <<ring, todo, ctl, moved, abandoned>>,
           events # <<>>, events' = Tail(events), Head(events).ep = e,
           ~q.active \/ q.phase # "None", ~abandoned[e] => ~ctl[e].skip
    PROVE  LengthInv'
  <1>1. ~abandoned[e] =>
              /\ ctl[e].skip => q.active
              /\ ReportsOK(e, events', q, ctl[e], todo[e] + Occupancy(ring[e], ctl[e]), moved[e])
    BY DEF ReportsOK
  <1> QED BY <1>1, PendingLength

\* Once a short packet is remembered, later reports do not matter.
LEMMA TakenAfterShort ==
    ASSUME NEW e, NEW es \in Seq(EventType), es # <<>>, NEW q, q.short_seen,
           NEW c, NEW left, NEW m, c.skip \/ left = 0, q.short_len = m,
           \A k \in 1 .. Len(es) : Reported(e, es, k) /\ es[k].code = "Success" =>
              TrbIndex(q.first, es[k].trb) = q.count - 1
    PROVE  ReportsOK(e, Tail(es), q, c, left, m)
  <1> DEFINE fs == Tail(es)
  <1>1. /\ Len(fs) = Len(es) - 1 /\ Len(es) \in Nat /\ Len(es) >= 1
        /\ \A k \in 1 .. Len(es) - 1 : fs[k] = es[k + 1]
    BY TakenEvents
  <1> HIDE DEF fs
  <1>2. \A k \in 1 .. Len(fs) : /\ k + 1 \in 1 .. Len(es) /\ fs[k] = es[k + 1]
                                /\ Reported(e, fs, k) <=> Reported(e, es, k + 1)
    BY <1>1 DEF Reported
  <1>3. Seen(e, fs, q)
    BY DEF Seen
  <1>4. ReportsOK(e, fs, q, c, left, m)
    BY <1>2, <1>3 DEF ReportsOK
  <1> QED BY <1>4 DEF fs

\* What the handler of a transfer event finds: the event is of the pending
\* transfer, a success is that of its last TRB, and without a short packet before
\* it has the length moved.
LEMMA TransferFacts ==
    ASSUME BulkInv, LengthInv, Event("transfer"), ~abandoned[Head(events).ep],
           Head(events).code # "Error"
    PROVE  LET ev == Head(events)
               e == ev.ep
               p == pending[e]
           IN  /\ Matches(e, ev.trb) /\ p.phase = "None"
               /\ ev.code = "Success" => Final(e, ev)
               /\ ~p.short_seen => TransferredLength(e, ev.trb, ev.residual) = moved[e]
               /\ p.short_seen => p.short_len = moved[e]
               /\ ctl[e].skip \/ todo[e] + Occupancy(ring[e], ctl[e]) = 0
               /\ \A k \in 1 .. Len(events) :
                     Reported(e, events, k) /\ events[k].code = "Success" =>
                        TrbIndex(p.first, events[k].trb) = p.count - 1
               /\ Final(e, ev) => ~ctl[e].skip
  <1> DEFINE ev == Head(events)
             e == ev.ep
             p == pending[e]
             r == ring[e]
             c == ctl[e]
             o == Occupancy(r, c)
  <1>1. /\ events # <<>> /\ ev \in EventType /\ ev.kind = "transfer" /\ e \in Endpoints
        /\ todo[e] = 0 /\ Holds(e, ev)
    BY HeadEvent
  <1>2. /\ p \in PendingType /\ RingOK(r) /\ EndpointOK(r, p, 0, c)
        /\ MovedOK(e, events, r, p, 0, c, moved[e])
    BY <1>1, Parts DEF LengthInv
  <1>3. /\ p.active /\ p.phase = "None" /\ ev.trb \in Slots
        /\ TrbIndex(p.first, ev.trb) < p.count - 0 - o
    BY <1>1 DEF Holds, EventOK
  <1>4. o \in 0 .. UsableSize /\ o \in Int /\ o >= 0
    BY <1>2, OccupancyBounds, RingAssumption DEF EndpointOK, UsableSize
  <1>5. /\ p.first \in Slots /\ p.last \in Slots /\ p.count \in 0 .. UsableSize
        /\ TrbIndex(p.first, ev.trb) \in Int
    BY <1>2, <1>3, RingAssumption DEF PendingType, TrbIndex, Slots, UsableSize
  <1>6. p.last = SlotAfter(p.first, p.count - 1) /\ p.count >= 1
    BY <1>2, <1>3 DEF EndpointOK
  <1>7. events \in Seq(EventType) /\ ev = events[1] /\ 1 \in 1 .. Len(events)
    BY <1>1, TakenEvents DEF BulkInv, TypeInv
  <1>8. Reported(e, events, 1)
    BY <1>1, <1>7 DEF Reported
  <1>9. Seen(e, events, p)
    BY <1>7, <1>8 DEF Seen
  <1>10. /\ c.skip \/ 0 + o = 0
         /\ p.short_seen => p.short_len = moved[e]
         /\ \A k \in 1 .. Len(events) : Reported(e, events, k) =>
              \/ p.short_seen
              \/ LengthOf(p, events[k]) = moved[e]
              \/ \E j \in 1 .. k - 1 : Reported(e, events, j)
         /\ \A k \in 1 .. Len(events) : Reported(e, events, k) /\ events[k].code = "Success" =>
              TrbIndex(p.first, events[k].trb) = p.count - 1
    BY <1>2, <1>3, <1>9 DEF MovedOK, ReportsOK
  <1>11. ~p.short_seen => LengthOf(p, ev) = moved[e]
    <2>1. \A j \in 1 .. 1 - 1 : FALSE
      OBVIOUS
    <2>2. \/ p.short_seen
          \/ LengthOf(p, events[1]) = moved[e]
          \/ \E j \in 1 .. 1 - 1 : Reported(e, events, j)
      BY <1>7, <1>8, <1>10
    <2> QED BY <1>7, <2>1, <2>2
  <1>12. Matches(e, ev.trb)
    <2>1. TrbIndex(p.first, ev.trb) < p.count
      <3> HIDE DEF ev, e, p, o
      <3> QED BY <1>3, <1>4, <1>5
    <2> QED BY <1>3, <2>1 DEF Matches
  <1>13. ev.code = "Success" => ev.trb = p.last
    <2> SUFFICES ASSUME ev.code = "Success" PROVE ev.trb = p.last
      OBVIOUS
    <2>1. TrbIndex(p.first, ev.trb) = p.count - 1
      BY <1>7, <1>8, <1>10
    <2> HIDE DEF ev, e, p
    <2> QED
      BY <1>3, <1>5, <1>6, <2>1, RingAssumption DEF TrbIndex, SlotAfter, Slots, UsableSize
  <1>14. ASSUME ev.trb = p.last PROVE ~c.skip
    <2>1. EventOK(r, p, 0, c, ev) /\ ev.code # "Error" /\ ev.kind = "transfer"
      BY <1>1 DEF Holds
    <2>2. o = 0
      <3> HIDE DEF ev, e, p, r, c
      <3> QED BY <1>2, <1>14, <2>1, LastEvent DEF o
    <2> QED BY <1>2, <2>2 DEF MovedOK, SkipOK
  <1> QED
    BY <1>1, <1>3, <1>10, <1>11, <1>12, <1>13, <1>14
    DEF Final, TransferredLength, LengthOf

\* The handler of transfer events.
LEMMA OnTransferEventLength ==
    ASSUME BulkInv, LengthInv, OnTransferEvent
    PROVE  LengthInv'
  <1> DEFINE ev == Head(events)
             e == ev.ep
             p == pending[e]
             c == ctl[e]
             len == IF p.short_seen THEN p.short_len ELSE TransferredLength(e, ev.trb, ev.residual)
             left == todo[e] + Occupancy(ring[e], c)
  <1>1. Event("transfer")
    BY DEF OnTransferEvent
  <1>2. /\ events # <<>> /\ e \in Endpoints /\ events \in Seq(EventType) /\ p \in PendingType
        /\ pending \in [Endpoints -> PendingType]
    BY <1>1, HeadEvent DEF BulkInv, TypeInv, BulkTypeOK
  <1>3. /\ events' = Tail(events) /\ UNCHANGED <<ring, todo, moved, abandoned>>
    BY DEF OnTransferEvent
  <1>4. ~abandoned[e] /\ ev.code # "Error" =>
           /\ Matches(e, ev.trb) /\ p.phase = "None"
           /\ ev.code = "Success" => Final(e, ev)
           /\ len = moved[e] /\ (p.short_seen => p.short_len = moved[e])
           /\ c.skip \/ left = 0
           /\ \A k \in 1 .. Len(events) :
                 Reported(e, events, k) /\ events[k].code = "Success" =>
                    TrbIndex(p.first, events[k].trb) = p.count - 1
           /\ Final(e, ev) => ~c.skip
    BY <1>1, TransferFacts
  <1>5. CASE /\ \/ ~Matches(e, ev.trb)
                \/ ev.code = "Error" /\ p.phase # "None"
                \/ ev.code = "Short" /\ ~Final(e, ev) /\ p.short_seen
                \/ ev.code = "Success" /\ ~Final(e, ev)
             /\ UNCHANGED <<pending, ctl, call>>
    <2>1. pending' = [pending EXCEPT ![e] = p]
      BY <1>2, <1>5
    <2>2. ASSUME ~abandoned[e]
          PROVE  /\ c.skip => p.active
                 /\ ReportsOK(e, events', p, c, left, moved[e])
      <3>1. MovedOK(e, events, ring[e], p, todo[e], c, moved[e])
        BY <1>2, <2>2 DEF LengthInv
      <3>2. CASE ev.code = "Error"
        BY <1>2, <1>3, <3>1, <3>2, TakenElsewhere DEF MovedOK, SkipOK
      <3>3. CASE ev.code # "Error"
        <4>1. p.short_seen
          BY <1>4, <1>5, <2>2, <3>3
        <4>2. p.short_len = moved[e] /\ (c.skip \/ left = 0)
          BY <1>4, <2>2, <3>3, <4>1
        <4>3. \A k \in 1 .. Len(events) : Reported(e, events, k) /\ events[k].code = "Success" =>
                    TrbIndex(p.first, events[k].trb) = p.count - 1
          BY <1>4, <2>2, <3>3
        <4>4. c.skip => p.active
          BY <3>1 DEF MovedOK, SkipOK
        <4> DEFINE m == moved[e]
        <4> HIDE DEF p, c, left, m, e, ev
        <4>5. ReportsOK(e, Tail(events), p, c, left, m)
          BY <1>2, <4>1, <4>2, <4>3, TakenAfterShort DEF m
        <4> QED BY <1>3, <4>4, <4>5 DEF m
      <3> QED BY <3>2, <3>3
    <2> QED BY <1>2, <1>3, <1>5, <2>1, <2>2, PendingLength
  <1>6. CASE ev.code = "Error" /\ SendCommand(e, "ResetEndpoint")
    <2>1. "ResetEndpoint" \in Commands
      BY DEF Commands
    <2> QED BY <1>2, <1>3, <1>6, <2>1, SendLength
  <1>7. CASE /\ ev.code = "Short" /\ ~p.short_seen
             /\ pending' = [pending EXCEPT ![e].short_seen = TRUE, ![e].short_len = len]
             /\ UNCHANGED ctl
    <2> DEFINE q == [p EXCEPT !.short_seen = TRUE, !.short_len = len]
    <2>1. pending' = [pending EXCEPT ![e] = q]
      BY <1>2, <1>7
    <2>2. /\ q.active = p.active /\ q.short_seen /\ q.short_len = len
          /\ q.first = p.first /\ q.count = p.count
      <3> HIDE DEF p, len
      <3> QED BY <1>2 DEF PendingType
    <2> HIDE DEF q
    <2>3. ASSUME ~abandoned[e]
          PROVE  /\ c.skip => q.active
                 /\ ReportsOK(e, events', q, c, left, moved[e])
      <3>1. MovedOK(e, events, ring[e], p, todo[e], c, moved[e])
        BY <1>2, <2>3 DEF LengthInv
      <3>2. c.skip => q.active
        BY <2>2, <3>1 DEF MovedOK, SkipOK
      <3>3. /\ q.short_len = moved[e] /\ (c.skip \/ left = 0)
            /\ \A k \in 1 .. Len(events) : Reported(e, events, k) /\ events[k].code = "Success" =>
                  TrbIndex(q.first, events[k].trb) = q.count - 1
        <4>1. ev.code # "Error"
          BY <1>7
        <4> HIDE DEF len, left, p, c, ev
        <4> QED BY <1>4, <2>2, <2>3, <4>1
      <3> DEFINE m == moved[e]
      <3> HIDE DEF p, c, left, m, e, ev, len
      <3>4. ReportsOK(e, Tail(events), q, c, left, m)
        BY <1>2, <2>2, <3>3, TakenAfterShort DEF m
      <3> QED BY <1>3, <3>2, <3>4 DEF m
    <2> QED BY <1>2, <1>3, <1>7, <2>1, <2>3, PendingLength
  <1>8. CASE /\ ev.code # "Error" /\ Final(e, ev)
             /\ pending' = [pending EXCEPT ![e] = NoPending]
             /\ UNCHANGED ctl
    <2>1. ~NoPending.active
      BY DEF NoPending
    <2>2. ~abandoned[e] => ~c.skip
      BY <1>4, <1>8
    <2> QED BY <1>2, <1>3, <1>8, <2>1, <2>2, ForgetLength
  <1> QED BY <1>5, <1>6, <1>7, <1>8 DEF OnTransferEvent

\* The handlers of command completions and control requests, and what follows a
\* call of the class driver.
LEMMA RecoveryLength ==
    ASSUME BulkInv, LengthInv,
           OnEndpointResetCompleted \/ OnControlEvent \/ OnTTBufferClearCompleted
              \/ OnTransferRingDequeueSet \/ Return
    PROVE  LengthInv'
  <1> DEFINE e == Head(events).ep
  <1>1. UNCHANGED <<ring, todo, moved>>
    BY DEF OnEndpointResetCompleted, OnControlEvent, OnTTBufferClearCompleted,
           OnTransferRingDequeueSet, Return
  <1>2. ASSUME NEW kind, Event(kind), kind # "transfer", events' = Tail(events)
        PROVE  events # <<>> /\ e \in Endpoints /\ \A f \in Endpoints : SameReports(f)
    BY <1>2, HeadEvent DEF SameReports
  <1>3. ASSUME NEW cmd \in Commands, Event(cmd), ~abandoned[e] PROVE ~ctl[e].skip
    <2>1. ctl[e].state \in {"halted", "stopped"}
      BY <1>3, CompletionFacts
    <2>2. e \in Endpoints
      BY <1>3, HeadEvent
    <2> QED BY <1>3, <2>1, <2>2 DEF LengthInv, MovedOK, SkipOK
  <1>4. /\ "ResetEndpoint" \in Commands /\ "ClearTTBuffer" \in Commands
        /\ "SetDequeuePointer" \in Commands
    BY DEF Commands
  <1>5. CASE OnEndpointResetCompleted
    <2>1. /\ Event("ResetEndpoint") /\ events' = Tail(events)
      BY <1>5 DEF OnEndpointResetCompleted
    <2>2. events # <<>> /\ e \in Endpoints /\ \A f \in Endpoints : SameReports(f)
      BY <1>2, <2>1
    <2>3. CASE UNCHANGED <<pending, ctl, abandoned>>
      BY <1>1, <2>2, <2>3, StillLength
    <2>4. CASE Abandon(e)
      BY <1>1, <2>1, <2>2, <2>4, AbandonLength
    <2>5. CASE /\ pending' = [pending EXCEPT ![e].phase = "ClearEndpointHalt"]
               /\ UNCHANGED <<ctl, abandoned>>
      <3> DEFINE q == [pending[e] EXCEPT !.phase = "ClearEndpointHalt"]
      <3>1. /\ pending \in [Endpoints -> PendingType] /\ pending[e] \in PendingType
        BY <2>2 DEF BulkInv, TypeInv, BulkTypeOK
      <3>2. pending' = [pending EXCEPT ![e] = q] /\ q.phase # "None"
        BY <2>5, <3>1 DEF PendingType
      <3> HIDE DEF q
      <3> QED BY <1>1, <1>3, <1>4, <2>1, <2>2, <2>5, <3>2, ForgetLength
    <2> QED BY <1>5, <2>3, <2>4, <2>5 DEF OnEndpointResetCompleted
  <1>6. CASE OnControlEvent
    <2>1. /\ Event("control") /\ events' = Tail(events)
          /\ UNCHANGED <<pending, ctl, abandoned>>
      BY <1>6 DEF OnControlEvent, hwVars
    <2>2. \A f \in Endpoints : SameReports(f)
      BY <1>2, <2>1
    <2> QED BY <1>1, <2>1, <2>2, StillLength
  <1>7. CASE OnTTBufferClearCompleted
    <2>1. /\ Event("ClearTTBuffer") /\ events' = Tail(events)
      BY <1>7 DEF OnTTBufferClearCompleted
    <2>2. events # <<>> /\ e \in Endpoints /\ \A f \in Endpoints : SameReports(f)
      BY <1>2, <2>1
    <2>3. CASE UNCHANGED <<pending, ctl, abandoned>>
      BY <1>1, <2>2, <2>3, StillLength
    <2>4. CASE Abandon(e)
      BY <1>1, <2>1, <2>2, <2>4, AbandonLength
    <2>5. CASE SendCommand(e, "SetDequeuePointer") /\ UNCHANGED abandoned
      BY <1>1, <1>4, <2>1, <2>2, <2>5, SendLength
    <2> QED BY <1>7, <2>3, <2>4, <2>5 DEF OnTTBufferClearCompleted
  <1>8. CASE OnTransferRingDequeueSet
    <2>1. /\ Event("SetDequeuePointer") /\ events' = Tail(events)
      BY <1>8 DEF OnTransferRingDequeueSet
    <2>2. events # <<>> /\ e \in Endpoints /\ \A f \in Endpoints : SameReports(f)
      BY <1>2, <2>1
    <2>3. CASE UNCHANGED <<pending, ctl, abandoned>>
      BY <1>1, <2>2, <2>3, StillLength
    <2>4. CASE Abandon(e)
      BY <1>1, <2>1, <2>2, <2>4, AbandonLength
    <2>5. CASE pending' = [pending EXCEPT ![e] = NoPending] /\ UNCHANGED <<ctl, abandoned>>
      <3>1. ~NoPending.active
        BY DEF NoPending
      <3> QED BY <1>1, <1>3, <1>4, <2>1, <2>2, <2>5, <3>1, ForgetLength
    <2> QED BY <1>8, <2>3, <2>4, <2>5 DEF OnTransferRingDequeueSet
  <1>9. CASE Return
    <2>1. call # NoCall /\ events' = events
      BY <1>9 DEF Return
    <2>2. call.ep \in Endpoints
      BY <2>1 DEF BulkInv, TypeInv, CallType
    <2>3. CASE UNCHANGED <<pending, ctl, abandoned>>
      <3>1. \A f \in Endpoints : SameReports(f)
        BY <2>1 DEF SameReports
      <3> QED BY <1>1, <2>3, <3>1, StillLength
    <2>4. CASE Abandon(call.ep)
      BY <1>1, <2>1, <2>2, <2>4, AbandonLength
    <2>5. CASE \E cmd \in Commands : SendCommand(call.ep, cmd) /\ UNCHANGED abandoned
      BY <1>1, <2>1, <2>2, <2>5, SendLength
    <2> QED BY <1>4, <1>9, <2>3, <2>4, <2>5 DEF Return
  <1> QED BY <1>5, <1>6, <1>7, <1>8, <1>9

\* A length once reported stays that of the bytes moved, while the class driver
\* handles the completion.
LEMMA ExactKept ==
    ASSUME BulkInv, LengthExact,
           call'.fn = "Completed" =>
              call.fn = "Completed" /\ call'.ep = call.ep /\ call'.len = call.len,
           \A e \in Endpoints : ~abandoned'[e] /\ ~pending'[e].active =>
              ~abandoned[e] /\ ~pending[e].active /\ moved'[e] = moved[e]
    PROVE  LengthExact'
  <1>1. call.fn = "Completed" => call.ep \in Endpoints
    BY DEF BulkInv, TypeInv, CallType, NoCall
  <1> QED BY <1>1 DEF LengthExact

\* The reported length is exact in every step.
LEMMA ExactStep ==
    ASSUME BulkInv, LengthInv, LengthExact, [BulkNext]_bulkVars
    PROVE  LengthExact'
  <1>1. /\ pending \in [Endpoints -> PendingType] /\ moved \in [Endpoints -> Nat]
        /\ abandoned \in [Endpoints -> BOOLEAN]
    BY DEF BulkInv, TypeInv, BulkTypeOK
  <1>2. ASSUME NEW e \in Endpoints, PushTrb(e) PROVE LengthExact'
    <2>1. call' = call /\ abandoned' = abandoned /\ moved' = moved
      BY <1>2 DEF PushTrb
    <2>2. \A f \in Endpoints : pending'[f].active = pending[f].active
      <3>1. \A f \in Endpoints : f # e => pending'[f] = pending[f]
        BY <1>1, <1>2 DEF PushTrb
      <3>2. pending'[e].active = pending[e].active
        <4> DEFINE p == pending[e]
        <4>1. PICK a, b, x, y : pending'[e] = [p EXCEPT !.first = a, !.last = b, !.next = x,
                                                        !.next_cycle = y]
          BY <1>1, <1>2 DEF PushTrb
        <4>2. p \in PendingType
          BY <1>1
        <4> HIDE DEF p
        <4>3. pending'[e].active = p.active
          BY <4>1, <4>2 DEF PendingType
        <4> QED BY <4>3 DEF p
      <3> QED BY <3>1, <3>2
    <2> QED BY <2>1, <2>2, ExactKept
  <1>3. ASSUME NEW e \in Endpoints, ExecuteTrb(e) PROVE LengthExact'
    <2>1. /\ call' = call /\ abandoned' = abandoned /\ pending' = pending
          /\ ctl[e].deq # LinkSlot /\ Owned(ring[e], ctl[e])
      BY <1>3 DEF ExecuteTrb
    <2>2. \A f \in Endpoints : f # e => moved'[f] = moved[f]
      BY <1>1, <1>3 DEF ExecuteTrb
    <2>3. ASSUME ~abandoned[e] PROVE pending[e].active
      <3> DEFINE r == ring[e]
                 p == pending[e]
                 n == todo[e]
                 c == ctl[e]
                 d == [c EXCEPT !.deq = c.deq + 1]
      <3>1. /\ RingOK(r) /\ p \in PendingType /\ n \in 0 .. UsableSize /\ c \in ContextType
            /\ EndpointOK(r, p, n, c)
        BY <2>3, Parts
      <3>2. PositionOK(r, c) /\ c.deq # LinkSlot /\ Owned(r, c)
        BY <2>1, <3>1 DEF EndpointOK
      <3> HIDE DEF r, p, n, c
      <3>3. d.deq = c.deq + 1 /\ d.ccs = c.ccs
        BY <3>1 DEF ContextType
      <3> HIDE DEF d
      <3>4. Occupancy(r, c) > 0
        BY <3>1, <3>2, <3>3, TakePosition
      <3>5. p.active
        BY <3>1, <3>4, HeadIndex
      <3> QED BY <3>5 DEF p
    <2> QED BY <2>1, <2>2, <2>3, ExactKept
  <1>4. CASE UNCHANGED <<pending, moved, abandoned, call>>
    BY <1>4, ExactKept
  <1>5. ASSUME NEW e \in Endpoints, NEW item \in Items, NEW n \in 1 .. MaxTrbs, Submit(e, item, n)
        PROVE  LengthExact'
    <2>1. /\ call' = call /\ abandoned' = abandoned /\ moved' = [moved EXCEPT ![e] = 0]
          /\ pending' = [pending EXCEPT ![e] =
                [NoPending EXCEPT !.active = TRUE, !.item = item, !.count = n]]
      BY <1>5 DEF Submit, QueueBulkTransfer
    <2>2. pending'[e].active
      BY <1>1, <2>1 DEF NoPending
    <2>3. \A f \in Endpoints : f # e => pending'[f] = pending[f] /\ moved'[f] = moved[f]
      BY <1>1, <2>1
    <2> QED BY <2>1, <2>2, <2>3, ExactKept
  <1>6. ASSUME NEW err \in BOOLEAN, Answer(err) PROVE LengthExact'
    <2>1. /\ call # NoCall /\ call' = [call EXCEPT !.done = TRUE, !.err = err]
          /\ UNCHANGED <<pending, moved, abandoned>>
      BY <1>6 DEF Answer
    <2>2. call \in CallType
      BY <2>1 DEF BulkInv, TypeInv
    <2>3. call'.fn = call.fn /\ call'.ep = call.ep /\ call'.len = call.len
      BY <2>1, <2>2 DEF CallType
    <2> QED BY <2>1, <2>3, ExactKept
  <1>7. CASE call'.fn # "Completed"
    BY <1>7 DEF LengthExact
  <1>8. CASE HandlerStep
    <2>1. NoCall.fn # "Completed"
      BY DEF NoCall
    <2>2. \A fn, e, ok, item, len : Call(fn, e, ok, item, len) =>
             call'.fn = fn /\ call'.ep = e /\ call'.len = len
      BY DEF Call, CallOf
    <2>3. CASE OnTransferEvent
      <3> DEFINE ev == Head(events)
                 e == ev.ep
                 p == pending[e]
                 len == IF p.short_seen THEN p.short_len
                        ELSE TransferredLength(e, ev.trb, ev.residual)
      <3>1. Event("transfer") /\ moved' = moved /\ abandoned' = abandoned /\ call = NoCall
        BY <2>3 DEF OnTransferEvent, Event, DriverIdle
      <3>2. CASE UNCHANGED call
        BY <1>7, <2>1, <3>1, <3>2
      <3>3. CASE ev.code # "Error" /\ Call("Completed", e, TRUE, p.item, len)
        <4>1. ~abandoned[e] => len = moved[e]
          <5> SUFFICES ASSUME ~abandoned[e] PROVE len = moved[e]
            OBVIOUS
          <5>1. /\ ~p.short_seen => TransferredLength(e, ev.trb, ev.residual) = moved[e]
                /\ p.short_seen => p.short_len = moved[e]
            BY <3>1, <3>3, TransferFacts
          <5> HIDE DEF e, p, ev
          <5> QED BY <5>1
        <4>2. call'.ep = e /\ call'.len = len
          <5> HIDE DEF e, p, len
          <5> QED BY <3>3 DEF Call, CallOf
        <4> QED BY <3>1, <4>1, <4>2 DEF LengthExact
      <3> QED BY <2>3, <3>2, <3>3 DEF OnTransferEvent
    <2>4. CASE OnEndpointResetCompleted
      BY <1>7, <2>1, <2>2, <2>4 DEF OnEndpointResetCompleted, Event, DriverIdle
    <2>5. CASE OnControlEvent
      BY <1>7, <2>1, <2>2, <2>5 DEF OnControlEvent, Event, DriverIdle
    <2>6. CASE OnTTBufferClearCompleted
      BY <1>7, <2>1, <2>2, <2>6 DEF OnTTBufferClearCompleted, Event, DriverIdle
    <2>7. CASE OnTransferRingDequeueSet
      BY <1>7, <2>1, <2>2, <2>7 DEF OnTransferRingDequeueSet, Event, DriverIdle
    <2>8. CASE Return
      BY <1>7, <2>1, <2>2, <2>8 DEF Return
    <2> QED BY <2>3, <2>4, <2>5, <2>6, <2>7, <2>8, <1>8 DEF HandlerStep
  <1>9. CASE \E e \in Endpoints : FollowLink(e) \/ RunDry(e) \/ ExecuteCommand(e)
    BY <1>4, <1>9 DEF FollowLink, RunDry, ExecuteCommand
  <1>10. CASE ExecuteControl
    BY <1>4, <1>10 DEF ExecuteControl
  <1>11. CASE \E e \in Endpoints : SendClearHalt(e)
    BY <1>4, <1>11 DEF SendClearHalt
  <1>12. CASE UNCHANGED bulkVars
    BY <1>4, <1>12 DEF bulkVars
  <1> QED
    BY <1>2, <1>3, <1>5, <1>6, <1>8, <1>9, <1>10, <1>11, <1>12
    DEF BulkNext, TransportStep, ControllerStep

\* A transfer completes with exactly the bytes the device moved, for every length,
\* ring size and place of a short packet.
THEOREM BulkLengthExact == BulkSpec => []LengthExact
  <1>1. BulkInit => LengthExact
    BY DEF BulkInit, LengthExact, NoCall
  <1>2. BulkInv /\ LengthInv /\ [BulkNext]_bulkVars => LengthInv'
    <2> SUFFICES ASSUME BulkInv, LengthInv, [BulkNext]_bulkVars PROVE LengthInv'
      OBVIOUS
    <2>1. CASE \E e \in Endpoints : PushTrb(e)
      BY <2>1, PushTrbLength
    <2>2. CASE \E e \in Endpoints : ExecuteTrb(e) \/ FollowLink(e) \/ RunDry(e) \/ ExecuteCommand(e)
      BY <2>2, ExecuteTrbLength, MoveLength, ExecuteCommandLength
    <2>3. CASE ExecuteControl
      BY <2>3, ExecuteControlLength
    <2>4. CASE HandlerStep
      BY <2>4, OnTransferEventLength, RecoveryLength DEF HandlerStep
    <2>5. CASE \E e \in Endpoints, item \in Items, n \in 1 .. MaxTrbs : Submit(e, item, n)
      BY <2>5, SubmitLength
    <2>6. CASE UNCHANGED <<ring, pending, todo, ctl, events, moved, abandoned>>
      <3>1. \A f \in Endpoints : SameReports(f)
        BY <2>6 DEF SameReports
      <3> QED BY <2>6, <3>1, StillLength
    <2>7. CASE (\E e \in Endpoints : SendClearHalt(e)) \/ (\E err \in BOOLEAN : Answer(err))
      BY <2>6, <2>7 DEF SendClearHalt, Answer, hwVars
    <2>8. CASE UNCHANGED bulkVars
      BY <2>6, <2>8 DEF bulkVars, hwVars
    <2> QED
      BY <2>1, <2>2, <2>3, <2>4, <2>5, <2>7, <2>8 DEF BulkNext, TransportStep, ControllerStep
  <1>3. BulkInv /\ LengthInv /\ LengthExact /\ [BulkNext]_bulkVars => LengthExact'
    BY ExactStep
  <1> QED BY <1>1, <1>2, <1>3, LengthInit, BulkInvariant, PTL DEF BulkSpec

=============================================================================
