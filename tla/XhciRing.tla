------------------------------- MODULE XhciRing -------------------------------
(***************************************************************************)
(* SpaceUSB3::Ring (lib/cpp/Device/USB/xHCI/xHCI-Ring.cpp): a transfer     *)
(* ring of an xHCI endpoint.  The driver pushes transfer request blocks    *)
(* (TRBs); the controller takes them.  They share no index: a cycle bit in *)
(* each TRB says whether it belongs to the producer's current lap, and the *)
(* last slot holds a Link TRB that sends the controller back to slot 0 and *)
(* toggles the cycle state it expects.                                     *)
(*                                                                         *)
(* The operators work on a ring r = [buf, link, write_index, cycle_bit]    *)
(* and on the controller's position c = [deq, ccs, ...] in it.             *)
(***************************************************************************)
EXTENDS Integers, Sequences

CONSTANTS
    Size,   \* buf_size_: slots of the ring, the Link TRB included
    Items,  \* buffers a TRB may point to
    NoItem  \* the null pointer

ASSUME RingAssumption ==
    /\ Size \in Nat /\ Size >= 3   \* Ring::Initialize refuses fewer than 16
    /\ NoItem \notin Items

UsableSize == Size - 1
LinkSlot == Size - 1
Slots == 0 .. Size - 2

\* MemSet(buf_, 0, ...): cycle bit 0 everywhere, and the producer starts at 1.
EmptyRing ==
    [buf |-> [i \in Slots |-> [cycle |-> FALSE, item |-> NoItem, last |-> FALSE]],
     link |-> FALSE, write_index |-> 0, cycle_bit |-> TRUE]

RingType ==
    [buf : [Slots -> [cycle : BOOLEAN, item : Items \cup {NoItem}, last : BOOLEAN]],
     link : BOOLEAN, write_index : Slots, cycle_bit : BOOLEAN]

\* Push: the TRB with the producer's cycle bit; the push that fills the last
\* usable slot also hands over the Link TRB and starts the next lap.  `last'
\* is the negated chain bit.
Push(r, item, last) ==
    LET b == [r.buf EXCEPT ![r.write_index] =
                 [cycle |-> r.cycle_bit, item |-> item, last |-> last]]
    IN  IF r.write_index + 1 = LinkSlot
        THEN [buf |-> b, link |-> r.cycle_bit,
              write_index |-> 0, cycle_bit |-> ~r.cycle_bit]
        ELSE [buf |-> b, link |-> r.link,
              write_index |-> r.write_index + 1, cycle_bit |-> r.cycle_bit]

\* How often NextTransferTRB leads from slot `first' to slot i.
TrbIndex(first, i) == IF i >= first THEN i - first ELSE i - first + UsableSize

\* The controller owns the TRB its dequeue pointer is at.
Owned(r, c) == IF c.deq = LinkSlot THEN r.link = c.ccs ELSE r.buf[c.deq].cycle = c.ccs

\* Where the controller goes from a Link TRB with the toggle bit.
Linked(c) == [c EXCEPT !.deq = 0, !.ccs = ~@]

\* The controller's position, read past a Link TRB it has not followed yet.
HeadSlot(c) == IF c.deq = LinkSlot THEN 0 ELSE c.deq
HeadCycle(c) == IF c.deq = LinkSlot THEN ~c.ccs ELSE c.ccs

\* TRBs from the dequeue to the enqueue pointer, and what they are.
Occupancy(r, c) ==
    IF HeadCycle(c) = r.cycle_bit
    THEN r.write_index - HeadSlot(c)
    ELSE UsableSize - HeadSlot(c) + r.write_index

SlotAfter(i, k) == IF i + k >= UsableSize THEN i + k - UsableSize ELSE i + k

Contents(r, c) ==
    [k \in 1 .. Occupancy(r, c) |->
        LET t == r.buf[SlotAfter(HeadSlot(c), k - 1)] IN [item |-> t.item, last |-> t.last]]

=============================================================================
