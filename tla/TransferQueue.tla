----------------------------- MODULE TransferQueue -----------------------------
(***************************************************************************)
(* What an endpoint of the USB host promises its class driver, without     *)
(* rings, cycle bits and recovery commands: a bounded queue of transfer    *)
(* blocks that holds one transfer at a time ("One logical bulk request is  *)
(* represented by one chained Transfer TD"), executed in order, and        *)
(* dropped as a whole when a failed transfer has been recovered from.      *)
(* Nothing is promised once a recovery itself has failed.                  *)
(***************************************************************************)
EXTENDS Naturals, Sequences

CONSTANTS Endpoints, Items, Capacity

VARIABLES
    queue,  \* blocks queued and not yet executed, oldest first
    broken  \* a recovery of the endpoint failed

Block == [item : Items, last : BOOLEAN]

Init ==
    /\ queue = [e \in Endpoints |-> <<>>]
    /\ broken = [e \in Endpoints |-> FALSE]

\* One more block, of the same transfer as the blocks already queued.
Enqueue(e, b) ==
    /\ Len(queue[e]) < Capacity
    /\ queue[e] # <<>> => /\ ~queue[e][Len(queue[e])].last
                          /\ queue[e][Len(queue[e])].item = b.item
    /\ queue' = [queue EXCEPT ![e] = Append(@, b)]
    /\ UNCHANGED broken

Execute(e) ==
    /\ queue[e] # <<>>
    /\ queue' = [queue EXCEPT ![e] = Tail(@)]
    /\ UNCHANGED broken

\* The rest of a failed transfer is dropped.
Recover(e) ==
    /\ queue[e] # <<>>
    /\ queue' = [queue EXCEPT ![e] = <<>>]
    /\ UNCHANGED broken

Break(e) ==
    /\ queue' = [queue EXCEPT ![e] = <<>>]
    /\ broken' = [broken EXCEPT ![e] = TRUE]

Next == \E e \in Endpoints :
    /\ ~broken[e]
    /\ \/ \E b \in Block : Enqueue(e, b)
       \/ Execute(e)
       \/ Recover(e)
       \/ Break(e)

Spec == Init /\ [][Next]_<<queue, broken>>

=============================================================================
