------------------------------- MODULE XhciBulk -------------------------------
(***************************************************************************)
(* Bulk endpoints of an xHCI device (SpaceUSB3::USBHostDevice_v3,          *)
(* lib/cpp/Device/USB/xHCI/xHCI.cpp): queueing a transfer descriptor on    *)
(* the endpoint's ring, matching transfer events to it, and the recovery   *)
(* of a halted endpoint, which takes a Reset Endpoint command, a           *)
(* CLEAR_FEATURE(ENDPOINT_HALT) request the class driver sends, a clear of *)
(* the transaction translator's buffer for devices behind one, and a Set   *)
(* TR Dequeue Pointer command.                                             *)
(*                                                                         *)
(* Actors: the driver, which queues transfers and handles one event at a   *)
(* time to the end, calls of the class driver included; and the            *)
(* controller, which executes TRBs, commands and control requests.  A call *)
(* of the class driver is a step of its own: the handler leaves it in      *)
(* `call', the class driver answers it, Return is the rest of the handler. *)
(***************************************************************************)
EXTENDS XhciRing, FiniteSets

CONSTANTS
    Endpoints,    \* bulk endpoints of the device
    InEndpoints,  \* those that receive: only they see short packets
    TrbLen,       \* bytes of one TRB
    MaxTrbs,      \* bound: TRBs of the longest transfer a class driver submits
    MaxControl,   \* bound: control requests of the class driver under way
    BehindTT      \* the device is behind a transaction translator

ASSUME BulkAssumption ==
    /\ InEndpoints \subseteq Endpoints
    /\ TrbLen \in Nat \ {0} /\ MaxTrbs \in Nat \ {0} /\ MaxControl \in Nat
    /\ BehindTT \in BOOLEAN

VARIABLES
    ring,      \* transfer_rings_
    pending,   \* pending_bulk_transfers_
    todo,      \* TRBs a running QueueBulkTransfer has still to push
    ctl,       \* the controller's endpoint contexts
    control,   \* control requests on the default pipe, oldest first
    ep0,       \* the default pipe's context is halted
    events,    \* the event ring
    call,      \* the running call of the class driver
    moved,     \* bytes moved for the endpoint's transfer
    abandoned  \* a recovery of the endpoint failed

hwVars == <<ctl, control, ep0>>
bulkVars == <<ring, pending, todo, hwVars, events, call, moved, abandoned>>

-----------------------------------------------------------------------------
(* Data                                                                    *)

Phases == {"None", "ResetEndpoint", "ClearEndpointHalt", "ClearTTBuffer", "SetDequeuePointer"}

\* PendingBulkTransfer{}
NoPending ==
    [active |-> FALSE, item |-> NoItem, first |-> 0, last |-> 0, count |-> 0,
     next |-> 0, next_cycle |-> TRUE, short_seen |-> FALSE, short_len |-> 0,
     phase |-> "None"]

NoCall == [fn |-> "none", done |-> FALSE]

\* A call of the class driver: success, buffer (or control request) and length
\* as the callback passes them, `done' and `err' once it has returned.
CallOf(fn, e, ok, item, len) ==
    [fn |-> fn, ep |-> e, ok |-> ok, item |-> item, len |-> len, done |-> FALSE, err |-> FALSE]

TransferEvent(e, i, code, residual) ==
    [kind |-> "transfer", ep |-> e, trb |-> i, code |-> code, residual |-> residual]
CompletionEvent(kind, e, ok) == [kind |-> kind, ep |-> e, ok |-> ok]

BulkInit ==
    /\ ring = [e \in Endpoints |-> EmptyRing]
    /\ pending = [e \in Endpoints |-> NoPending]
    /\ todo = [e \in Endpoints |-> 0]
    /\ ctl = [e \in Endpoints |->
                 [deq |-> 0, ccs |-> TRUE, state |-> "idle", skip |-> FALSE, cmd |-> "none"]]
    /\ control = <<>> /\ ep0 = FALSE /\ events = <<>> /\ call = NoCall
    /\ moved = [e \in Endpoints |-> 0]
    /\ abandoned = [e \in Endpoints |-> FALSE]

\* The driver is between two handlers.
DriverIdle == call = NoCall /\ \A e \in Endpoints : todo[e] = 0

-----------------------------------------------------------------------------
(* Queueing a transfer                                                     *)

\* Mutant of the test: a transfer under way does not matter.
AcceptsWhilePending(e, n) == n <= UsableSize

\* QueueBulkTransfer answers Full to anything else.
Accepts(e, n) == ~pending[e].active /\ n <= UsableSize

\* QueueBulkTransfer up to its first Push.
QueueBulkTransfer(e, item, n) ==
    /\ pending' = [pending EXCEPT ![e] =
                      [NoPending EXCEPT !.active = TRUE, !.item = item, !.count = n]]
    /\ todo' = [todo EXCEPT ![e] = n]
    /\ moved' = [moved EXCEPT ![e] = 0]
    /\ UNCHANGED <<ring, hwVars, events, abandoned>>

\* Mutant of the end of QueueBulkTransfer: the doorbell is not rung.
DoorbellOmitted(c) == c

\* A doorbell restarts an endpoint unless it is halted.
Doorbell(c) == [c EXCEPT !.state = IF @ = "halted" THEN @ ELSE "running"]

\* One turn of QueueBulkTransfer's loop, and what follows the last one.
PushTrb(e) ==
    /\ todo[e] > 0
    /\ LET p    == pending[e]
           last == todo[e] = 1
           r    == Push(ring[e], p.item, last)
       IN  /\ ring' = [ring EXCEPT ![e] = r]
           /\ pending' = [pending EXCEPT
                 ![e].first = IF todo[e] = p.count THEN ring[e].write_index ELSE @,
                 ![e].last  = IF last THEN ring[e].write_index ELSE @,
                 ![e].next  = IF last THEN r.write_index ELSE @,
                 ![e].next_cycle = IF last THEN r.cycle_bit ELSE @]
           /\ ctl' = IF last THEN [ctl EXCEPT ![e] = Doorbell(@)] ELSE ctl
    /\ todo' = [todo EXCEPT ![e] = @ - 1]
    /\ UNCHANGED <<control, ep0, events, call, moved, abandoned>>

-----------------------------------------------------------------------------
(* The controller                                                          *)

Post(ev) == events' = Append(events, ev)

\* It executes the TRB at its dequeue pointer: all of it; less, which ends the
\* transfer (the TRBs left are skipped, the last one still reports); or it
\* fails and halts the endpoint.
ExecuteTrb(e) ==
    LET c == ctl[e]
        t == ring[e].buf[c.deq]
        Advance(skip) == ctl' = [ctl EXCEPT ![e].deq = @ + 1, ![e].skip = skip]
    IN  /\ c.state = "running" /\ c.deq # LinkSlot /\ Owned(ring[e], c)
        /\ \/ /\ ~c.skip
              /\ moved' = [moved EXCEPT ![e] = @ + TrbLen]
              /\ Advance(FALSE)
              /\ IF t.last THEN Post(TransferEvent(e, c.deq, "Success", 0)) ELSE UNCHANGED events
           \/ /\ ~c.skip /\ e \in InEndpoints
              /\ \E left \in 1 .. TrbLen :
                    /\ moved' = [moved EXCEPT ![e] = @ + TrbLen - left]
                    /\ Advance(~t.last)
                    /\ Post(TransferEvent(e, c.deq, "Short", left))
           \/ /\ c.skip
              /\ Advance(~t.last)
              /\ IF t.last
                 THEN \E code \in {"Success", "Short"}, left \in 0 .. TrbLen :
                         Post(TransferEvent(e, c.deq, code, left))
                 ELSE UNCHANGED events
              /\ UNCHANGED moved
           \/ /\ ~c.skip
              /\ ctl' = [ctl EXCEPT ![e].state = "halted"]
              /\ Post(TransferEvent(e, c.deq, "Error", 0))
              /\ UNCHANGED moved
        /\ UNCHANGED <<ring, pending, todo, control, ep0, call, abandoned>>

FollowLink(e) ==
    /\ ctl[e].state = "running" /\ ctl[e].deq = LinkSlot /\ Owned(ring[e], ctl[e])
    /\ ctl' = [ctl EXCEPT ![e] = Linked(@)]
    /\ UNCHANGED <<ring, pending, todo, control, ep0, events, call, moved, abandoned>>

\* It finds no TRB of its own and waits for the next doorbell.
RunDry(e) ==
    /\ ctl[e].state = "running" /\ ~Owned(ring[e], ctl[e])
    /\ ctl' = [ctl EXCEPT ![e].state = "idle"]
    /\ UNCHANGED <<ring, pending, todo, control, ep0, events, call, moved, abandoned>>

\* It serves the endpoint's outstanding command, or fails it.
ExecuteCommand(e) ==
    /\ ctl[e].cmd # "none"
    /\ \E ok \in BOOLEAN :
          /\ Post(CompletionEvent(ctl[e].cmd, e, ok))
          /\ ctl' = [ctl EXCEPT ![e] =
                CASE ok /\ @.cmd = "ResetEndpoint" ->
                        [@ EXCEPT !.cmd = "none", !.state = "stopped"]
                  [] ok /\ @.cmd = "SetDequeuePointer" ->
                        [@ EXCEPT !.cmd = "none", !.skip = FALSE,
                                  !.deq = pending[e].next, !.ccs = pending[e].next_cycle]
                  [] OTHER -> [@ EXCEPT !.cmd = "none"]]
    /\ UNCHANGED <<ring, pending, todo, control, ep0, call, moved, abandoned>>

\* The device answers the oldest control request; or it fails, which halts the
\* pipe for good: no code resets it.  The driver hears of the failure unless it is
\* in a stage whose TRB is not in setup_stage_map_.
ExecuteControl ==
    /\ control # <<>> /\ ~ep0
    /\ \/ \E ok \in BOOLEAN :
             /\ Post([kind |-> "control", req |-> Head(control).req,
                      ep |-> Head(control).ep, ok |-> ok])
             /\ control' = Tail(control)
             /\ ep0' = ~ok
       \/ ep0' = TRUE /\ UNCHANGED <<control, events>>
    /\ UNCHANGED <<ring, pending, todo, ctl, call, moved, abandoned>>

ControllerStep ==
    \/ \E e \in Endpoints : ExecuteTrb(e) \/ FollowLink(e) \/ RunDry(e) \/ ExecuteCommand(e)
    \/ ExecuteControl

-----------------------------------------------------------------------------
(* The event handler                                                       *)

Event(kind) == DriverIdle /\ events # <<>> /\ Head(events).kind = kind

Call(fn, e, ok, item, len) == call' = CallOf(fn, e, ok, item, len)

\* BulkTransferFromEvent: the TRB is one of the pending transfer's.
Matches(e, i) == pending[e].active /\ TrbIndex(pending[e].first, i) < pending[e].count

\* Mutant of the end: a short packet ends the transfer before its last TRB.
FinalOnShort(e, ev) == ev.trb = pending[e].last \/ ev.code = "Short"

\* The event ends the transfer.
Final(e, ev) == ev.trb = pending[e].last

\* Mutant of the length: the TRB of the event is taken for the last one.
TransferredLengthOfLast(e, i, residual) == TrbLen * pending[e].count - residual

\* BulkTransferredLength; no controller reports more bytes left than the TRB has,
\* so CompleteBulkFailure is not reached.
TransferredLength(e, i, residual) ==
    TrbLen * TrbIndex(pending[e].first, i) + TrbLen - residual

SendCommand(e, cmd) ==
    /\ pending' = [pending EXCEPT ![e].phase = cmd]
    /\ ctl' = [ctl EXCEPT ![e].cmd = cmd]

\* The driver forgets the transfer while its TRBs are still in the ring.
Abandon(e) ==
    /\ pending' = [pending EXCEPT ![e] = NoPending]
    /\ abandoned' = [abandoned EXCEPT ![e] = TRUE]
    /\ UNCHANGED ctl

\* OnTransferEventReceived, for a bulk endpoint: an event of no pending TRB is
\* dropped, a failure starts the recovery once, a short packet before the last
\* TRB is remembered, and the last TRB completes the transfer.
OnTransferEvent ==
    /\ Event("transfer")
    /\ LET ev == Head(events)
           e  == ev.ep
           p  == pending[e]
           len == IF p.short_seen THEN p.short_len
                  ELSE TransferredLength(e, ev.trb, ev.residual)
       IN  \/ /\ \/ ~Matches(e, ev.trb)
                 \/ ev.code = "Error" /\ p.phase # "None"
                 \/ ev.code = "Short" /\ ~Final(e, ev) /\ p.short_seen
                 \/ ev.code = "Success" /\ ~Final(e, ev)
              /\ UNCHANGED <<pending, ctl, call>>
           \/ /\ Matches(e, ev.trb) /\ ev.code = "Error" /\ p.phase = "None"
              /\ SendCommand(e, "ResetEndpoint")
              /\ UNCHANGED call
           \/ /\ Matches(e, ev.trb) /\ ev.code = "Short" /\ ~Final(e, ev) /\ ~p.short_seen
              /\ pending' = [pending EXCEPT ![e].short_seen = TRUE, ![e].short_len = len]
              /\ UNCHANGED <<ctl, call>>
           \/ /\ Matches(e, ev.trb) /\ ev.code # "Error" /\ Final(e, ev)
              /\ pending' = [pending EXCEPT ![e] = NoPending]
              /\ Call("Completed", e, TRUE, p.item, len)
              /\ UNCHANGED ctl
    /\ events' = Tail(events)
    /\ UNCHANGED <<ring, todo, control, ep0, moved, abandoned>>

\* OnEndpointResetCompleted: the class driver is told of the failed transfer,
\* and has to clear the halt at the device.
OnEndpointResetCompleted ==
    /\ Event("ResetEndpoint")
    /\ LET e == Head(events).ep
       IN  IF pending[e].phase # "ResetEndpoint"
           THEN UNCHANGED <<pending, ctl, abandoned, call>>
           ELSE IF ~Head(events).ok
           THEN Abandon(e) /\ Call("Recovered", e, FALSE, NoItem, 0)
           ELSE /\ pending' = [pending EXCEPT ![e].phase = "ClearEndpointHalt"]
                /\ Call("ResetDone", e, TRUE, NoItem, 0)
                /\ UNCHANGED <<ctl, abandoned>>
    /\ events' = Tail(events)
    /\ UNCHANGED <<ring, todo, control, ep0, moved>>

\* OnTransferEventReceived, for the default pipe: a cleared halt that a recovery
\* waits for is reported as such.
OnControlEvent ==
    /\ Event("control")
    /\ LET ev == Head(events)
           recovers == ev.req = "ClearHalt" /\ pending[ev.ep].phase = "ClearEndpointHalt"
       IN  Call(IF recovers THEN "ClearHaltDone" ELSE "ControlDone",
                ev.ep, ev.ok, ev.req, 0)
    /\ events' = Tail(events)
    /\ UNCHANGED <<ring, pending, todo, hwVars, moved, abandoned>>

\* OnTTBufferClearCompleted
OnTTBufferClearCompleted ==
    /\ Event("ClearTTBuffer")
    /\ LET e == Head(events).ep
       IN  IF pending[e].phase # "ClearTTBuffer"
           THEN UNCHANGED <<pending, ctl, abandoned, call>>
           ELSE IF ~Head(events).ok
           THEN Abandon(e) /\ Call("Recovered", e, FALSE, NoItem, 0)
           ELSE SendCommand(e, "SetDequeuePointer") /\ UNCHANGED <<abandoned, call>>
    /\ events' = Tail(events)
    /\ UNCHANGED <<ring, todo, control, ep0, moved>>

\* OnTransferRingDequeueSet
OnTransferRingDequeueSet ==
    /\ Event("SetDequeuePointer")
    /\ LET e  == Head(events).ep
           ok == Head(events).ok
       IN  IF pending[e].phase # "SetDequeuePointer"
           THEN UNCHANGED <<pending, ctl, abandoned, call>>
           ELSE /\ IF ok
                   THEN /\ pending' = [pending EXCEPT ![e] = NoPending]
                        /\ UNCHANGED <<ctl, abandoned>>
                   ELSE Abandon(e)
                /\ Call("Recovered", e, ok, NoItem, 0)
    /\ events' = Tail(events)
    /\ UNCHANGED <<ring, todo, control, ep0, moved>>

\* Mutant of the condition: a stalled request goes on too.
GoesOnRegardless == call.fn = "ClearHaltDone"

\* A recovery goes on from a cleared halt only.
GoesOn == call.fn = "ClearHaltDone" /\ call.ok /\ ~call.err

\* What the handler does once the class driver has returned
\* (BeginTTBufferClear, QueueBulkDequeuePointer).  The hub of the transaction
\* translator may be gone or refuse the request.
Return ==
    LET e == call.ep IN
    /\ call # NoCall /\ call.done /\ \A f \in Endpoints : todo[f] = 0
    /\ \/ /\ \/ call.fn \in {"Completed", "Recovered", "ControlDone"}
             \/ call.fn = "ResetDone" /\ ~call.err
          /\ call' = NoCall
          /\ UNCHANGED <<pending, ctl, abandoned>>
       \/ /\ \/ call.fn = "ResetDone" /\ call.err
             \/ call.fn = "ClearHaltDone" /\ ~GoesOn
          /\ Abandon(e)
          /\ call' = NoCall
       \/ /\ GoesOn
          /\ \/ /\ SendCommand(e, IF BehindTT THEN "ClearTTBuffer" ELSE "SetDequeuePointer")
                /\ call' = NoCall
                /\ UNCHANGED abandoned
             \/ /\ BehindTT
                /\ Abandon(e)
                /\ Call("Recovered", e, FALSE, NoItem, 0)
    /\ UNCHANGED <<ring, todo, control, ep0, events, moved>>

HandlerStep ==
    \/ OnTransferEvent \/ OnEndpointResetCompleted \/ OnControlEvent
    \/ OnTTBufferClearCompleted \/ OnTransferRingDequeueSet \/ Return

-----------------------------------------------------------------------------
(* A class driver that submits and sends anything, between two calls or     *)
(* while it is called                                                      *)

CanSubmit == ~call.done /\ \A e \in Endpoints : todo[e] = 0

Submit(e, item, n) ==
    /\ CanSubmit /\ Accepts(e, n)
    /\ QueueBulkTransfer(e, item, n)
    /\ UNCHANGED call

\* The control events in an event ring s, by their places, and the i-th place.
Places(s) == {k \in DOMAIN s : s[k].kind = "control"}
Nth(S, i) == CHOOSE k \in S : Cardinality({j \in S : j <= k}) = i

\* The requests they answer.
Asked(s) ==
    [i \in 1 .. Cardinality(Places(s)) |->
        [req |-> s[Nth(Places(s), i)].req, ep |-> s[Nth(Places(s), i)].ep]]

\* Control requests whose completion the driver has not seen, oldest first.
Controls == Asked(events) \o control

\* One that no recovery waits for is like any other control request.
SendClearHalt(e) ==
    /\ CanSubmit /\ Len(Controls) < MaxControl
    /\ control' = Append(control, [req |-> "ClearHalt", ep |-> e])
    /\ UNCHANGED <<ring, pending, todo, ctl, ep0, events, call, moved, abandoned>>

Answer(err) ==
    /\ call # NoCall /\ ~call.done /\ \A e \in Endpoints : todo[e] = 0
    /\ call' = [call EXCEPT !.done = TRUE, !.err = err]
    /\ UNCHANGED <<ring, pending, todo, hwVars, events, moved, abandoned>>

TransportStep == ControllerStep \/ HandlerStep \/ \E e \in Endpoints : PushTrb(e)

BulkNext ==
    \/ TransportStep
    \/ \E e \in Endpoints, item \in Items, n \in 1 .. MaxTrbs : Submit(e, item, n)
    \/ \E e \in Endpoints : SendClearHalt(e)
    \/ \E err \in BOOLEAN : Answer(err)

BulkSpec == BulkInit /\ [][BulkNext]_bulkVars

\* The controller executes what it owns and the commands it is given, a pipe that
\* is not halted gets its requests answered, events are handled, and a class driver
\* returns from its callbacks.  Nobody has to submit a transfer, and a hub need not
\* answer: ClearTTBuffer is a request on its default pipe.
BulkFairness ==
    /\ \A e \in Endpoints :
          /\ WF_bulkVars(PushTrb(e))
          /\ WF_bulkVars(ExecuteTrb(e) \/ FollowLink(e) \/ RunDry(e))
          /\ WF_bulkVars(ctl[e].cmd # "ClearTTBuffer" /\ ExecuteCommand(e))
    /\ WF_bulkVars(ExecuteControl)
    /\ WF_bulkVars(HandlerStep)
    /\ WF_bulkVars(\E err \in BOOLEAN : Answer(err))

FairBulkSpec == BulkSpec /\ BulkFairness

-----------------------------------------------------------------------------
(* Properties                                                              *)

PendingType ==
    [active : BOOLEAN, item : Items \cup {NoItem}, first : Slots, last : Slots,
     count : 0 .. UsableSize, next : Slots, next_cycle : BOOLEAN,
     short_seen : BOOLEAN, short_len : Int, phase : Phases]

ContextType ==
    [deq : 0 .. LinkSlot, ccs : BOOLEAN,
     state : {"idle", "running", "halted", "stopped"}, skip : BOOLEAN,
     cmd : {"none", "ResetEndpoint", "ClearTTBuffer", "SetDequeuePointer"}]

BulkTypeOK ==
    /\ ring \in [Endpoints -> RingType]
    /\ pending \in [Endpoints -> PendingType]
    /\ todo \in [Endpoints -> 0 .. UsableSize]
    /\ ctl \in [Endpoints -> ContextType]
    /\ moved \in [Endpoints -> Nat]
    /\ abandoned \in [Endpoints -> BOOLEAN]
    /\ ep0 \in BOOLEAN

\* The blocks the controller has still to take.
Queued == [e \in Endpoints |-> IF abandoned[e] THEN <<>> ELSE Contents(ring[e], ctl[e])]

Queue == INSTANCE TransferQueue WITH
    Capacity <- UsableSize, queue <- Queued, broken <- abandoned

\* Cycle bits, the Link TRB and the one-transfer rule of QueueBulkTransfer make
\* of the ring, which nobody checks for room on Push, a bounded queue of one
\* transfer: the controller takes every TRB once, in order, never a stale one,
\* and the driver never overwrites one that is not taken; until a recovery fails.
ImplementsQueue == Queue!Spec

\* The controller reads and writes only the buffer of the transfer the driver
\* tracks: a class driver may reuse a buffer as soon as its transfer is over,
\* unless a recovery failed before.
OnlyPendingExecuted ==
    \A e \in Endpoints : ~abandoned[e] =>
        \A k \in DOMAIN Contents(ring[e], ctl[e]) :
            pending[e].active /\ Contents(ring[e], ctl[e])[k].item = pending[e].item

\* A transfer completes with the number of bytes the device moved, also when a
\* short packet ended it before its last TRB, whatever the last TRB reports.
LengthExact ==
    call.fn = "Completed" /\ ~abandoned[call.ep] /\ ~pending[call.ep].active
        => call.len = moved[call.ep]

\* A transfer as its class driver sees it: p, with n TRBs still to be pushed to the
\* ring r and the controller at c.
ViewOf(r, p, n, c, a) ==
    IF ~p.active THEN [phase |-> "free", item |-> NoItem, size |-> 0, served |-> FALSE]
    ELSE [phase |-> CASE p.phase = "None" -> "active"
                      [] p.phase = "ResetEndpoint" -> "reset"
                      [] p.phase = "ClearEndpointHalt" -> "clear"
                      [] OTHER -> "resume",
          item |-> p.item, size |-> TrbLen * p.count,
          served |-> p.phase = "None" /\ n = 0 /\ ~a /\ Contents(r, c) = <<>>]

Transfers == [e \in Endpoints |-> ViewOf(ring[e], pending[e], todo[e], ctl[e], abandoned[e])]

\* The default pipe is halted, and all completions before that are handled.
Halted == ep0 /\ Places(events) = {}

Pipe == INSTANCE BulkPipe WITH
    Sizes    <- {n * TrbLen : n \in 1 .. MaxTrbs},
    Requests <- {"ClearHalt"},
    broken   <- abandoned,
    control  <- Controls,
    halted   <- Halted,
    xfer     <- Transfers

\* The bookkeeping of a transfer, the matching of events to it and the order of
\* the recovery commands keep the promise made to class drivers (BulkPipe),
\* whatever late events and failures occur, and whatever the class driver does.
ImplementsPipe == Pipe!PipeSpec

\* The recovery waits for a cleared halt nobody asked the device for.
Neglected(e) ==
    /\ pending[e].phase = "ClearEndpointHalt" /\ DriverIdle
    /\ \A k \in DOMAIN Controls : Controls[k] # [req |-> "ClearHalt", ep |-> e]

\* The request that is to clear the halt is on the default pipe, which is halted
\* itself: no code resets it.
Unanswered(e) ==
    /\ pending[e].phase = "ClearEndpointHalt" /\ ep0
    /\ \E k \in DOMAIN control : control[k] = [req |-> "ClearHalt", ep |-> e]

\* The recovery waits for the hub of the transaction translator, which may be gone
\* or have a halted default pipe of its own.
AwaitsHub(e) == pending[e].phase = "ClearTTBuffer"

\* A transfer is completed or recovered from, or its recovery fails, or it waits
\* for a class driver that has not cleared the halt, for the hub, or for a request on
\* a default pipe that an earlier request has halted.  In no other way, of events,
\* commands and rings, does it stay pending, which makes the endpoint answer Full for
\* ever.  Not so a transfer of UsableSize TRBs, which QueueBulkTransfer accepts: its
\* last Push rewrites a Link TRB the controller may not have followed, with the cycle
\* bit it does not wait for.
TransferSettles ==
    \A e \in Endpoints :
        pending[e].active /\ pending[e].count < UsableSize /\ ~abandoned[e]
            ~> ~pending[e].active \/ abandoned[e]
                 \/ Neglected(e) \/ Unanswered(e) \/ AwaitsHub(e)

=============================================================================
