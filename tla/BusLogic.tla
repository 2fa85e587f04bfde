------------------------------- MODULE BusLogic -------------------------------
(***************************************************************************)
(* SCSI::BusLogic (lib/cpp/Device/Storage/SCSI/BusLogic.cpp): the driver   *)
(* of a BusLogic MultiMaster adapter, with the adapter, its interrupt, the *)
(* clients and the clock.                                                  *)
(*                                                                         *)
(* Driver and adapter share two arrays of mailboxes in memory.  A command  *)
(* is named by the bus address of its buffer, which another request gets   *)
(* once the buffer is released.  OnInterrupt and the driver's accesses to  *)
(* the interrupt register exclude each other (LockInterrupt), so that each *)
(* is one step.                                                            *)
(***************************************************************************)
EXTENDS ScsiCommandQueue

CONSTANTS
    Mailboxes,      \* number of outgoing and of incoming mailboxes
    Addresses,      \* bus addresses AllocateDma returns
    NoAddress,      \* contents of an unused mailbox
    MaxLatency,     \* the host calls Service at least this often (milliseconds)
    InterruptModes, \* arguments of SetInterrupts: a polling host never passes TRUE
    HotToggle,      \* the host calls SetInterrupts with commands in flight
    StrayReplies,   \* the adapter may give answers that make no sense
    Forgetful       \* requests whose client may drop its handle

ASSUME BusLogicAssumption ==
    /\ Mailboxes \in Nat \ {0}
    /\ NoAddress \notin Addresses
    /\ MaxLatency \in Nat
    /\ InterruptModes \subseteq BOOLEAN
    /\ HotToggle \in BOOLEAN /\ StrayReplies \in BOOLEAN
    /\ Forgetful \subseteq Requests

VARIABLES
    pc,                \* where the host thread is
    caller,            \* the method StartQueued returns to
    cursor,            \* index of the loop in progress
    faulted,
    interrupts_enabled,
    restore,           \* Recover's restore_interrupts
    active_count,
    mailbox_count,
    count,             \* Recover's copy of mailbox_count
    next_outbox_index,
    address,           \* CommandRequest::dma.device_address
    outboxes,          \* address in each outgoing mailbox, NoAddress when free
    inboxes,           \* contents of each incoming mailbox
    working,           \* addresses the adapter has taken from the outboxes
    int_reg,           \* interrupt flag of the adapter
    irq_on,            \* the adapter raises the interrupt line
    pending_interrupt, \* flag saved by OnInterrupt
    wakeup,            \* OnInterrupt returned true and Service is due
    lag                \* milliseconds since the last Service began

hostVars == <<pc, caller, cursor>>
driverVars == <<faulted, interrupts_enabled, restore, active_count, mailbox_count, count,
                next_outbox_index>>
boxVars == <<outboxes, inboxes, working>>
irqVars == <<int_reg, irq_on, pending_interrupt>>
bvars == <<hostVars, driverVars, address, boxVars, irqVars, wakeup, lag>>
vars  == <<qvars, svars, bvars>>

Boxes == 1 .. Mailboxes
Free  == [addr |-> NoAddress, outcome |-> "free", req |-> NoObject]
Stray == [addr |-> NoAddress, outcome |-> "error", req |-> NoObject]

\* The two arrays when they are all zero.
FreeOutboxes == [i \in Boxes |-> NoAddress]
FreeInboxes  == [i \in Boxes |-> Free]

IsReady == ~faulted /\ mailbox_count # 0

\* Addresses AllocateDma may return.
FreeAddresses == {a \in Addresses : ~\E r \in Requests : dma[r] = "held" /\ address[r] = a}

-----------------------------------------------------------------------------
(* SubmitScsi and StartQueued                                              *)

SubmitScsi(r, n, op, t, o) ==
    /\ pc = "idle" /\ IsReady
    /\ Submit(r, n, op, t, o)
    /\ \E a \in FreeAddresses : address' = [address EXCEPT ![r] = a]
    /\ pc' = "enqueue" /\ caller' = "submit"
    /\ UNCHANGED <<cursor, driverVars, boxVars, irqVars, wakeup, lag>>

\* Enqueue returned no request: only Prune follows.
SubmitRejected(r, n, o, point) ==
    /\ pc = "idle" /\ IsReady
    /\ SubmitFails(r, n, o, point)
    /\ pc' = "prune" /\ caller' = "submit"
    /\ UNCHANGED <<cursor, driverVars, address, boxVars, irqVars, wakeup, lag>>

FinishEnqueue ==
    /\ pc = "enqueue"
    /\ AnswerFromCache \/ InvalidateSense
    /\ pc' = "expire"
    /\ UNCHANGED <<caller, cursor, driverVars, address, boxVars, irqVars, wakeup, lag>>

StartQueuedBegin ==
    /\ pc = "expire"
    /\ ExpireQueued /\ UNCHANGED svars
    /\ pc' = "start" /\ cursor' = 0
    /\ UNCHANGED <<caller, driverVars, address, boxVars, irqVars, wakeup, lag>>

\* The request the loop comes to next, of those it does not skip.
NextStartable == First({r \in Queue : state[r] = "Queued" /\ CanStart(r)}, cursor)

\* Mutant of the bound on started requests: one too many.
HasMailboxLoose == active_count <= mailbox_count

HasMailbox == active_count < mailbox_count

\* The first free outbox from next_outbox_index on, cyclically.
OutboxAt(d) == ((next_outbox_index - 1 + d) % mailbox_count) + 1
FreeOutbox(i) ==
    \E d \in 0 .. mailbox_count - 1 :
        /\ i = OutboxAt(d)
        /\ outboxes[i] = NoAddress
        /\ \A e \in 0 .. d - 1 : outboxes[OutboxAt(e)] # NoAddress

\* One iteration: the command block, Start, the outbox and the doorbell.
StartOne(r) ==
    /\ pc = "start"
    /\ r \in NextStartable
    /\ HasMailbox
    /\ \E i \in Boxes :
         /\ FreeOutbox(i)
         /\ \/ /\ StartCommand(r)
               /\ active_count' = active_count + 1
               /\ outboxes' = [outboxes EXCEPT ![i] = address[r]]
               /\ next_outbox_index' = (i % mailbox_count) + 1
            \/ /\ StartCommandExpired(r)
               /\ UNCHANGED <<active_count, outboxes, next_outbox_index>>
    /\ cursor' = rank[r]
    /\ UNCHANGED <<pc, caller, faulted, interrupts_enabled, restore, mailbox_count, count,
                   address, inboxes, working, irqVars, wakeup, lag>>

StartQueuedEnd ==
    /\ pc = "start"
    /\ NextStartable = {} \/ ~HasMailbox \/ ~\E i \in Boxes : FreeOutbox(i)
    /\ pc' = "prune"
    /\ UNCHANGED <<qvars, svars, caller, cursor, driverVars, address, boxVars, irqVars,
                   wakeup, lag>>

Return ==
    /\ pc = "prune"
    /\ PruneQueue
    /\ pc' = "idle" /\ caller' = "none" /\ cursor' = 0
    /\ UNCHANGED <<driverVars, address, boxVars, irqVars, wakeup, lag>>

-----------------------------------------------------------------------------
(* Administrative commands and interrupts                                  *)

\* ReadInterrupt sees the register and what OnInterrupt saved.
InterruptSeen == int_reg \/ pending_interrupt

\* InterruptReset.
Acknowledge == int_reg' = FALSE /\ pending_interrupt' = FALSE

\* SetInterrupts: the command that switches the adapter's interrupts acknowledges
\* whatever the adapter has raised meanwhile; it may fail.
ConfigureInterrupts(enabled) ==
    \/ /\ IsReady
       /\ Acknowledge
       /\ irq_on' = enabled
       /\ interrupts_enabled' = enabled
    \/ /\ IsReady
       /\ Acknowledge
       /\ interrupts_enabled' = FALSE
       /\ irq_on' \in {irq_on, enabled}
    \/ /\ ~IsReady
       /\ interrupts_enabled' = FALSE
       /\ UNCHANGED irqVars

SetInterrupts(enabled) ==
    /\ pc = "idle"
    /\ HotToggle \/ active_count = 0
    /\ ConfigureInterrupts(enabled)
    /\ UNCHANGED <<qvars, svars, hostVars, faulted, restore, active_count, mailbox_count,
                   count, next_outbox_index, address, boxVars, wakeup, lag>>

OnInterrupt ==
    /\ int_reg /\ irq_on
    /\ int_reg' = FALSE
    /\ pending_interrupt' = TRUE
    /\ wakeup' = TRUE
    /\ UNCHANGED <<qvars, svars, hostVars, driverVars, address, boxVars, irq_on, lag>>

-----------------------------------------------------------------------------
(* Recover                                                                 *)

\* Recover: remembers the mode and switches interrupts off.
EnterRecover ==
    /\ restore' = interrupts_enabled
    /\ ConfigureInterrupts(FALSE)
    /\ pc' = "reset" /\ caller' = "none" /\ cursor' = 0

Recover ==
    /\ pc = "idle"
    /\ EnterRecover
    /\ UNCHANGED <<qvars, svars, faulted, active_count, mailbox_count, count,
                   next_outbox_index, address, boxVars, wakeup, lag>>

\* Mutant of HardwareReset: does not wait until the adapter has stopped.
ResetConfirmedEarly ==
    /\ pc = "reset"
    /\ int_reg' = FALSE /\ irq_on' = TRUE
    /\ pc' = "failall"
    /\ UNCHANGED <<qvars, svars, caller, cursor, driverVars, address, boxVars,
                   pending_interrupt, wakeup, lag>>

\* HardwareReset confirmed: the adapter has forgotten its commands, and its
\* interrupts are on again.
ResetConfirmed ==
    /\ pc = "reset"
    /\ HardwareStop /\ UNCHANGED svars
    /\ working' = {}
    /\ int_reg' = FALSE /\ irq_on' = TRUE
    /\ pc' = "failall"
    /\ UNCHANGED <<caller, cursor, driverVars, address, outboxes, inboxes,
                   pending_interrupt, wakeup, lag>>

\* HardwareReset gave up: DisableAfterCommandFailure and FailAll(false).
ResetFailed ==
    /\ pc = "reset"
    /\ faulted' = TRUE
    /\ Acknowledge
    /\ FailQueue(FALSE)
    /\ restore' = FALSE
    /\ pc' = "idle"
    /\ UNCHANGED <<caller, cursor, interrupts_enabled, active_count, mailbox_count, count,
                   next_outbox_index, address, boxVars, irq_on, wakeup, lag>>

\* Mutant of the step after a confirmed reset: active_count keeps its value.
FailOutstandingCounted ==
    /\ pc = "failall"
    /\ FailQueue(TRUE)
    /\ count' = mailbox_count
    /\ mailbox_count' = 0
    /\ faulted' = FALSE
    /\ pc' = "init"
    /\ UNCHANGED <<caller, cursor, interrupts_enabled, restore, active_count,
                   next_outbox_index, address, boxVars, irqVars, wakeup, lag>>

FailOutstanding ==
    /\ pc = "failall"
    /\ active_count' = 0
    /\ FailQueue(TRUE)
    /\ count' = mailbox_count
    /\ mailbox_count' = 0
    /\ faulted' = FALSE
    /\ pc' = "init"
    /\ UNCHANGED <<caller, cursor, interrupts_enabled, restore, next_outbox_index, address,
                   boxVars, irqVars, wakeup, lag>>

\* Mutant of InitializeMailbox: the mailboxes keep their contents.
ClearMailboxesKept ==
    /\ mailbox_count' = count
    /\ next_outbox_index' = 1
    /\ UNCHANGED <<outboxes, inboxes>>

\* InitializeMailbox(count): nothing to do for the count the driver already has.
ClearMailboxes ==
    /\ mailbox_count' = count
    /\ \/ /\ count = mailbox_count
          /\ UNCHANGED <<outboxes, inboxes, next_outbox_index>>
       \/ /\ count # mailbox_count
          /\ outboxes' = FreeOutboxes /\ inboxes' = FreeInboxes
          /\ next_outbox_index' = 1

\* PreparePolling, InitializeMailbox and SetCcbFormat succeeded.
InitializeOk ==
    /\ pc = "init"
    /\ ClearMailboxes
    /\ Acknowledge /\ irq_on' = FALSE
    /\ count' = 0
    /\ pc' = "restore"
    /\ UNCHANGED <<qvars, svars, caller, cursor, faulted, interrupts_enabled, restore,
                   active_count, address, working, wakeup, lag>>

\* One of them failed: before the mailboxes were cleared, with the mailboxes cleared
\* and not accepted, or after that.
InitializeFailed ==
    /\ pc = "init"
    /\ \/ ClearMailboxes
       \/ /\ \/ outboxes' = FreeOutboxes /\ inboxes' = FreeInboxes
             \/ UNCHANGED <<outboxes, inboxes>>
          /\ UNCHANGED <<next_outbox_index, mailbox_count>>
    /\ faulted' = TRUE
    /\ Acknowledge
    /\ count' = 0 /\ restore' = FALSE
    /\ pc' = "idle"
    /\ UNCHANGED <<qvars, svars, caller, cursor, interrupts_enabled, active_count, address,
                   working, irq_on, wakeup, lag>>

RestoreInterrupts ==
    /\ pc = "restore"
    /\ ConfigureInterrupts(restore)
    /\ restore' = FALSE
    /\ pc' = "idle"
    /\ UNCHANGED <<qvars, svars, caller, cursor, faulted, active_count, mailbox_count,
                   count, next_outbox_index, address, boxVars, wakeup, lag>>

-----------------------------------------------------------------------------
(* Service                                                                 *)

ServiceBegin ==
    /\ pc = "idle"
    /\ lag' = 0 /\ wakeup' = FALSE
    /\ \/ ~IsReady /\ UNCHANGED hostVars
       \/ IsReady /\ pc' = "scan" /\ caller' = "service" /\ cursor' = 1
    /\ UNCHANGED <<qvars, svars, driverVars, address, boxVars, irqVars>>

\* The loop over the inboxes, one inbox at a time.
ScanSkip ==
    /\ pc = "scan" /\ cursor <= mailbox_count
    /\ inboxes[cursor].outcome = "free"
    /\ cursor' = cursor + 1
    /\ UNCHANGED <<qvars, svars, pc, caller, driverVars, address, boxVars, irqVars, wakeup,
                   lag>>

\* The active request an inbox's address stands for.
Match(m) == {r \in Queue : state[r] = "Active" /\ address[r] = m.addr}

ScanTake(r) ==
    /\ pc = "scan" /\ cursor <= mailbox_count
    /\ inboxes[cursor].outcome # "free" /\ r \in Match(inboxes[cursor])
    /\ CompleteCommand(r, inboxes[cursor].outcome)
    /\ inboxes' = [inboxes EXCEPT ![cursor] = Free]
    /\ active_count' = active_count - 1
    /\ cursor' = cursor + 1
    /\ UNCHANGED <<pc, caller, faulted, interrupts_enabled, restore, mailbox_count, count,
                   next_outbox_index, address, outboxes, working, irqVars, wakeup, lag>>

\* An answer to no active request, or one with an impossible residual.
ScanStray ==
    /\ pc = "scan" /\ cursor <= mailbox_count
    /\ inboxes[cursor].outcome # "free"
    /\ Match(inboxes[cursor]) = {} \/ StrayReplies
    /\ EnterRecover
    /\ UNCHANGED <<qvars, svars, faulted, active_count, mailbox_count, count,
                   next_outbox_index, address, boxVars, wakeup, lag>>

ScanDone ==
    /\ pc = "scan" /\ cursor > mailbox_count
    /\ pc' = "ack" /\ cursor' = 0
    /\ UNCHANGED <<qvars, svars, caller, driverVars, address, boxVars, irqVars, wakeup,
                   lag>>

\* ClearAdapterInterruptState: the test ...
AckTest ==
    /\ pc = "ack"
    /\ pc' = IF InterruptSeen THEN "ackreset" ELSE "rescan"
    /\ UNCHANGED <<qvars, svars, caller, cursor, driverVars, address, boxVars, irqVars,
                   wakeup, lag>>

\* ... and the acknowledgement.
AckReset ==
    /\ pc = "ackreset"
    /\ Acknowledge
    /\ pc' = "rescan"
    /\ UNCHANGED <<qvars, svars, caller, cursor, driverVars, address, boxVars, irq_on,
                   wakeup, lag>>

\* Mutant of the second look: omitted.
RescanOmitted ==
    /\ pc = "rescan"
    /\ pc' = "timeout" /\ cursor' = 0
    /\ UNCHANGED <<qvars, svars, caller, driverVars, address, boxVars, irqVars, wakeup,
                   lag>>

\* Mutant of the second look: looks again as long as there is nothing to find.
RescanSwapped ==
    /\ pc = "rescan"
    /\ IF \E i \in 1 .. mailbox_count : inboxes[i].outcome # "free"
       THEN pc' = "timeout" /\ cursor' = 0
       ELSE pc' = "scan" /\ cursor' = 1
    /\ UNCHANGED <<qvars, svars, caller, driverVars, address, boxVars, irqVars, wakeup,
                   lag>>

\* The second look, for an answer that raced the acknowledgement.
Rescan ==
    /\ pc = "rescan"
    /\ IF \E i \in 1 .. mailbox_count : inboxes[i].outcome # "free"
       THEN pc' = "scan" /\ cursor' = 1
       ELSE pc' = "timeout" /\ cursor' = 0
    /\ UNCHANGED <<qvars, svars, caller, driverVars, address, boxVars, irqVars, wakeup,
                   lag>>

\* HasExpired(true): a started request is late, the adapter is reset.
ServiceTimeout ==
    /\ pc = "timeout"
    /\ AnyExpired("Active")
    /\ EnterRecover
    /\ UNCHANGED <<qvars, svars, faulted, active_count, mailbox_count, count,
                   next_outbox_index, address, boxVars, wakeup, lag>>

ServiceExpireQueued ==
    /\ pc = "timeout"
    /\ ~AnyExpired("Active")
    /\ ExpireQueued /\ UNCHANGED svars
    /\ pc' = "sweep"
    /\ UNCHANGED <<caller, cursor, driverVars, address, boxVars, irqVars, wakeup, lag>>

ServicePrune ==
    /\ pc = "sweep"
    /\ PruneQueue
    /\ pc' = "expire"
    /\ UNCHANGED <<caller, cursor, driverVars, address, boxVars, irqVars, wakeup, lag>>

-----------------------------------------------------------------------------
(* Adapter, clients, clock                                                 *)

\* The adapter takes a command from an outbox.
TakeOutbox(i) ==
    /\ outboxes[i] # NoAddress
    /\ \E r \in device : address[r] = outboxes[i]
    /\ working' = working \cup {outboxes[i]}
    /\ outboxes' = [outboxes EXCEPT ![i] = NoAddress]
    /\ UNCHANGED <<qvars, svars, hostVars, driverVars, address, inboxes, irqVars, wakeup,
                   lag>>

\* The adapter has finished a command and fills a free inbox.
FillInbox(r, i, out) ==
    /\ r \in device /\ address[r] \in working
    /\ inboxes[i] = Free
    /\ out \in OutcomesOf(r)
    /\ HardwareDone(r) /\ UNCHANGED svars
    /\ working' = working \ {address[r]}
    /\ inboxes' = [inboxes EXCEPT ![i] = [addr |-> address[r], outcome |-> out, req |-> r]]
    /\ int_reg' = TRUE
    /\ UNCHANGED <<hostVars, driverVars, address, outboxes, irq_on, pending_interrupt,
                   wakeup, lag>>

FillStray(i) ==
    /\ StrayReplies /\ pc # "init"
    /\ inboxes[i] = Free
    /\ \A j \in Boxes : inboxes[j] # Stray
    /\ inboxes' = [inboxes EXCEPT ![i] = Stray]
    /\ int_reg' = TRUE
    /\ UNCHANGED <<qvars, svars, hostVars, driverVars, address, outboxes, working, irq_on,
                   pending_interrupt, wakeup, lag>>

ClientDrops(r) ==
    /\ r \in Forgetful /\ r # enqueued
    /\ DropHandle(r)
    /\ UNCHANGED bvars

\* Time passes; the host does not leave the driver alone for longer than
\* MaxLatency.
ClockTick ==
    /\ lag < MaxLatency
    /\ lag' = lag + 1
    /\ Tick
    /\ UNCHANGED <<svars, hostVars, driverVars, address, boxVars, irqVars, wakeup>>

-----------------------------------------------------------------------------
\* The state Initialize leaves: reset, polling, mailboxes set up.
Init ==
    /\ SInit
    /\ pc = "idle" /\ caller = "none" /\ cursor = 0
    /\ faulted = FALSE
    /\ interrupts_enabled = FALSE /\ restore = FALSE
    /\ active_count = 0 /\ mailbox_count = Mailboxes /\ count = 0
    /\ next_outbox_index = 1
    /\ address = [r \in Requests |-> NoAddress]
    /\ outboxes = FreeOutboxes /\ inboxes = FreeInboxes
    /\ working = {}
    /\ int_reg = FALSE /\ irq_on = FALSE /\ pending_interrupt = FALSE
    /\ wakeup = FALSE
    /\ lag = 0

\* What the host does next once it is inside a method.
HostContinue ==
    \/ FinishEnqueue
    \/ StartQueuedBegin
    \/ \E r \in Requests : StartOne(r)
    \/ StartQueuedEnd
    \/ Return
    \/ ResetConfirmed
    \/ ResetFailed
    \/ FailOutstanding
    \/ InitializeOk
    \/ InitializeFailed
    \/ RestoreInterrupts
    \/ ScanSkip
    \/ \E r \in Requests : ScanTake(r)
    \/ ScanStray
    \/ ScanDone
    \/ AckTest
    \/ AckReset
    \/ Rescan
    \/ ServiceTimeout
    \/ ServiceExpireQueued
    \/ ServicePrune

HostCall ==
    \/ \E r \in Requests, n \in Nexuses, op \in Opcodes, t \in TimeoutArgs, o \in Origins :
         SubmitScsi(r, n, op, t, o)
    \/ \E r \in Requests, n \in Nexuses, o \in Origins, p \in FailurePoints :
         SubmitRejected(r, n, o, p)
    \/ ServiceBegin
    \/ Recover
    \/ \E b \in InterruptModes : SetInterrupts(b)

Environment ==
    \/ OnInterrupt
    \/ \E i \in Boxes : TakeOutbox(i)
    \/ \E r \in Requests, i \in Boxes, out \in Outcomes : FillInbox(r, i, out)
    \/ \E i \in Boxes : FillStray(i)
    \/ \E r \in Requests : ClientDrops(r)
    \/ ClockTick

Next == HostContinue \/ HostCall \/ Environment

Spec == Init /\ [][Next]_vars

\* The host finishes the methods it enters, calls Service again and again, and
\* the clock runs; nothing is assumed of the adapter.
FairSpec ==
    /\ Spec
    /\ WF_vars(HostContinue)
    /\ WF_vars(ServiceBegin)
    /\ WF_vars(ClockTick)

-----------------------------------------------------------------------------
(* Properties                                                              *)

Active == {r \in Requests : state[r] = "Active"}
Answers == {i \in Boxes : inboxes[i].req # NoObject}

\* While the driver is ready its counter is the number of started requests.
ActiveCountExact ==
    IsReady /\ pc # "failall" => active_count = Cardinality(Active)

\* No started command waits for a mailbox: each started request is in exactly one
\* place - an outbox, the adapter or an inbox - so that an outbox is free whenever
\* StartQueued looks for one, and an inbox for every answer the adapter owes.
MailboxesSuffice ==
    IsReady /\ pc # "failall" =>
        /\ Cardinality({i \in Boxes : outboxes[i] # NoAddress}) + Cardinality(working)
             + Cardinality(Answers) = Cardinality(Active)
        /\ pc = "start" /\ HasMailbox => \E i \in Boxes : FreeOutbox(i)
        /\ Cardinality(device) + Cardinality(Answers) <= mailbox_count

\* An answer is credited to the request it belongs to, although addresses are
\* used again: the address in an inbox is that of the started request the adapter
\* has finished.
AnswersMatch ==
    IsReady /\ pc # "failall" =>
        \A i \in Answers :
            /\ inboxes[i].req \notin device
            /\ Match(inboxes[i]) = {inboxes[i].req}

\* With interrupts on, an answer is never forgotten: the interrupt is raised or
\* saved with Service due, or Service is running.  (Not when the host switches
\* interrupts with commands in flight: HotToggle.)
NoLostWakeup ==
    interrupts_enabled /\ IsReady /\ Answers # {} =>
        \/ int_reg /\ irq_on
        \/ wakeup
        \/ caller = "service"

\* The address of a buffer the adapter can still write to is not given to
\* another request.
AddressesDistinct ==
    \A r \in device, s \in Requests :
        dma[s] = "held" /\ address[s] = address[r] => s = r

\* Every submitted request is completed, whatever the adapter does: none stays
\* queued or started for ever (and a completed one stays completed, CompletedIsFinal).
EventuallyCompleted ==
    \A r \in Requests : []<>~IsPending(r)

=============================================================================
