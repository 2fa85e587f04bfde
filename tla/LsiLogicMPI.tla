----------------------------- MODULE LsiLogicMPI -----------------------------
(***************************************************************************)
(* SCSI::LsiLogicMPI (lib/cpp/Device/Storage/SCSI/LsiLogic-Para.cpp): the  *)
(* driver of an LSI Fusion-MPT adapter, with the adapter (IOC), the        *)
(* interrupt entry, the clients and the clock.                             *)
(*                                                                         *)
(* The host serializes SubmitAddressed, Service, Recover and SetInterrupts *)
(* (one thread of control, pc); each step of a method reads or writes one  *)
(* piece of state shared with the adapter, the interrupt entry or the      *)
(* clock, which run in between.  OnInterrupt runs on another CPU in two    *)
(* steps.  The state starts inside Initialize, whose body is that of       *)
(* Recover on an empty queue.                                              *)
(***************************************************************************)
EXTENDS ScsiCommandQueue

CONSTANTS
    GlobalCredits, \* IOCFacts: request credits of the adapter
    ReplyDepth,    \* IOCFacts: depth of the reply queue
    MaxContext,    \* largest message context, 0x1FFFFFFF in the code
    MaxLatency,    \* the host calls Service at least this often (milliseconds)
    InterruptModes,\* arguments of SetInterrupts: a polling host never passes TRUE
    AdapterFaults, \* failures of the adapter: "stray" replies, IOC "fault"
    Forgetful      \* requests whose client may drop its handle

\* The number of requests the driver has in flight at most.
Credits == IF GlobalCredits < ReplyDepth THEN GlobalCredits ELSE ReplyDepth

ASSUME LsiAssumption ==
    /\ GlobalCredits \in Nat \ {0}
    /\ ReplyDepth \in Nat \ {0}
    /\ MaxContext \in Nat
    /\ MaxContext >= Credits
    /\ MaxLatency \in Nat
    /\ InterruptModes \subseteq BOOLEAN
    /\ AdapterFaults \subseteq {"stray", "fault"}
    /\ Forgetful \subseteq Requests

VARIABLES
    pc,                 \* where the host thread is
    caller,             \* the method StartQueued returns to
    cursor,             \* rank of the last request StartQueued looked at
    ready, faulted,
    interrupts_enabled,
    restore,            \* Recover's restore_interrupts
    active_count,
    next_context,
    context,            \* CommandRequest::context
    ioc,                \* adapter state: "Reset", "Operational", "Fault"
    replies,            \* reply descriptors in the reply queue
    frames,             \* reply frames the adapter has to write to
    masked,             \* the reply interrupt is masked
    isr,                \* OnInterrupt: "out" or "in", past its test
    wakeup,             \* OnInterrupt returned true and Service is due
    lag                 \* milliseconds since the last Service began

driverVars == <<ready, faulted, interrupts_enabled, restore, active_count,
                next_context, context>>
iocVars  == <<ioc, replies, frames, masked>>
hostVars == <<pc, caller, cursor>>
irqVars  == <<isr, wakeup>>
lvars == <<hostVars, driverVars, iocVars, irqVars, lag>>
vars  == <<qvars, svars, lvars>>

IsReady == ready /\ ~faulted

-----------------------------------------------------------------------------
(* SubmitAddressed                                                         *)

SubmitAddressed(r, n, op, t, o) ==
    /\ pc = "idle" /\ IsReady
    /\ Submit(r, n, op, t, o)
    /\ pc' = "enqueue" /\ caller' = "submit"
    /\ UNCHANGED <<cursor, driverVars, iocVars, irqVars, lag>>

\* Enqueue returned no request: only Prune follows.
SubmitRejected(r, n, o, point) ==
    /\ pc = "idle" /\ IsReady
    /\ SubmitFails(r, n, o, point)
    /\ pc' = "prune" /\ caller' = "submit"
    /\ UNCHANGED <<cursor, driverVars, iocVars, irqVars, lag>>

FinishEnqueue ==
    /\ pc = "enqueue"
    /\ AnswerFromCache \/ InvalidateSense
    /\ pc' = "expire"
    /\ UNCHANGED <<caller, cursor, driverVars, iocVars, irqVars, lag>>

-----------------------------------------------------------------------------
(* StartQueued                                                             *)

StartQueuedBegin ==
    /\ pc = "expire"
    /\ ExpireQueued /\ UNCHANGED svars
    /\ pc' = "start" /\ cursor' = 0
    /\ UNCHANGED <<caller, driverVars, iocVars, irqVars, lag>>

\* Mutant of the loop: the queue is walked from its end.
NextStartableLast ==
    LET S == {r \in Queue : state[r] = "Queued" /\ CanStart(r)}
    IN  {r \in S : \A s \in S : rank[s] <= rank[r]}

\* The request the loop comes to next, of those it does not skip.
NextStartable == First({r \in Queue : state[r] = "Queued" /\ CanStart(r)}, cursor)

\* Mutant of the choice of a context: no test for one in use.
FreeContextUnchecked(c) == c = (next_context % MaxContext) + 1

\* The first context after next_context that no active request uses.
InUse(c) == \E r \in Queue : state[r] = "Active" /\ context[r] = c
FreeContext(c) ==
    \E d \in 0 .. MaxContext - 1 :
        /\ c = ((next_context + d) % MaxContext) + 1
        /\ ~InUse(c)
        /\ \A e \in 0 .. d - 1 : InUse(((next_context + e) % MaxContext) + 1)

HasCredit == active_count < Credits

\* One iteration: a context, the frame, Start, and the request queue register.
StartOne(r) ==
    /\ pc = "start"
    /\ r \in NextStartable
    /\ HasCredit
    /\ \E c \in 1 .. MaxContext :
         /\ FreeContext(c)
         /\ next_context' = c
         /\ context' = [context EXCEPT ![r] = c]
    /\ \/ StartCommand(r) /\ active_count' = active_count + 1
       \/ StartCommandExpired(r) /\ UNCHANGED active_count
    /\ cursor' = rank[r]
    /\ UNCHANGED <<pc, caller, ready, faulted, interrupts_enabled, restore, iocVars,
                   irqVars, lag>>

StartQueuedEnd ==
    /\ pc = "start"
    /\ NextStartable = {} \/ ~HasCredit
    /\ pc' = "prune"
    /\ UNCHANGED <<qvars, svars, caller, cursor, driverVars, iocVars, irqVars, lag>>

\* Mutant of the end of Service: the reply interrupt stays masked.
ReturnMasked ==
    /\ pc = "prune"
    /\ PruneQueue
    /\ pc' = "idle" /\ caller' = "none" /\ cursor' = 0
    /\ UNCHANGED <<driverVars, iocVars, irqVars, lag>>

\* The caller's last Prune; Service then unmasks the reply interrupt.
Return ==
    /\ pc = "prune"
    /\ PruneQueue
    /\ masked' = IF caller = "service" /\ interrupts_enabled THEN FALSE ELSE masked
    /\ pc' = "idle" /\ caller' = "none" /\ cursor' = 0
    /\ UNCHANGED <<driverVars, ioc, replies, frames, irqVars, lag>>

-----------------------------------------------------------------------------
(* Recover and initialization                                              *)

\* Recover up to Reset: interrupts off and masked.
EnterRecover ==
    /\ restore' = interrupts_enabled
    /\ interrupts_enabled' = FALSE
    /\ masked' = TRUE
    /\ pc' = "reset" /\ caller' = "none"

\* Recover called by the host.
Recover ==
    /\ pc = "idle"
    /\ EnterRecover
    /\ UNCHANGED <<qvars, svars, cursor, ready, faulted, active_count,
                   next_context, context, ioc, replies, frames, irqVars, lag>>

\* Reset confirmed: the adapter has dropped its requests and replies.
ResetConfirmed ==
    /\ pc = "reset"
    /\ HardwareStop /\ UNCHANGED svars
    /\ ioc' = "Reset" /\ replies' = {} /\ frames' = 0
    /\ pc' = "failall"
    /\ UNCHANGED <<masked, caller, cursor, driverVars, irqVars, lag>>

Disable ==
    /\ interrupts_enabled' = FALSE
    /\ ready' = FALSE
    /\ faulted' = TRUE
    /\ masked' = TRUE

\* Mutant of the failed reset: the outstanding requests are forgotten.
ResetFailedForgetting ==
    /\ pc = "reset"
    /\ Disable
    /\ restore' = FALSE
    /\ pc' = "idle"
    /\ UNCHANGED <<qvars, svars, caller, cursor, active_count, next_context, context, ioc,
                   replies, frames, irqVars, lag>>

\* Reset timed out: nothing is known about the adapter.
ResetFailed ==
    /\ pc = "reset"
    /\ Disable
    /\ FailQueue(FALSE)
    /\ restore' = FALSE
    /\ pc' = "idle"
    /\ UNCHANGED <<caller, cursor, active_count, next_context, context, ioc,
                   replies, frames, irqVars, lag>>

FailOutstanding ==
    /\ pc = "failall"
    /\ active_count' = 0
    /\ FailQueue(TRUE)
    /\ ready' = FALSE /\ faulted' = FALSE
    /\ pc' = "init"
    /\ UNCHANGED <<caller, cursor, interrupts_enabled, restore, next_context, context,
                   iocVars, irqVars, lag>>

\* InitializePort, ValidateAfterReset and SetInterrupts(restore).
InitializeOk ==
    /\ pc = "init"
    /\ ready' = TRUE
    /\ frames' = ReplyDepth
    /\ ioc' = "Operational"
    /\ interrupts_enabled' = restore
    /\ masked' = ~restore
    /\ restore' = FALSE
    /\ pc' = "idle"
    /\ UNCHANGED <<qvars, svars, caller, cursor, faulted, active_count,
                   next_context, context, replies, irqVars, lag>>

\* InitializePort or, with the adapter already operational, ValidateAfterReset
\* failed.
InitializeFailed ==
    /\ pc = "init"
    /\ Disable
    /\ \/ UNCHANGED <<ioc, frames>>
       \/ ioc' = "Operational" /\ frames' = ReplyDepth
    /\ restore' = FALSE
    /\ pc' = "idle"
    /\ UNCHANGED <<qvars, svars, caller, cursor, active_count, next_context, context,
                   replies, irqVars, lag>>

-----------------------------------------------------------------------------
(* Service                                                                 *)

\* Mutant of the doorbell test: a faulted adapter is left alone.
ServiceBeginIgnoringFault ==
    /\ pc = "idle"
    /\ lag' = 0 /\ wakeup' = FALSE
    /\ IF IsReady /\ ioc = "Operational"
       THEN pc' = "drain" /\ caller' = "service"
       ELSE UNCHANGED <<pc, caller>>
    /\ UNCHANGED <<qvars, svars, cursor, driverVars, iocVars, isr>>

\* Service starts: the doorbell tells whether the IOC is operational.
ServiceBegin ==
    /\ pc = "idle"
    /\ lag' = 0 /\ wakeup' = FALSE
    /\ \/ /\ ~IsReady
          /\ UNCHANGED <<pc, caller, interrupts_enabled, restore, masked>>
       \/ /\ IsReady /\ ioc # "Operational"
          /\ EnterRecover
       \/ /\ IsReady /\ ioc = "Operational"
          /\ pc' = "drain" /\ caller' = "service"
          /\ UNCHANGED <<interrupts_enabled, restore, masked>>
    /\ UNCHANGED <<qvars, svars, cursor, ready, faulted, active_count, next_context,
                   context, ioc, replies, frames, isr>>

\* The active request a reply's context stands for.
Match(p) == {r \in Queue : state[r] = "Active" /\ context[r] = p.ctx}

\* Mutant of the drain loop: the reply frame is not given back.
DrainAnswerKeepingFrame(p, r) ==
    /\ pc = "drain"
    /\ p \in replies /\ r \in Match(p)
    /\ replies' = replies \ {p}
    /\ active_count' = active_count - 1
    /\ CompleteCommand(r, p.outcome)
    /\ UNCHANGED <<hostVars, ready, faulted, interrupts_enabled, restore, next_context,
                   context, ioc, frames, masked, irqVars, lag>>

\* One answer from the reply queue; its frame goes back to the adapter.
DrainAnswer(p, r) ==
    /\ pc = "drain"
    /\ p \in replies /\ r \in Match(p)
    /\ replies' = replies \ {p}
    /\ frames' = IF p.frame THEN frames + 1 ELSE frames
    /\ active_count' = active_count - 1
    /\ CompleteCommand(r, p.outcome)
    /\ UNCHANGED <<hostVars, ready, faulted, interrupts_enabled, restore, next_context,
                   context, ioc, masked, irqVars, lag>>

\* A reply no active request matches, a malformed frame, a wrong target or an
\* impossible length: the adapter is reset.
DrainAnomaly(p) ==
    /\ pc = "drain"
    /\ p \in replies
    /\ Match(p) = {} \/ "stray" \in AdapterFaults
    /\ replies' = replies \ {p}
    /\ EnterRecover
    /\ UNCHANGED <<qvars, svars, cursor, ready, faulted, active_count,
                   next_context, context, ioc, frames, irqVars, lag>>

DrainEmpty ==
    /\ pc = "drain"
    /\ replies = {}
    /\ pc' = "timeout"
    /\ UNCHANGED <<qvars, svars, caller, cursor, driverVars, iocVars, irqVars, lag>>

\* HasExpired(true): a started request is late, the adapter is reset.
ServiceTimeout ==
    /\ pc = "timeout"
    /\ AnyExpired("Active")
    /\ EnterRecover
    /\ UNCHANGED <<qvars, svars, cursor, ready, faulted, active_count,
                   next_context, context, ioc, replies, frames, irqVars, lag>>

ServiceExpireQueued ==
    /\ pc = "timeout"
    /\ ~AnyExpired("Active")
    /\ ExpireQueued /\ UNCHANGED svars
    /\ pc' = "sweep"
    /\ UNCHANGED <<caller, cursor, driverVars, iocVars, irqVars, lag>>

ServicePrune ==
    /\ pc = "sweep"
    /\ PruneQueue
    /\ pc' = "expire"
    /\ UNCHANGED <<caller, cursor, driverVars, iocVars, irqVars, lag>>

-----------------------------------------------------------------------------
(* Interrupts                                                              *)

SetInterrupts(enabled) ==
    /\ pc = "idle"
    /\ interrupts_enabled' = (enabled /\ IsReady)
    /\ masked' = ~(enabled /\ IsReady)
    /\ UNCHANGED <<qvars, svars, hostVars, ready, faulted, restore, active_count,
                   next_context, context, ioc, replies, frames, irqVars, lag>>

\* OnInterrupt: the test, with the interrupt line asserted ...
InterruptTest ==
    /\ isr = "out"
    /\ ~masked /\ replies # {}
    /\ interrupts_enabled
    /\ isr' = "in"
    /\ UNCHANGED <<qvars, svars, hostVars, driverVars, iocVars, wakeup, lag>>

\* ... and the mask, after which the host is notified.
InterruptMask ==
    /\ isr = "in"
    /\ masked' = TRUE
    /\ isr' = "out" /\ wakeup' = TRUE
    /\ UNCHANGED <<qvars, svars, hostVars, driverVars, ioc, replies, frames, lag>>

-----------------------------------------------------------------------------
(* Adapter, clients, clock                                                 *)

\* The adapter answers a request it holds: with its context alone when the
\* command succeeded, or with a reply frame.
PostReply(r, out, frame) ==
    /\ ioc = "Operational"
    /\ HardwareDone(r) /\ UNCHANGED svars
    /\ out \in OutcomesOf(r)
    /\ frame \/ out \notin {"error", "sense"}
    /\ frame => frames > 0
    /\ frames' = IF frame THEN frames - 1 ELSE frames
    /\ replies' = replies \cup
                    {[req |-> r, ctx |-> context[r], outcome |-> out, frame |-> frame]}
    /\ UNCHANGED <<ioc, masked, hostVars, driverVars, irqVars, lag>>

\* A reply that makes no sense; context 0 is never allocated.
StrayReply == [req |-> NoObject, ctx |-> 0, outcome |-> "error", frame |-> TRUE]
PostStray ==
    /\ "stray" \in AdapterFaults
    /\ ioc = "Operational"
    /\ frames > 0
    /\ StrayReply \notin replies
    /\ replies' = replies \cup {StrayReply}
    /\ frames' = frames - 1
    /\ UNCHANGED <<qvars, svars, ioc, masked, hostVars, driverVars, irqVars, lag>>

IocFault ==
    /\ "fault" \in AdapterFaults
    /\ ioc = "Operational"
    /\ ioc' = "Fault"
    /\ UNCHANGED <<qvars, svars, replies, frames, masked, hostVars, driverVars, irqVars,
                   lag>>

ClientDrops(r) ==
    /\ r \in Forgetful /\ r # enqueued
    /\ DropHandle(r)
    /\ UNCHANGED lvars

\* Time passes; the host does not leave the driver alone for longer than
\* MaxLatency.
ClockTick ==
    /\ lag < MaxLatency
    /\ lag' = lag + 1
    /\ Tick /\ UNCHANGED <<svars, hostVars, driverVars, iocVars, irqVars>>

-----------------------------------------------------------------------------
Init ==
    /\ SInit
    /\ pc = "reset" /\ caller = "none" /\ cursor = 0
    /\ ready = FALSE /\ faulted = FALSE
    /\ interrupts_enabled = FALSE /\ restore = FALSE
    /\ active_count = 0 /\ next_context = 0
    /\ context = [r \in Requests |-> 0]
    /\ ioc = "Reset" /\ replies = {} /\ frames = 0 /\ masked = TRUE
    /\ isr = "out" /\ wakeup = FALSE
    /\ lag = 0

\* What the host does next once it is inside a method.
HostContinue ==
    \/ FinishEnqueue
    \/ StartQueuedBegin
    \/ \E r \in Requests : StartOne(r)
    \/ StartQueuedEnd
    \/ Return
    \/ ResetConfirmed
    \/ ResetFailed
    \/ FailOutstanding
    \/ InitializeOk
    \/ InitializeFailed
    \/ \E p \in replies, r \in Requests : DrainAnswer(p, r)
    \/ \E p \in replies : DrainAnomaly(p)
    \/ DrainEmpty
    \/ ServiceTimeout
    \/ ServiceExpireQueued
    \/ ServicePrune

HostCall ==
    \/ \E r \in Requests, n \in Nexuses, op \in Opcodes, t \in TimeoutArgs, o \in Origins :
         SubmitAddressed(r, n, op, t, o)
    \/ \E r \in Requests, n \in Nexuses, o \in Origins, p \in FailurePoints :
         SubmitRejected(r, n, o, p)
    \/ ServiceBegin
    \/ Recover
    \/ \E b \in InterruptModes : SetInterrupts(b)

Environment ==
    \/ InterruptTest
    \/ InterruptMask
    \/ \E r \in Requests, out \in Outcomes, frame \in BOOLEAN : PostReply(r, out, frame)
    \/ PostStray
    \/ IocFault
    \/ \E r \in Requests : ClientDrops(r)
    \/ ClockTick

Next == HostContinue \/ HostCall \/ Environment

Spec == Init /\ [][Next]_vars

\* The host finishes the methods it enters, calls Service again and again, and
\* the clock runs; nothing is assumed of the adapter.
FairSpec ==
    /\ Spec
    /\ WF_vars(HostContinue)
    /\ WF_vars(ServiceBegin)
    /\ WF_vars(ClockTick)

-----------------------------------------------------------------------------
(* Properties                                                              *)

Active == {r \in Requests : state[r] = "Active"}

\* Two started requests never share a message context, across wraps of
\* next_context and recoveries.
ContextsUnique ==
    \A r, s \in Active : context[r] = context[s] => r = s

\* A reply is credited to the request it answers: the context identifies a
\* started request, and it is the one the adapter answered.
RepliesMatch ==
    IsReady /\ pc # "failall" =>
        \A p \in replies : p # StrayReply =>
            /\ state[p.req] = "Active" /\ context[p.req] = p.ctx
            /\ p.req \notin device
            /\ Match(p) = {p.req}

\* Reply frames are neither lost nor duplicated, and the adapter always has one
\* for each request it holds: the reason for the credit limit.
FramesSuffice ==
    IsReady /\ ioc = "Operational" /\ pc \notin {"reset", "failall"} =>
        /\ frames + Cardinality({p \in replies : p.frame}) = ReplyDepth
        /\ StrayReply \notin replies => Cardinality(device) <= frames

\* With interrupts on, a waiting reply is never forgotten: the interrupt can
\* fire, or it has fired and Service is due or running.
NoLostWakeup ==
    interrupts_enabled /\ replies # {} =>
        \/ ~masked
        \/ wakeup \/ isr = "in"
        \/ caller = "service"

\* After a failed recovery no client waits for ever: every request left in the
\* queue is completed, and kept only because the hardware may still have it.
FailedMeansFinished ==
    pc = "idle" /\ ~IsReady => \A r \in Queue : state[r] = "Completed" /\ pinned[r]

\* No pending request gets as old as the clock's range, where its age would be
\* mistaken: the reason for the limit on timeouts.
AgeUnambiguous == \A r \in Requests : IsPending(r) => age[r] < ClockModulus

\* Commands of one nexus are started in the order they were submitted, although
\* StartQueued skips commands whose logical unit is busy.
NexusFifo ==
    [][\A r \in Requests :
          state[r] = "Queued" /\ state'[r] = "Active" =>
              ~\E s \in Queue : /\ state[s] = "Queued" /\ nexus[s] = nexus[r]
                                /\ rank[s] < rank[r]]_vars

\* Every submitted request is completed, whatever the adapter does: none stays
\* queued or started for ever (and a completed one stays completed, CompletedIsFinal).
EventuallyCompleted ==
    \A r \in Requests : []<>~IsPending(r)

=============================================================================
