-------------------------- MODULE LsiLogicMPIProofs --------------------------
(***************************************************************************)
(* Proofs about LsiLogicMPI, for every number of requests, credits,        *)
(* contexts and logical units and whatever the adapter does.               *)
(*                                                                         *)
(* The driver implements the SCSI command queue, whose theorems it         *)
(* inherits, message contexts are unique, and no interrupt is lost.  A     *)
(* started request is with the adapter or has one reply, and active_count  *)
(* bounds them: so a reply ends its own request and the reply frames       *)
(* suffice.  Requests of a nexus are started in order, and an age is       *)
(* unambiguous when the clock's range leaves room for the latencies.       *)
(***************************************************************************)
EXTENDS LsiLogicMPI, ScsiCommandQueueProofs

\* Where the host thread is, and what it has told the queue: Enqueue is finished
\* before anything else happens, and after a confirmed reset nothing is started
\* before FailAll.
HostInv ==
    /\ EnqueuedTyped
    /\ pc # "enqueue" => enqueued = NoObject
    /\ pc = "failall" => device = {}

-----------------------------------------------------------------------------
(* Implementation of the SCSI command queue                                *)

\* Every step of driver and adapter is a step of the SCSI command queue or leaves
\* it alone.
LEMMA LsiRefinement ==
    ASSUME HostInv, [Next]_vars PROVE [SNext]_<<qvars, svars>>
<1> USE DEF HostInv
<1> SUFFICES ASSUME Next PROVE SNext \/ UNCHANGED <<qvars, svars>>
  BY DEF vars
<1>1. ASSUME HostContinue PROVE SNext \/ UNCHANGED <<qvars, svars>>
  <2>1. FinishEnqueue => SNext
    BY DEF FinishEnqueue, SNext, HostStep
  <2>2. StartQueuedBegin => SNext
    BY DEF StartQueuedBegin, SNext, HostStep
  <2>3. ASSUME NEW r \in Requests, StartOne(r) PROVE SNext
    BY <2>3 DEF StartOne, SNext, HostStep
  <2>4. StartQueuedEnd => UNCHANGED <<qvars, svars>>
    BY DEF StartQueuedEnd
  <2>5. Return \/ ServicePrune => SNext
    BY DEF Return, ServicePrune, SNext, HostStep
  <2>6. ResetConfirmed => SNext
    BY DEF ResetConfirmed, SNext, HardwareStep
  <2>7. ResetFailed => SNext
    BY DEF ResetFailed, SNext, HostStep
  <2>8. FailOutstanding => SNext
    BY DEF FailOutstanding, SNext, HostStep
  <2>9. InitializeOk \/ InitializeFailed \/ DrainEmpty \/ ServiceTimeout
          => UNCHANGED <<qvars, svars>>
    BY DEF InitializeOk, InitializeFailed, DrainEmpty, ServiceTimeout
  <2>10. ASSUME NEW p \in replies, NEW r \in Requests, DrainAnswer(p, r) PROVE SNext
    <3>1. state[r] = "Active" /\ enqueued = NoObject /\ CompleteCommand(r, p.outcome)
      BY <2>10 DEF DrainAnswer, Match
    <3>2. p.outcome \in Outcomes
      BY <3>1 DEF CompleteCommand, OutcomesOf, Outcomes
    <3> QED BY <3>1, <3>2 DEF SNext, HostStep
  <2>11. ASSUME NEW p \in replies, DrainAnomaly(p) PROVE UNCHANGED <<qvars, svars>>
    BY <2>11 DEF DrainAnomaly
  <2>12. ServiceExpireQueued => SNext
    BY DEF ServiceExpireQueued, SNext, HostStep
  <2> QED BY <1>1, <2>1, <2>2, <2>3, <2>4, <2>5, <2>6, <2>7, <2>8, <2>9, <2>10, <2>11, <2>12
          DEF HostContinue
<1>2. ASSUME HostCall PROVE SNext \/ UNCHANGED <<qvars, svars>>
  <2>1. ASSUME NEW r \in Requests, NEW n \in Nexuses, NEW op \in Opcodes,
               NEW t \in TimeoutArgs, NEW o \in Origins, SubmitAddressed(r, n, op, t, o)
        PROVE  SNext
    BY <2>1 DEF SubmitAddressed, SNext, HostStep
  <2>2. ASSUME NEW r \in Requests, NEW n \in Nexuses, NEW o \in Origins,
               NEW p \in FailurePoints, SubmitRejected(r, n, o, p)
        PROVE  SNext
    BY <2>2 DEF SubmitRejected, SNext, HostStep
  <2>3. ServiceBegin \/ Recover => UNCHANGED <<qvars, svars>>
    BY DEF ServiceBegin, Recover
  <2>4. ASSUME NEW b \in InterruptModes, SetInterrupts(b) PROVE UNCHANGED <<qvars, svars>>
    BY <2>4 DEF SetInterrupts
  <2> QED BY <1>2, <2>1, <2>2, <2>3, <2>4 DEF HostCall
<1>3. ASSUME Environment PROVE SNext \/ UNCHANGED <<qvars, svars>>
  <2>1. InterruptTest \/ InterruptMask \/ PostStray \/ IocFault => UNCHANGED <<qvars, svars>>
    BY DEF InterruptTest, InterruptMask, PostStray, IocFault
  <2>2. ASSUME NEW r \in Requests, NEW out \in Outcomes, NEW f \in BOOLEAN,
               PostReply(r, out, f)
        PROVE  SNext
    BY <2>2 DEF PostReply, SNext, HardwareStep
  <2>3. ASSUME NEW r \in Requests, ClientDrops(r) PROVE SNext
    BY <2>3 DEF ClientDrops, SNext
  <2>4. ClockTick => SNext
    BY DEF ClockTick, SNext
  <2> QED BY <1>3, <2>1, <2>2, <2>3, <2>4 DEF Environment
<1> QED BY <1>1, <1>2, <1>3 DEF Next

\* What a step does to the host's position, the submission in progress and the
\* hardware.
LEMMA HostInvStep ==
    ASSUME HostInv, [Next]_vars PROVE HostInv'
<1>1. EnqueuedTyped'
  BY LsiRefinement, EnqueuedStep DEF HostInv
<1> SUFFICES ASSUME Next
             PROVE  /\ pc' # "enqueue" => enqueued' = NoObject
                    /\ pc' = "failall" => device' = {}
  BY <1>1 DEF HostInv, vars, svars, qvars, lvars, hostVars
<1> USE DEF HostInv
<1> DEFINE Goal == /\ pc' # "enqueue" => enqueued' = NoObject
                   /\ pc' = "failall" => device' = {}
<1>2. ASSUME UNCHANGED <<qvars, svars>>, pc' = pc \/ (pc # "enqueue" /\ pc' # "failall")
      PROVE  Goal
  BY <1>2 DEF qvars, svars
<1>3. ASSUME pc # "enqueue", pc' # "failall", UNCHANGED enqueued PROVE Goal
  BY <1>3
<1>4. ASSUME HostContinue PROVE Goal
  <2>1. FinishEnqueue => Goal
    BY DEF FinishEnqueue, AnswerFromCache, InvalidateSense
  <2>2. StartQueuedBegin \/ ServiceExpireQueued => Goal
    BY <1>3 DEF StartQueuedBegin, ServiceExpireQueued, svars
  <2>3. ASSUME NEW r \in Requests, StartOne(r) PROVE Goal
    BY <2>3, <1>3 DEF StartOne, StartCommand, StartCommandExpired, svars
  <2>4. StartQueuedEnd \/ InitializeOk \/ InitializeFailed \/ DrainEmpty => Goal
    BY <1>2 DEF StartQueuedEnd, InitializeOk, InitializeFailed, DrainEmpty
  <2>5. Return \/ ServicePrune => Goal
    BY <1>3 DEF Return, ServicePrune, PruneQueue
  <2>6. ResetConfirmed => Goal
    BY DEF ResetConfirmed, HardwareStop, svars
  <2>7. ResetFailed \/ FailOutstanding => Goal
    BY <1>3 DEF ResetFailed, FailOutstanding, FailQueue
  <2>8. ServiceTimeout => Goal
    BY <1>2 DEF ServiceTimeout, EnterRecover
  <2>9. ASSUME NEW p \in replies, NEW r \in Requests, DrainAnswer(p, r) PROVE Goal
    BY <2>9, <1>3 DEF DrainAnswer, CompleteCommand, hostVars
  <2>10. ASSUME NEW p \in replies, DrainAnomaly(p) PROVE Goal
    BY <2>10, <1>2 DEF DrainAnomaly, EnterRecover
  <2> QED BY <1>4, <2>1, <2>2, <2>3, <2>4, <2>5, <2>6, <2>7, <2>8, <2>9, <2>10
          DEF HostContinue
<1>5. ASSUME HostCall PROVE Goal
  <2>1. ASSUME NEW r \in Requests, NEW n \in Nexuses, NEW op \in Opcodes,
               NEW t \in TimeoutArgs, NEW o \in Origins, SubmitAddressed(r, n, op, t, o)
        PROVE  Goal
    BY <2>1 DEF SubmitAddressed
  <2>2. ASSUME NEW r \in Requests, NEW n \in Nexuses, NEW o \in Origins,
               NEW p \in FailurePoints, SubmitRejected(r, n, o, p)
        PROVE  Goal
    BY <2>2, <1>3 DEF SubmitRejected, SubmitFails
  <2>3. ServiceBegin \/ Recover => Goal
    BY <1>2 DEF ServiceBegin, Recover, EnterRecover
  <2>4. ASSUME NEW b \in InterruptModes, SetInterrupts(b) PROVE Goal
    BY <2>4, <1>2 DEF SetInterrupts, hostVars
  <2> QED BY <1>5, <2>1, <2>2, <2>3, <2>4 DEF HostCall
<1>6. ASSUME Environment PROVE Goal
  <2>1. InterruptTest \/ InterruptMask \/ PostStray \/ IocFault => Goal
    BY <1>2 DEF InterruptTest, InterruptMask, PostStray, IocFault, hostVars
  <2>2. ASSUME NEW r \in Requests, NEW out \in Outcomes, NEW f \in BOOLEAN,
               PostReply(r, out, f)
        PROVE  Goal
    BY <2>2 DEF PostReply, HardwareDone, hostVars, svars
  <2>3. ASSUME NEW r \in Requests, ClientDrops(r) PROVE Goal
    BY <2>3 DEF ClientDrops, DropHandle, qvars, lvars, hostVars
  <2>4. ClockTick => Goal
    BY DEF ClockTick, Tick, svars, hostVars
  <2> QED BY <1>6, <2>1, <2>2, <2>3, <2>4 DEF Environment
<1> QED BY <1>4, <1>5, <1>6 DEF Next

\* The driver with its adapter implements the SCSI command queue.
THEOREM LsiImplementsScsi == Spec => SSpec
<1>1. Init => SInit /\ HostInv
  BY DEF Init, SInit, HostInv, EnqueuedTyped, Objects
<1>2. HostInv /\ [Next]_vars => HostInv' /\ [SNext]_<<qvars, svars>>
  BY HostInvStep, LsiRefinement
<1> QED BY <1>1, <1>2, PTL DEF Spec, SSpec

\* It uses the request queue as its contract allows, through timeouts, stray
\* replies, faults and failed resets.
THEOREM LsiImplementsContract == Spec => QueueContract
  BY LsiImplementsScsi, ImplementsContract, PTL

\* No buffer is released while the adapter can access it.
THEOREM LsiBuffersSafe == Spec => []DmaSafe
  BY LsiImplementsScsi, BuffersSafe, PTL

-----------------------------------------------------------------------------
(* Message contexts                                                        *)

\* A request is started by StartCommand alone.
NothingStarted == \A r \in Requests : state'[r] = "Active" => state[r] = "Active"

\* Completing, failing and queueing requests starts none.
LEMMA QueueMethodsStartNothing ==
    ASSUME IInv
    PROVE  /\ \A S, st, q : CompleteAll(S, st, q) => NothingStarted
           /\ \A q : FailAll(q) => NothingStarted
           /\ \A r, t : r \in Requests /\ Enqueue(r, t) => NothingStarted
<1>1. state \in [Requests -> States]
  BY DEF IInv, QTypeOK
<1>2. ASSUME NEW S, NEW st, NEW q, CompleteAll(S, st, q) PROVE NothingStarted
  BY <1>2 DEF CompleteAll, NothingStarted
<1>3. ASSUME NEW q, FailAll(q) PROVE NothingStarted
  BY <1>3 DEF FailAll, FailedState, NothingStarted
<1>4. ASSUME NEW r \in Requests, NEW t, Enqueue(r, t) PROVE NothingStarted
  BY <1>1, <1>4 DEF Enqueue, NothingStarted
<1> QED BY <1>2, <1>3, <1>4

\* Contexts are unique where nothing is started and no context changes.
LEMMA ContextsKept ==
    ASSUME ContextsUnique, NothingStarted, UNCHANGED context PROVE ContextsUnique'
  BY DEF ContextsUnique, Active, NothingStarted

\* The context StartQueued chooses is that of no other started request.
LEMMA StartOneContexts ==
    ASSUME IInv, ContextsUnique, context \in [Requests -> Nat],
           NEW r \in Requests, StartOne(r)
    PROVE  ContextsUnique' /\ context' \in [Requests -> Nat]
<1>1. PICK c \in 1 .. MaxContext : ~InUse(c) /\ context' = [context EXCEPT ![r] = c]
  <2>1. PICK c \in 1 .. MaxContext : FreeContext(c) /\ context' = [context EXCEPT ![r] = c]
    BY DEF StartOne
  <2>2. ~InUse(c)
    BY <2>1 DEF FreeContext
  <2> QED BY <2>1, <2>2
<1>2. state[r] = "Queued" /\ \A s \in Requests \ {r} : state'[s] = "Active" => state[s] = "Active"
  <2>1. state \in [Requests -> States]
    BY DEF IInv, QTypeOK
  <2>2. StartActive(r) \/ StartExpired(r)
    BY DEF StartOne, StartCommand, StartCommandExpired
  <2>3. CASE StartActive(r)
    BY <2>1, <2>3 DEF StartActive
  <2>4. CASE StartExpired(r)
    BY <2>4, QueueMethodsStartNothing DEF StartExpired, NothingStarted
  <2> QED BY <2>2, <2>3, <2>4
<1>3. \A s \in Requests : state[s] = "Active" => context[s] # c
  BY <1>1 DEF InUse, Queue, IInv, PinsAndOwnership, IsPending
<1>4. context' \in [Requests -> Nat]
  BY <1>1, LsiAssumption
<1>5. ASSUME NEW x \in Requests, NEW y \in Requests,
             state'[x] = "Active", state'[y] = "Active", context'[x] = context'[y]
      PROVE  x = y
  <2>1. CASE x = r /\ y # r
    BY <1>1, <1>2, <1>3, <1>5, <2>1
  <2>2. CASE x # r /\ y = r
    BY <1>1, <1>2, <1>3, <1>5, <2>2
  <2>3. CASE x # r /\ y # r
    BY <1>1, <1>2, <1>5, <2>3 DEF ContextsUnique, Active
  <2> QED BY <2>1, <2>2, <2>3
<1> QED BY <1>4, <1>5 DEF ContextsUnique, Active

\* Nothing but an iteration of StartQueued starts a request or chooses a context.
LEMMA OnlyStartOneStarts ==
    ASSUME IInv, [Next]_vars
    PROVE  (NothingStarted /\ UNCHANGED context) \/ \E r \in Requests : StartOne(r)
<1> DEFINE Kept == NothingStarted /\ UNCHANGED context
<1>1. UNCHANGED qvars => NothingStarted
  BY DEF NothingStarted, qvars
<1>2. UNCHANGED state => NothingStarted
  BY DEF NothingStarted
<1>3. UNCHANGED driverVars => UNCHANGED context
  BY DEF driverVars
<1> SUFFICES ASSUME Next PROVE Kept \/ \E r \in Requests : StartOne(r)
  BY <1>1 DEF vars, lvars, driverVars
<1>4. ASSUME HostContinue PROVE Kept \/ \E r \in Requests : StartOne(r)
  <2>1. FinishEnqueue => Kept
    BY <1>1, <1>3, QueueMethodsStartNothing
       DEF FinishEnqueue, AnswerFromCache, InvalidateSense, Answer
  <2>2. StartQueuedBegin \/ ServiceExpireQueued => Kept
    BY <1>3, QueueMethodsStartNothing DEF StartQueuedBegin, ServiceExpireQueued, ExpireQueued
  <2>3. StartQueuedEnd \/ DrainEmpty => Kept
    BY <1>1, <1>3 DEF StartQueuedEnd, DrainEmpty
  <2>4. Return \/ ServicePrune => Kept
    BY <1>2, <1>3 DEF Return, ServicePrune, PruneQueue, Prune
  <2>5. ResetConfirmed => Kept
    BY <1>2, <1>3 DEF ResetConfirmed, HardwareStop
  <2>6. ResetFailed \/ FailOutstanding => Kept
    BY QueueMethodsStartNothing DEF ResetFailed, FailOutstanding, FailQueue
  <2>7. InitializeOk \/ InitializeFailed \/ ServiceTimeout => Kept
    BY <1>1 DEF InitializeOk, InitializeFailed, ServiceTimeout
  <2>8. ASSUME NEW p \in replies, NEW r \in Requests, DrainAnswer(p, r) PROVE Kept
    BY <2>8, QueueMethodsStartNothing DEF DrainAnswer, CompleteCommand, Answer
  <2>9. ASSUME NEW p \in replies, DrainAnomaly(p) PROVE Kept
    BY <2>9, <1>1 DEF DrainAnomaly
  <2> HIDE DEF Kept
  <2> QED BY <1>4, <2>1, <2>2, <2>3, <2>4, <2>5, <2>6, <2>7, <2>8, <2>9 DEF HostContinue
<1>5. ASSUME HostCall PROVE Kept
  <2>1. ASSUME NEW r \in Requests, NEW n \in Nexuses, NEW op \in Opcodes,
               NEW t \in TimeoutArgs, NEW o \in Origins, SubmitAddressed(r, n, op, t, o)
        PROVE  Kept
    BY <2>1, <1>3, QueueMethodsStartNothing DEF SubmitAddressed, Submit
  <2>2. ASSUME NEW r \in Requests, NEW n \in Nexuses, NEW o \in Origins,
               NEW p \in FailurePoints, SubmitRejected(r, n, o, p)
        PROVE  Kept
    BY <2>2, <1>1, <1>3 DEF SubmitRejected, SubmitFails
  <2>3. ServiceBegin \/ Recover => Kept
    BY <1>1 DEF ServiceBegin, Recover
  <2>4. ASSUME NEW b \in InterruptModes, SetInterrupts(b) PROVE Kept
    BY <2>4, <1>1 DEF SetInterrupts
  <2> HIDE DEF Kept
  <2> QED BY <1>5, <2>1, <2>2, <2>3, <2>4 DEF HostCall
<1>6. ASSUME Environment PROVE Kept
  <2>1. InterruptTest \/ InterruptMask \/ PostStray \/ IocFault => Kept
    BY <1>1, <1>3 DEF InterruptTest, InterruptMask, PostStray, IocFault
  <2>2. ASSUME NEW r \in Requests, NEW out \in Outcomes, NEW f \in BOOLEAN,
               PostReply(r, out, f)
        PROVE  Kept
    BY <2>2, <1>2, <1>3 DEF PostReply, HardwareDone
  <2>3. ASSUME NEW r \in Requests, ClientDrops(r) PROVE Kept
    BY <2>3, <1>1, <1>3 DEF ClientDrops, DropHandle, lvars
  <2>4. ClockTick => Kept
    BY <1>2, <1>3 DEF ClockTick, Tick
  <2> HIDE DEF Kept
  <2> QED BY <1>6, <2>1, <2>2, <2>3, <2>4 DEF Environment
<1> HIDE DEF Kept
<1> QED BY <1>4, <1>5, <1>6 DEF Next

\* Every step keeps the contexts unique.
LEMMA ContextStep ==
    ASSUME IInv, ContextsUnique, context \in [Requests -> Nat], [Next]_vars
    PROVE  ContextsUnique' /\ context' \in [Requests -> Nat]
  BY OnlyStartOneStarts, ContextsKept, StartOneContexts

\* Two started requests never share a message context, however often the context
\* counter wraps: a reply stands for one request.
THEOREM LsiContextsUnique == Spec => []ContextsUnique
<1>1. Init => ContextsUnique /\ context \in [Requests -> Nat]
  BY DEF Init, SInit, QInit, ContextsUnique, Active
<1>2. /\ IInv /\ ContextsUnique /\ context \in [Requests -> Nat] /\ [Next]_vars
      => ContextsUnique' /\ (context \in [Requests -> Nat])'
  BY ContextStep
<1>3. Spec => []IInv
  BY LsiImplementsContract, Invariance, PTL DEF QueueContract
<1> QED BY <1>1, <1>2, <1>3, PTL DEF Spec

-----------------------------------------------------------------------------
(* Interrupts                                                              *)

\* With interrupts on, the interrupt can fire, or it has fired and Service is due
\* or running, whether or not a reply is waiting; interrupts are on only in an
\* adapter that is ready, and off during recovery.
WakeInv ==
    /\ interrupts_enabled \in BOOLEAN /\ restore \in BOOLEAN
    /\ interrupts_enabled => IsReady
    /\ pc \in {"reset", "failall", "init"} => ~interrupts_enabled
    /\ pc \in {"idle", "reset", "failall", "init"} => caller = "none"
    /\ pc = "init" => ~faulted
    /\ interrupts_enabled => ~masked \/ wakeup \/ isr = "in" \/ caller = "service"

\* Every step keeps the interrupt alive.
LEMMA WakeStep == ASSUME WakeInv, [Next]_vars PROVE WakeInv'
<1> USE DEF WakeInv, IsReady
<1>1. CASE UNCHANGED vars
  BY <1>1 DEF vars, lvars, hostVars, driverVars, iocVars, irqVars
<1>2. ASSUME HostContinue PROVE WakeInv'
  <2> USE DEF driverVars, iocVars, irqVars, hostVars
  <2>1. FinishEnqueue => WakeInv'
    BY DEF FinishEnqueue
  <2>2. StartQueuedBegin => WakeInv'
    BY DEF StartQueuedBegin
  <2>3. ASSUME NEW r \in Requests, StartOne(r) PROVE WakeInv'
    BY <2>3 DEF StartOne
  <2>4. StartQueuedEnd => WakeInv'
    BY DEF StartQueuedEnd
  <2>5. Return => WakeInv'
    BY DEF Return
  <2>6. ResetConfirmed => WakeInv'
    BY DEF ResetConfirmed
  <2>7. ResetFailed => WakeInv'
    BY DEF ResetFailed, Disable
  <2>8. FailOutstanding => WakeInv'
    BY DEF FailOutstanding
  <2>9. InitializeOk => WakeInv'
    <3> SUFFICES ASSUME InitializeOk PROVE WakeInv'
      OBVIOUS
    <3>1. interrupts_enabled' \in BOOLEAN /\ restore' \in BOOLEAN
      BY DEF InitializeOk
    <3>2. interrupts_enabled' => ~masked'
      <4>1. interrupts_enabled' = restore /\ masked' = ~restore
        BY DEF InitializeOk
      <4>2. CASE restore
        BY <4>1, <4>2
      <4>3. CASE ~restore
        BY <4>1, <4>3
      <4> QED BY <4>2, <4>3
    <3>3. ready' = TRUE /\ ~faulted' /\ pc' = "idle" /\ caller' = "none"
      BY DEF InitializeOk
    <3> QED BY <3>1, <3>2, <3>3
  <2>10. InitializeFailed => WakeInv'
    BY DEF InitializeFailed, Disable
  <2>11. ASSUME NEW p \in replies, NEW r \in Requests, DrainAnswer(p, r) PROVE WakeInv'
    BY <2>11 DEF DrainAnswer
  <2>12. ASSUME NEW p \in replies, DrainAnomaly(p) PROVE WakeInv'
    BY <2>12 DEF DrainAnomaly, EnterRecover
  <2>13. DrainEmpty => WakeInv'
    BY DEF DrainEmpty
  <2>14. ServiceTimeout => WakeInv'
    BY DEF ServiceTimeout, EnterRecover
  <2>15. ServiceExpireQueued => WakeInv'
    BY DEF ServiceExpireQueued
  <2>16. ServicePrune => WakeInv'
    BY DEF ServicePrune
  <2> HIDE DEF WakeInv
  <2> QED BY <1>2, <2>1, <2>2, <2>3, <2>4, <2>5, <2>6, <2>7, <2>8, <2>9, <2>10, <2>11, <2>12,
             <2>13, <2>14, <2>15, <2>16 DEF HostContinue
<1>3. ASSUME HostCall PROVE WakeInv'
  <2> USE DEF driverVars, iocVars, irqVars, hostVars
  <2>1. ASSUME NEW r \in Requests, NEW n \in Nexuses, NEW op \in Opcodes,
               NEW t \in TimeoutArgs, NEW o \in Origins, SubmitAddressed(r, n, op, t, o)
        PROVE  WakeInv'
    BY <2>1 DEF SubmitAddressed
  <2>2. ASSUME NEW r \in Requests, NEW n \in Nexuses, NEW o \in Origins,
               NEW p \in FailurePoints, SubmitRejected(r, n, o, p)
        PROVE  WakeInv'
    BY <2>2 DEF SubmitRejected
  <2>3. ServiceBegin => WakeInv'
    <3> SUFFICES ASSUME ServiceBegin PROVE WakeInv'
      OBVIOUS
    <3>1. CASE ~IsReady
      BY <3>1 DEF ServiceBegin, EnterRecover
    <3>2. CASE IsReady /\ ioc # "Operational"
      <4>1. EnterRecover /\ UNCHANGED <<ready, faulted, isr>>
        BY <3>2 DEF ServiceBegin
      <4> QED BY <4>1 DEF EnterRecover
    <3>3. CASE IsReady /\ ioc = "Operational"
      <4>1. /\ pc' = "drain" /\ caller' = "service"
            /\ UNCHANGED <<interrupts_enabled, restore, masked, ready, faulted, isr>>
        BY <3>3 DEF ServiceBegin
      <4> QED BY <4>1
    <3> QED BY <3>1, <3>2, <3>3
  <2>4. Recover => WakeInv'
    BY DEF Recover, EnterRecover
  <2>5. ASSUME NEW b \in InterruptModes, SetInterrupts(b) PROVE WakeInv'
    <3>1. CASE b /\ IsReady
      <4>1. interrupts_enabled' = TRUE /\ masked' = FALSE
        BY <2>5, <3>1 DEF SetInterrupts
      <4> QED BY <2>5, <3>1, <4>1 DEF SetInterrupts
    <3>2. CASE ~(b /\ IsReady)
      <4>1. interrupts_enabled' = FALSE
        BY <2>5, <3>2 DEF SetInterrupts
      <4> QED BY <2>5, <4>1 DEF SetInterrupts
    <3> QED BY <3>1, <3>2
  <2> HIDE DEF WakeInv
  <2> QED BY <1>3, <2>1, <2>2, <2>3, <2>4, <2>5 DEF HostCall
<1>4. ASSUME Environment PROVE WakeInv'
  <2> USE DEF driverVars, iocVars, irqVars, hostVars
  <2>1. InterruptTest => WakeInv'
    BY DEF InterruptTest
  <2>2. InterruptMask => WakeInv'
    BY DEF InterruptMask
  <2>3. ASSUME NEW r \in Requests, NEW out \in Outcomes, NEW f \in BOOLEAN,
               PostReply(r, out, f)
        PROVE  WakeInv'
    BY <2>3 DEF PostReply
  <2>4. PostStray \/ IocFault => WakeInv'
    BY DEF PostStray, IocFault
  <2>5. ASSUME NEW r \in Requests, ClientDrops(r) PROVE WakeInv'
    BY <2>5 DEF ClientDrops, lvars
  <2>6. ClockTick => WakeInv'
    BY DEF ClockTick
  <2> HIDE DEF WakeInv
  <2> QED BY <1>4, <2>1, <2>2, <2>3, <2>4, <2>5, <2>6 DEF Environment
<1> QED BY <1>1, <1>2, <1>3, <1>4 DEF Next

\* With interrupts on, a waiting reply is never forgotten, in every interleaving
\* of Service with the two steps of OnInterrupt.
THEOREM LsiNoLostWakeup == Spec => []NoLostWakeup
<1>1. Init => WakeInv
  BY DEF Init, WakeInv
<1>2. WakeInv /\ [Next]_vars => WakeInv'
  BY WakeStep
<1>3. WakeInv => NoLostWakeup
  BY DEF WakeInv, NoLostWakeup
<1> QED BY <1>1, <1>2, <1>3, PTL DEF Spec

-----------------------------------------------------------------------------
(* Recovery                                                                *)

\* What the steps of the driver rely on in the queue.
QueueInv == IInv /\ BufferInv /\ EnqueuedTyped /\ EnqueuedWaits

\* Where the recovery is: after a confirmed reset the adapter has nothing, and
\* nothing is started before it is operational again; the driver works only in an
\* adapter that is ready, and one that is not has no unfinished request.
RecoveryInv ==
    /\ pc \in {"failall", "init"} => replies = {} /\ device = {} /\ ioc = "Reset"
    /\ pc = "init" => ~ready /\ ~faulted /\ active_count = 0
    /\ pc \notin {"idle", "reset", "failall", "init"} => IsReady
    /\ ~IsReady => \A r \in Queue : state[r] = "Completed" /\ pinned[r]

\* Every step keeps the order of the recovery's phases.
LEMMA RecoveryStep ==
    ASSUME RecoveryInv, HostInv, QueueInv, [Next]_vars PROVE RecoveryInv'
<1> USE DEF hostVars, driverVars, iocVars, irqVars
<1>1. ASSUME IsReady, UNCHANGED <<ready, faulted>>, pc' \notin {"failall", "init"}
      PROVE  RecoveryInv'
  BY <1>1 DEF RecoveryInv, IsReady
<1>2. ASSUME UNCHANGED <<ready, faulted, state, owned, pinned>>,
             \/ pc' = pc /\ UNCHANGED <<replies, device, ioc, active_count>>
             \/ pc' = pc /\ pc \notin {"failall", "init"}
             \/ pc' \in {"idle", "reset"}
      PROVE  RecoveryInv'
  BY <1>2 DEF RecoveryInv, IsReady, Queue
<1>3. UNCHANGED qvars => UNCHANGED <<state, owned, pinned, device>>
  BY DEF qvars
<1>4. CASE UNCHANGED vars
  BY <1>2, <1>3, <1>4 DEF vars, lvars
<1>5. pc \notin {"idle", "reset", "failall", "init"} => IsReady
  BY DEF RecoveryInv
<1>6. ASSUME HostContinue PROVE RecoveryInv'
  <2>1. FinishEnqueue \/ StartQueuedBegin \/ StartQueuedEnd \/ Return \/ DrainEmpty
          \/ ServiceExpireQueued \/ ServicePrune => RecoveryInv'
    BY <1>1, <1>5 DEF FinishEnqueue, StartQueuedBegin, StartQueuedEnd, Return, DrainEmpty,
                      ServiceExpireQueued, ServicePrune
  <2>2. ASSUME NEW r \in Requests, StartOne(r) PROVE RecoveryInv'
    <3>1. pc = "start" /\ pc' = "start" /\ UNCHANGED <<ready, faulted>>
      BY <2>2 DEF StartOne
    <3> QED BY <1>1, <1>5, <3>1
  <2>3. ASSUME ResetConfirmed PROVE RecoveryInv'
    <3>1. /\ pc' = "failall" /\ replies' = {} /\ device' = {} /\ ioc' = "Reset"
          /\ UNCHANGED <<ready, faulted, state, owned, pinned>>
      BY <2>3 DEF ResetConfirmed, HardwareStop
    <3> QED BY <3>1 DEF RecoveryInv, IsReady, Queue
  <2>4. ASSUME ResetFailed PROVE RecoveryInv'
    <3>1. pc' = "idle" /\ FailQueue(FALSE)
      BY <2>4 DEF ResetFailed
    <3> QED BY <3>1, FailAllFinishes DEF QueueInv, RecoveryInv, Queue
  <2>5. ASSUME FailOutstanding PROVE RecoveryInv'
    <3>1. /\ pc = "failall" /\ pc' = "init" /\ FailQueue(TRUE) /\ UNCHANGED <<replies, ioc>>
          /\ ready' = FALSE /\ faulted' = FALSE /\ active_count' = 0
      BY <2>5 DEF FailOutstanding
    <3>2. UNCHANGED device
      BY <3>1, FailAllEndsActive DEF QueueInv
    <3> QED BY <3>1, <3>2, FailAllFinishes DEF QueueInv, RecoveryInv, Queue
  <2>6. ASSUME InitializeOk PROVE RecoveryInv'
    <3>1. pc = "init" /\ pc' = "idle" /\ ready' = TRUE /\ UNCHANGED <<faulted, qvars>>
      BY <2>6 DEF InitializeOk
    <3> QED BY <3>1 DEF RecoveryInv, IsReady
  <2>7. ASSUME InitializeFailed PROVE RecoveryInv'
    <3>1. pc = "init" /\ pc' = "idle" /\ UNCHANGED <<state, owned, pinned>>
      BY <1>3, <2>7 DEF InitializeFailed
    <3>2. ~IsReady
      BY <3>1 DEF RecoveryInv, IsReady
    <3> QED BY <3>1, <3>2 DEF RecoveryInv, Queue
  <2>8. ASSUME NEW p \in replies, NEW r \in Requests, DrainAnswer(p, r) PROVE RecoveryInv'
    BY <1>1, <1>5, <2>8 DEF DrainAnswer
  <2>9. ASSUME NEW p \in replies, DrainAnomaly(p) PROVE RecoveryInv'
    BY <1>1, <1>5, <2>9 DEF DrainAnomaly, EnterRecover
  <2>10. ServiceTimeout => RecoveryInv'
    BY <1>1, <1>5 DEF ServiceTimeout, EnterRecover
  <2> QED BY <1>6, <2>1, <2>2, <2>3, <2>4, <2>5, <2>6, <2>7, <2>8, <2>9, <2>10 DEF HostContinue
<1>7. ASSUME HostCall PROVE RecoveryInv'
  <2>1. ASSUME NEW r \in Requests, NEW n \in Nexuses, NEW op \in Opcodes,
               NEW t \in TimeoutArgs, NEW o \in Origins, SubmitAddressed(r, n, op, t, o)
        PROVE  RecoveryInv'
    BY <1>1, <2>1 DEF SubmitAddressed
  <2>2. ASSUME NEW r \in Requests, NEW n \in Nexuses, NEW o \in Origins,
               NEW p \in FailurePoints, SubmitRejected(r, n, o, p)
        PROVE  RecoveryInv'
    BY <1>1, <2>2 DEF SubmitRejected
  <2>3. ASSUME ServiceBegin PROVE RecoveryInv'
    <3>1. /\ UNCHANGED <<ready, faulted, qvars>> /\ pc = "idle"
          /\ \/ pc' = "reset" \/ pc' = pc
             \/ IsReady /\ pc' = "drain"
      BY <2>3 DEF ServiceBegin, EnterRecover
    <3> QED BY <1>1, <1>2, <1>3, <3>1
  <2>4. Recover => RecoveryInv'
    BY <1>2, <1>3 DEF Recover, EnterRecover
  <2>5. ASSUME NEW b \in InterruptModes, SetInterrupts(b) PROVE RecoveryInv'
    BY <1>2, <1>3, <2>5 DEF SetInterrupts
  <2> QED BY <1>7, <2>1, <2>2, <2>3, <2>4, <2>5 DEF HostCall
<1>8. ASSUME Environment PROVE RecoveryInv'
  <2>1. InterruptTest \/ InterruptMask => RecoveryInv'
    BY <1>2, <1>3 DEF InterruptTest, InterruptMask
  <2>2. ASSUME NEW r \in Requests, NEW out \in Outcomes, NEW f \in BOOLEAN, PostReply(r, out, f)
        PROVE  RecoveryInv'
    <3>1. ioc = "Operational" /\ UNCHANGED <<ready, faulted, state, owned, pinned, pc>>
      BY <2>2 DEF PostReply, HardwareDone
    <3>2. pc \notin {"failall", "init"}
      BY <3>1 DEF RecoveryInv
    <3> QED BY <1>2, <3>1, <3>2
  <2>3. ASSUME PostStray \/ IocFault PROVE RecoveryInv'
    <3>1. ioc = "Operational" /\ UNCHANGED <<ready, faulted, state, owned, pinned, pc>>
      BY <1>3, <2>3 DEF PostStray, IocFault
    <3>2. pc \notin {"failall", "init"}
      BY <3>1 DEF RecoveryInv
    <3> QED BY <1>2, <3>1, <3>2
  <2>4. ASSUME NEW r \in Requests, ClientDrops(r) PROVE RecoveryInv'
    BY <1>2, <1>3, <2>4 DEF ClientDrops, DropHandle, lvars
  <2>5. ClockTick => RecoveryInv'
    BY <1>2 DEF ClockTick, Tick
  <2> QED BY <1>8, <2>1, <2>2, <2>3, <2>4, <2>5 DEF Environment
<1> QED BY <1>4, <1>6, <1>7, <1>8 DEF Next

\* The invariants of host, queue and recovery in every reachable state.
LEMMA RecoveryInvariance == Spec => [](RecoveryInv /\ HostInv /\ QueueInv)
<1>1. Init => HostInv /\ RecoveryInv
  BY DEF Init, SInit, QInit, HostInv, EnqueuedTyped, Objects, RecoveryInv, Queue
<1>2. HostInv /\ [Next]_vars => HostInv'
  BY HostInvStep
<1>3. RecoveryInv /\ HostInv /\ QueueInv /\ [Next]_vars => RecoveryInv'
  BY RecoveryStep
<1>4. Spec => []QueueInv
  BY LsiImplementsScsi, QueueInvariance, PTL DEF QueueInv
<1> QED BY <1>1, <1>2, <1>3, <1>4, PTL DEF Spec

\* After a failed recovery no client waits for ever: every request left in the queue
\* is completed, and kept only because the hardware may still have it.
THEOREM LsiFailedMeansFinished == Spec => []FailedMeansFinished
<1>1. RecoveryInv => FailedMeansFinished
  BY DEF RecoveryInv, FailedMeansFinished
<1> QED BY <1>1, RecoveryInvariance, PTL

-----------------------------------------------------------------------------
(* Replies and reply frames: the inductive invariant                       *)

\* The driver is ready and its requests have not been dropped by a reset.
InService == IsReady /\ pc # "failall"

\* Replies that answer a request, and replies that hold a frame.
Answered == replies \ {StrayReply}
Framed   == {p \in replies : p.frame}

\* A reply to a request.
ReplyContents == [req : Requests, ctx : 1 .. MaxContext, outcome : Outcomes, frame : BOOLEAN]

\* Types; context 0 belongs to no request the adapter has had.
ReplyTypes ==
    /\ context \in [Requests -> 0 .. MaxContext]
    /\ replies \subseteq ReplyContents \cup {StrayReply} /\ IsFiniteSet(replies)
    /\ frames \in Nat
    /\ active_count \in Int /\ active_count <= Credits
    /\ \A r \in Active \cup device : context[r] # 0

\* A started request is with the adapter or has one reply.
PlacesInv ==
    /\ \A r \in device : state[r] = "Active"
    /\ \A p \in Answered :
          state[p.req] = "Active" /\ context[p.req] = p.ctx /\ p.req \notin device
    /\ \A p, q \in Answered : p.req = q.req => p = q

\* The counter bounds the requests the adapter has or has answered, and no frame is
\* lost before a reset.
CountsInv ==
    /\ Cardinality(device) + Cardinality(Answered) <= active_count
    /\ pc # "reset" => frames + Cardinality(Framed) = ReplyDepth

\* Places and counts agree while the driver is in service.
ServiceInv == InService => PlacesInv /\ CountsInv

\* The credit limit does not exceed the depth of the reply queue.
LEMMA CreditsBound == Credits \in Nat /\ Credits <= ReplyDepth /\ ReplyDepth \in Nat
  BY LsiAssumption DEF Credits

\* A stray reply answers no request.
LEMMA StrayKind ==
    /\ StrayReply.req = NoObject /\ StrayReply.ctx = 0 /\ StrayReply.frame = TRUE
    /\ StrayReply \notin ReplyContents
<1>1. StrayReply.req = NoObject /\ StrayReply.ctx = 0 /\ StrayReply.frame = TRUE
  BY DEF StrayReply
<1> QED BY <1>1, ScsiAssumption DEF ReplyContents

\* The sets that are counted are finite.
LEMMA CountedFinite ==
    ASSUME ReplyTypes, QueueInv
    PROVE  /\ IsFiniteSet(device) /\ Cardinality(device) \in Nat
           /\ IsFiniteSet(Answered) /\ Cardinality(Answered) \in Nat
           /\ IsFiniteSet(Framed) /\ Cardinality(Framed) \in Nat
<1>1. IsFiniteSet(device)
  BY ClockAssumption, FS_Subset DEF QueueInv, IInv, QTypeOK
<1>2. IsFiniteSet(Answered) /\ IsFiniteSet(Framed)
  <2>1. Answered \in SUBSET replies /\ Framed \in SUBSET replies /\ IsFiniteSet(replies)
    BY DEF Answered, Framed, ReplyTypes
  <2> QED BY <2>1, FS_Subset
<1> QED BY <1>1, <1>2, FS_CardinalityType

\* Every step keeps the types.
LEMMA ReplyTypesStep ==
    ASSUME ReplyTypes, RecoveryInv, HostInv, QueueInv, [Next]_vars PROVE ReplyTypes'
<1> USE DEF hostVars, driverVars, iocVars, irqVars
<1> DEFINE Kept == /\ UNCHANGED <<context, replies, frames, active_count>>
                   /\ NothingStarted /\ device' \subseteq device
<1>1. Kept => ReplyTypes'
  BY DEF ReplyTypes, NothingStarted, Active
<1>2. UNCHANGED qvars => NothingStarted /\ UNCHANGED device
  BY DEF qvars, NothingStarted
<1>3. CASE UNCHANGED vars
  BY <1>1, <1>2, <1>3 DEF vars, lvars
<1>4. ASSUME HostContinue PROVE ReplyTypes'
  <2>1. FinishEnqueue => Kept
    BY EnqueueKeepsActive DEF FinishEnqueue, QueueInv, SameActive, NothingStarted
  <2>2. StartQueuedBegin \/ ServiceExpireQueued => Kept
    BY ExpiryKeepsActive DEF StartQueuedBegin, ServiceExpireQueued, QueueInv, SameActive,
                             NothingStarted
  <2>3. ASSUME NEW r \in Requests, StartOne(r) PROVE ReplyTypes'
    <3>1. /\ UNCHANGED <<replies, frames>> /\ active_count < Credits
          /\ active_count' \in {active_count, active_count + 1}
          /\ \E c \in 1 .. MaxContext : context' = [context EXCEPT ![r] = c]
          /\ StartActive(r) \/ StartExpired(r)
      BY <2>3 DEF StartOne, HasCredit, StartCommand, StartCommandExpired
    <3>2. \A s \in Requests \ {r} : s \in Active' \cup device' => s \in Active \cup device
      <4>1. CASE StartActive(r)
        BY <4>1 DEF StartActive, Active, QueueInv, IInv, QTypeOK
      <4>2. CASE StartExpired(r)
        BY <4>2, ExpiryKeepsActive DEF SameActive, Active, QueueInv
      <4> QED BY <3>1, <4>1, <4>2
    <3>3. /\ context' \in [Requests -> 0 .. MaxContext] /\ context'[r] # 0
          /\ \A s \in Requests \ {r} : context'[s] = context[s]
      BY <3>1, LsiAssumption DEF ReplyTypes
    <3>4. Active' \cup device' \subseteq Requests
      BY <3>1 DEF Active, QueueInv, IInv, QTypeOK, StartActive, StartExpired, CompleteAll
    <3>5. active_count' \in Int /\ active_count' <= Credits
      BY <3>1, CreditsBound DEF ReplyTypes
    <3>6. \A s \in Active' \cup device' : context'[s] # 0
      BY <3>2, <3>3, <3>4 DEF ReplyTypes
    <3> QED BY <3>1, <3>3, <3>5, <3>6 DEF ReplyTypes
  <2>4. StartQueuedEnd \/ DrainEmpty \/ ServiceTimeout => Kept
    BY <1>2 DEF StartQueuedEnd, DrainEmpty, ServiceTimeout
  <2>5. Return \/ ServicePrune => Kept
    BY DEF Return, ServicePrune, PruneQueue, Prune, NothingStarted
  <2>6. ASSUME ResetConfirmed PROVE ReplyTypes'
    <3>1. /\ UNCHANGED <<context, active_count, state>> /\ device' = {}
          /\ replies' = {} /\ frames' = 0
      BY <2>6 DEF ResetConfirmed, HardwareStop
    <3> QED BY <3>1, FS_EmptySet DEF ReplyTypes, Active
  <2>7. ResetFailed => Kept
    BY FailAllEndsActive DEF ResetFailed, QueueInv, NothingStarted
  <2>8. ASSUME FailOutstanding PROVE ReplyTypes'
    <3>1. UNCHANGED <<context, replies, frames>> /\ active_count' = 0 /\ FailQueue(TRUE)
      BY <2>8 DEF FailOutstanding
    <3>2. UNCHANGED device /\ Active' = {}
      BY <3>1, FailAllEndsActive DEF QueueInv, Active
    <3> QED BY <3>1, <3>2, CreditsBound DEF ReplyTypes
  <2>9. ASSUME InitializeOk \/ InitializeFailed PROVE ReplyTypes'
    <3>1. /\ UNCHANGED <<context, replies, active_count, state, device>>
          /\ frames' \in {frames, ReplyDepth}
      BY <1>2, <2>9 DEF InitializeOk, InitializeFailed, qvars
    <3> QED BY <3>1, CreditsBound DEF ReplyTypes, Active
  <2>10. ASSUME NEW p \in replies, NEW r \in Requests, DrainAnswer(p, r) PROVE ReplyTypes'
    <3>1. /\ UNCHANGED context /\ replies' = replies \ {p} /\ active_count' = active_count - 1
          /\ frames' \in {frames, frames + 1} /\ CompleteCommand(r, p.outcome)
      BY <2>10 DEF DrainAnswer
    <3>2. NothingStarted /\ UNCHANGED device
      <4>1. PICK st : CompleteAll({r}, st, TRUE)
        BY <3>1 DEF CompleteCommand, Answer
      <4>2. NothingStarted
        BY <4>1, QueueMethodsStartNothing DEF QueueInv
      <4> QED BY <4>1, <4>2 DEF CompleteAll
    <3>3. IsFiniteSet(replies')
      BY <3>1, FS_RemoveElement DEF ReplyTypes
    <3> QED BY <3>1, <3>2, <3>3, CreditsBound DEF ReplyTypes, NothingStarted, Active
  <2>11. ASSUME NEW p \in replies, DrainAnomaly(p) PROVE ReplyTypes'
    <3>1. UNCHANGED <<context, frames, active_count, state, device>> /\ replies' = replies \ {p}
      BY <2>11 DEF DrainAnomaly, qvars
    <3>2. IsFiniteSet(replies')
      BY <3>1, FS_RemoveElement DEF ReplyTypes
    <3> QED BY <3>1, <3>2 DEF ReplyTypes, Active
  <2> HIDE DEF Kept
  <2> QED BY <1>1, <1>4, <2>1, <2>2, <2>3, <2>4, <2>5, <2>6, <2>7, <2>8, <2>9, <2>10, <2>11
          DEF HostContinue
<1>5. ASSUME HostCall PROVE Kept
  <2>1. ASSUME NEW r \in Requests, NEW n \in Nexuses, NEW op \in Opcodes,
               NEW t \in TimeoutArgs, NEW o \in Origins, SubmitAddressed(r, n, op, t, o)
        PROVE  Kept
    BY <2>1, SubmitKeepsActive DEF SubmitAddressed, QueueInv, SameActive, NothingStarted
  <2>2. ASSUME NEW r \in Requests, NEW n \in Nexuses, NEW o \in Origins,
               NEW p \in FailurePoints, SubmitRejected(r, n, o, p)
        PROVE  Kept
    BY <1>2, <2>2 DEF SubmitRejected, SubmitFails
  <2>3. ServiceBegin \/ Recover => Kept
    BY <1>2 DEF ServiceBegin, Recover
  <2>4. ASSUME NEW b \in InterruptModes, SetInterrupts(b) PROVE Kept
    BY <1>2, <2>4 DEF SetInterrupts
  <2> HIDE DEF Kept
  <2> QED BY <1>5, <2>1, <2>2, <2>3, <2>4 DEF HostCall
<1>6. ASSUME Environment PROVE ReplyTypes'
  <2>1. InterruptTest \/ InterruptMask \/ IocFault => Kept
    BY <1>2 DEF InterruptTest, InterruptMask, IocFault
  <2>2. ASSUME NEW r \in Requests, NEW out \in Outcomes, NEW f \in BOOLEAN, PostReply(r, out, f)
        PROVE  ReplyTypes'
    <3> DEFINE q == [req |-> r, ctx |-> context[r], outcome |-> out, frame |-> f]
    <3>1. /\ r \in device /\ device' = device \ {r} /\ replies' = replies \cup {q}
          /\ UNCHANGED <<state, context, active_count>>
          /\ frames' = IF f THEN frames - 1 ELSE frames
          /\ f => frames > 0
      BY <2>2 DEF PostReply, HardwareDone
    <3>2. frames' \in Nat
      BY <3>1 DEF ReplyTypes
    <3>3. context[r] \in 1 .. MaxContext
      BY <3>1, LsiAssumption DEF ReplyTypes
    <3>4. q \in ReplyContents
      BY <3>3 DEF ReplyContents
    <3>5. IsFiniteSet(replies')
      BY <3>1, FS_AddElement DEF ReplyTypes
    <3> HIDE DEF q
    <3> QED BY <3>1, <3>2, <3>4, <3>5 DEF ReplyTypes, Active
  <2>3. ASSUME PostStray PROVE ReplyTypes'
    <3>1. /\ UNCHANGED <<context, active_count, state, device>> /\ replies' = replies \cup {StrayReply}
          /\ frames > 0 /\ frames' = frames - 1
      BY <2>3 DEF PostStray, qvars
    <3>2. IsFiniteSet(replies')
      BY <3>1, FS_AddElement DEF ReplyTypes
    <3> QED BY <3>1, <3>2 DEF ReplyTypes, Active
  <2>4. ASSUME NEW r \in Requests, ClientDrops(r) PROVE Kept
    BY <1>2, <2>4 DEF ClientDrops, DropHandle, lvars
  <2>5. ClockTick => Kept
    BY DEF ClockTick, Tick, NothingStarted
  <2> HIDE DEF Kept
  <2> QED BY <1>1, <1>6, <2>1, <2>2, <2>3, <2>4, <2>5 DEF Environment
<1> HIDE DEF Kept
<1> QED BY <1>1, <1>3, <1>4, <1>5, <1>6 DEF Next

-----------------------------------------------------------------------------
(* Replies and reply frames: the steps                                     *)

\* A reply that is not the stray one answers a request.
LEMMA AnsweredKind ==
    ASSUME ReplyTypes, NEW p \in replies
    PROVE  /\ p = StrayReply \/ (p \in Answered /\ p \in ReplyContents)
           /\ p \in Answered => p.req \in Requests /\ p.ctx # 0
           /\ p.frame \in BOOLEAN
<1>1. p = StrayReply \/ (p \in Answered /\ p \in ReplyContents)
  BY DEF ReplyTypes, Answered
<1>2. p \in ReplyContents => p.req \in Requests /\ p.ctx # 0 /\ p.frame \in BOOLEAN
  BY LsiAssumption DEF ReplyContents
<1> QED BY <1>1, <1>2, StrayKind DEF Answered

\* A step that neither starts nor ends a request nor moves one.
LEMMA ServiceKept ==
    ASSUME ServiceInv, QueueInv, ReplyTypes,
           UNCHANGED <<device, replies, frames, active_count>>, SameActive,
           \A r \in Requests : state[r] = "Active" => context'[r] = context[r],
           InService' => InService /\ (pc' # "reset" => pc # "reset")
    PROVE  ServiceInv'
<1> SUFFICES ASSUME InService, InService' PROVE PlacesInv' /\ CountsInv'
  BY DEF ServiceInv
<1>1. PlacesInv /\ CountsInv
  BY DEF ServiceInv
<1>2. Answered' = Answered /\ Framed' = Framed
  BY DEF Answered, Framed
<1>3. CountsInv'
  BY <1>1, <1>2 DEF CountsInv
<1>4. device \subseteq Requests
  BY DEF QueueInv, IInv, QTypeOK
<1>5. \A p \in Answered : p \in replies /\ p.req \in Requests
  BY AnsweredKind DEF Answered
<1> QED BY <1>1, <1>2, <1>3, <1>4, <1>5 DEF PlacesInv, SameActive

\* Starting a request hands it to the adapter, within the credits.
LEMMA StartOneService ==
    ASSUME ServiceInv, QueueInv, ReplyTypes, NEW r \in Requests, StartOne(r)
    PROVE  ServiceInv'
<1>0. /\ UNCHANGED <<pc, ready, faulted, replies, frames>> /\ pc = "start"
      /\ \E c \in 1 .. MaxContext : context' = [context EXCEPT ![r] = c]
  BY DEF StartOne, iocVars
<1>1. \A s \in Requests \ {r} : context'[s] = context[s]
  BY <1>0 DEF ReplyTypes
<1>2. CASE StartCommandExpired(r) /\ UNCHANGED active_count
  <2>1. SameActive /\ UNCHANGED device /\ state[r] = "Queued"
    BY <1>2, ExpiryKeepsActive DEF StartCommandExpired, QueueInv
  <2> QED BY <1>0, <1>1, <1>2, <2>1, ServiceKept DEF InService, IsReady
<1>3. CASE StartCommand(r) /\ active_count' = active_count + 1
  <2> SUFFICES ASSUME InService PROVE PlacesInv' /\ CountsInv'
    BY <1>0 DEF ServiceInv, InService, IsReady
  <2>1. PlacesInv /\ CountsInv
    BY DEF ServiceInv
  <2>2. /\ state[r] = "Queued" /\ device' = device \cup {r}
        /\ \A s \in Requests : state'[s] = IF s = r THEN "Active" ELSE state[s]
    BY <1>3 DEF StartCommand, StartActive, QueueInv, IInv, QTypeOK
  <2>3. device \subseteq Requests /\ r \notin device
    BY <2>1, <2>2 DEF PlacesInv, QueueInv, IInv, QTypeOK
  <2>4. Answered' = Answered /\ Framed' = Framed
    BY <1>0 DEF Answered, Framed
  <2>5. \A p \in Answered : p.req \in Requests /\ p.req # r
    BY <2>1, <2>2, AnsweredKind DEF PlacesInv, Answered
  <2>6. PlacesInv'
    BY <1>1, <2>1, <2>2, <2>3, <2>4, <2>5 DEF PlacesInv
  <2>7. Cardinality(device') = Cardinality(device) + 1
    BY <2>2, <2>3, CountedFinite, FS_AddElement
  <2>8. Cardinality(device) + 1 + Cardinality(Answered) <= active_count + 1
    BY <2>1, CountedFinite DEF CountsInv, ReplyTypes
  <2> QED BY <1>0, <1>3, <2>1, <2>4, <2>6, <2>7, <2>8 DEF CountsInv
<1> QED BY <1>2, <1>3 DEF StartOne

\* The adapter answers: the request moves to the reply queue, with or without one of
\* the frames.
LEMMA PostReplyService ==
    ASSUME ServiceInv, QueueInv, ReplyTypes, NEW r \in Requests, NEW out \in Outcomes,
           NEW f \in BOOLEAN, PostReply(r, out, f)
    PROVE  ServiceInv'
<1> DEFINE q == [req |-> r, ctx |-> context[r], outcome |-> out, frame |-> f]
<1>0. /\ UNCHANGED <<pc, ready, faulted, state, context, active_count>>
      /\ r \in device /\ device' = device \ {r} /\ replies' = replies \cup {q}
      /\ frames' = IF f THEN frames - 1 ELSE frames
  BY DEF PostReply, HardwareDone, hostVars, driverVars
<1> SUFFICES ASSUME InService PROVE PlacesInv' /\ CountsInv'
  BY <1>0 DEF ServiceInv, InService, IsReady
<1>1. PlacesInv /\ CountsInv
  BY DEF ServiceInv
<1>2. q.req = r /\ q.ctx = context[r] /\ q.frame = f /\ q # StrayReply
  BY StrayKind, ScsiAssumption
<1> HIDE DEF q
<1>3. \A p \in Answered : p.req # r
  BY <1>0, <1>1 DEF PlacesInv
<1>4. Answered' = Answered \cup {q} /\ q \notin Answered /\ q \notin replies
  BY <1>0, <1>2, <1>3 DEF Answered
<1>5. PlacesInv'
  BY <1>0, <1>1, <1>2, <1>3, <1>4 DEF PlacesInv
<1>6. CountsInv'
  <2>1. Cardinality(device') = Cardinality(device) - 1
    BY <1>0, CountedFinite, FS_RemoveElement
  <2>2. Cardinality(Answered') = Cardinality(Answered) + 1
    BY <1>4, CountedFinite, FS_AddElement
  <2>3. Cardinality(device') + Cardinality(Answered') <= active_count'
    <3>1. (Cardinality(device) - 1) + (Cardinality(Answered) + 1) <= active_count
      BY <1>1, CountedFinite DEF CountsInv, ReplyTypes
    <3> QED BY <1>0, <2>1, <2>2, <3>1
  <2>4. CASE f = TRUE
    <3>1. Framed' = Framed \cup {q} /\ q \notin Framed
      BY <1>0, <1>2, <1>4, <2>4 DEF Framed
    <3>2. Cardinality(Framed') = Cardinality(Framed) + 1
      BY <3>1, CountedFinite, FS_AddElement
    <3>3. frames' = frames - 1
      BY <1>0, <2>4
    <3>4. pc # "reset" => (frames - 1) + (Cardinality(Framed) + 1) = ReplyDepth
      BY <1>1, CountedFinite DEF CountsInv, ReplyTypes
    <3> QED BY <1>0, <2>3, <3>2, <3>3, <3>4 DEF CountsInv
  <2>5. CASE f = FALSE
    <3>1. Framed' = Framed
      BY <1>0, <1>2, <2>5 DEF Framed
    <3>2. frames' = frames
      BY <1>0, <2>5
    <3> QED BY <1>0, <1>1, <2>3, <3>1, <3>2 DEF CountsInv
  <2> QED BY <2>4, <2>5
<1> QED BY <1>5, <1>6

\* A stray reply takes a frame.
LEMMA PostStrayService ==
    ASSUME ServiceInv, QueueInv, ReplyTypes, PostStray PROVE ServiceInv'
<1>0. /\ UNCHANGED <<pc, ready, faulted, state, device, context, active_count>>
      /\ StrayReply \notin replies /\ replies' = replies \cup {StrayReply}
      /\ frames' = frames - 1
  BY DEF PostStray, hostVars, driverVars, qvars
<1> SUFFICES ASSUME InService PROVE PlacesInv' /\ CountsInv'
  BY <1>0 DEF ServiceInv, InService, IsReady
<1>1. PlacesInv /\ CountsInv
  BY DEF ServiceInv
<1>2. Answered' = Answered
  BY <1>0 DEF Answered
<1>3. Framed' = Framed \cup {StrayReply} /\ StrayReply \notin Framed
  BY <1>0, StrayKind DEF Framed
<1>4. Cardinality(Framed') = Cardinality(Framed) + 1
  BY <1>3, CountedFinite, FS_AddElement
<1>5. pc # "reset" => (frames - 1) + (Cardinality(Framed) + 1) = ReplyDepth
  BY <1>1, CountedFinite DEF CountsInv, ReplyTypes
<1>6. PlacesInv'
  BY <1>0, <1>1, <1>2 DEF PlacesInv
<1> QED BY <1>0, <1>1, <1>2, <1>4, <1>5, <1>6 DEF CountsInv

\* The reply Service takes answers the request it finds.
LEMMA FoundReply ==
    ASSUME PlacesInv, QueueInv, ReplyTypes, ContextsUnique,
           NEW p \in replies, NEW r \in Requests, r \in Match(p)
    PROVE  p \in Answered /\ p.req = r
<1>1. state[r] = "Active" /\ context[r] = p.ctx
  BY DEF Match
<1>2. context[r] # 0
  BY <1>1 DEF ReplyTypes, Active
<1>3. p \in Answered /\ p.req \in Requests
  BY <1>1, <1>2, AnsweredKind, StrayKind
<1>4. state[p.req] = "Active" /\ context[p.req] = context[r]
  BY <1>1, <1>3 DEF PlacesInv
<1> QED BY <1>1, <1>3, <1>4 DEF ContextsUnique, Active

\* Service takes a reply: the request is completed and the frame goes back.
LEMMA DrainAnswerService ==
    ASSUME ServiceInv, RecoveryInv, QueueInv, ReplyTypes, ContextsUnique,
           NEW p \in replies, NEW r \in Requests, DrainAnswer(p, r)
    PROVE  ServiceInv'
<1>0. /\ UNCHANGED <<pc, ready, faulted, context>> /\ r \in Match(p)
      /\ replies' = replies \ {p} /\ active_count' = active_count - 1
      /\ frames' = IF p.frame THEN frames + 1 ELSE frames
      /\ CompleteCommand(r, p.outcome)
  BY DEF DrainAnswer, hostVars
<1> SUFFICES ASSUME InService PROVE PlacesInv' /\ CountsInv'
  BY <1>0 DEF ServiceInv, InService, IsReady
<1>1. PlacesInv /\ CountsInv
  BY DEF ServiceInv
<1>2. p \in Answered /\ p.req = r
  BY <1>0, <1>1, FoundReply
<1>3. state' = [state EXCEPT ![r] = "Completed"] /\ UNCHANGED device
  <2>1. PICK st \in Statuses : Answer(r, st)
    BY <1>0 DEF CompleteCommand, Statuses
  <2> QED BY <2>1, AnswerEffect DEF QueueInv, Answer, CompleteAll
<1>4. \A s \in Requests : state'[s] = IF s = r THEN "Completed" ELSE state[s]
  BY <1>3 DEF QueueInv, IInv, QTypeOK
<1>5. Answered' = Answered \ {p}
  BY <1>0 DEF Answered
<1>6. \A x \in Answered' : x.req \in Requests \ {r}
  BY <1>1, <1>2, <1>5, AnsweredKind DEF PlacesInv, Answered
<1>7. device \subseteq Requests /\ r \notin device
  BY <1>1, <1>2 DEF PlacesInv, QueueInv, IInv, QTypeOK
<1>8. PlacesInv'
  BY <1>0, <1>1, <1>3, <1>4, <1>5, <1>6, <1>7 DEF PlacesInv
<1>9. Cardinality(device') + Cardinality(Answered') <= active_count'
  <2>1. Cardinality(Answered') = Cardinality(Answered) - 1
    BY <1>2, <1>5, CountedFinite, FS_RemoveElement
  <2>2. Cardinality(device) + (Cardinality(Answered) - 1) <= active_count - 1
    BY <1>1, CountedFinite DEF CountsInv, ReplyTypes
  <2> QED BY <1>0, <1>3, <2>1, <2>2
<1>10. CASE p.frame = TRUE
  <2>1. Framed' = Framed \ {p} /\ p \in Framed
    BY <1>0, <1>10 DEF Framed
  <2>2. Cardinality(Framed') = Cardinality(Framed) - 1
    BY <2>1, CountedFinite, FS_RemoveElement
  <2>3. frames' = frames + 1
    BY <1>0, <1>10
  <2>4. pc # "reset" => (frames + 1) + (Cardinality(Framed) - 1) = ReplyDepth
    BY <1>1, CountedFinite DEF CountsInv, ReplyTypes
  <2> QED BY <1>0, <1>8, <1>9, <2>2, <2>3, <2>4 DEF CountsInv
<1>11. CASE p.frame = FALSE
  <2>1. Framed' = Framed
    BY <1>0, <1>11 DEF Framed
  <2>2. frames' = frames
    BY <1>0, <1>11
  <2> QED BY <1>0, <1>1, <1>8, <1>9, <2>1, <2>2 DEF CountsInv
<1> QED BY <1>10, <1>11, AnsweredKind

\* A reply that makes no sense is dropped, and the adapter will be reset.
LEMMA DrainAnomalyService ==
    ASSUME ServiceInv, QueueInv, ReplyTypes, NEW p \in replies, DrainAnomaly(p)
    PROVE  ServiceInv'
<1>0. /\ pc = "drain" /\ pc' = "reset"
      /\ UNCHANGED <<ready, faulted, state, device, context, active_count>>
      /\ replies' = replies \ {p}
  BY DEF DrainAnomaly, EnterRecover, qvars
<1> SUFFICES ASSUME InService PROVE PlacesInv' /\ CountsInv'
  BY <1>0 DEF ServiceInv, InService, IsReady
<1>1. PlacesInv /\ CountsInv
  BY DEF ServiceInv
<1>2. Answered' \in SUBSET Answered
  BY <1>0 DEF Answered
<1>3. Cardinality(Answered') <= Cardinality(Answered) /\ Cardinality(Answered') \in Nat
  BY <1>2, CountedFinite, FS_Subset, FS_CardinalityType
<1>4. Cardinality(device) + Cardinality(Answered') <= active_count
  BY <1>1, <1>3, CountedFinite DEF CountsInv, ReplyTypes
<1>5. PlacesInv'
  BY <1>0, <1>1, <1>2 DEF PlacesInv
<1> QED BY <1>0, <1>4, <1>5 DEF CountsInv

\* Every step keeps requests in their places, and the frames.
LEMMA ServiceStep ==
    ASSUME ServiceInv, RecoveryInv, HostInv, QueueInv, ReplyTypes, ContextsUnique, [Next]_vars
    PROVE  ServiceInv'
<1> USE DEF hostVars, driverVars, iocVars, irqVars
<1>1. ASSUME UNCHANGED <<device, replies, frames, active_count, context, ready, faulted>>,
             SameActive, pc' = pc \/ pc \notin {"failall", "reset"}
      PROVE  ServiceInv'
  BY <1>1, ServiceKept DEF InService, IsReady
<1>2. UNCHANGED qvars => SameActive /\ UNCHANGED device
  BY DEF qvars, SameActive
<1>3. CASE UNCHANGED vars
  BY <1>1, <1>2, <1>3 DEF vars, lvars
<1>4. ASSUME HostContinue PROVE ServiceInv'
  <2>1. FinishEnqueue => ServiceInv'
    BY <1>1, EnqueueKeepsActive DEF FinishEnqueue, QueueInv
  <2>2. StartQueuedBegin \/ ServiceExpireQueued => ServiceInv'
    BY <1>1, ExpiryKeepsActive DEF StartQueuedBegin, ServiceExpireQueued, QueueInv
  <2>3. ASSUME NEW r \in Requests, StartOne(r) PROVE ServiceInv'
    BY <2>3, StartOneService
  <2>4. StartQueuedEnd \/ DrainEmpty \/ ServiceTimeout => ServiceInv'
    BY <1>1, <1>2 DEF StartQueuedEnd, DrainEmpty, ServiceTimeout
  <2>5. Return \/ ServicePrune => ServiceInv'
    BY <1>1 DEF Return, ServicePrune, PruneQueue, Prune, SameActive
  <2>6. ResetConfirmed \/ ResetFailed \/ FailOutstanding \/ InitializeFailed => ServiceInv'
    BY DEF ResetConfirmed, ResetFailed, FailOutstanding, InitializeFailed, Disable, ServiceInv,
           InService, IsReady
  <2>7. ASSUME InitializeOk PROVE ServiceInv'
    <3>1. /\ pc = "init" /\ frames' = ReplyDepth
          /\ UNCHANGED <<state, device, replies, active_count>>
      BY <2>7 DEF InitializeOk, qvars
    <3>2. replies' = {} /\ device' = {} /\ active_count' = 0
      BY <3>1 DEF RecoveryInv
    <3>3. Answered' = {} /\ Framed' = {}
      BY <3>2 DEF Answered, Framed
    <3>4. PlacesInv' /\ CountsInv'
      BY <3>1, <3>2, <3>3, FS_EmptySet, CreditsBound DEF PlacesInv, CountsInv
    <3> QED BY <3>4 DEF ServiceInv
  <2>8. ASSUME NEW p \in replies, NEW r \in Requests, DrainAnswer(p, r) PROVE ServiceInv'
    BY <2>8, DrainAnswerService
  <2>9. ASSUME NEW p \in replies, DrainAnomaly(p) PROVE ServiceInv'
    BY <2>9, DrainAnomalyService
  <2> QED BY <1>4, <2>1, <2>2, <2>3, <2>4, <2>5, <2>6, <2>7, <2>8, <2>9 DEF HostContinue
<1>5. ASSUME HostCall PROVE ServiceInv'
  <2>1. ASSUME NEW r \in Requests, NEW n \in Nexuses, NEW op \in Opcodes,
               NEW t \in TimeoutArgs, NEW o \in Origins, SubmitAddressed(r, n, op, t, o)
        PROVE  ServiceInv'
    BY <1>1, <2>1, SubmitKeepsActive DEF SubmitAddressed, QueueInv
  <2>2. ASSUME NEW r \in Requests, NEW n \in Nexuses, NEW o \in Origins,
               NEW p \in FailurePoints, SubmitRejected(r, n, o, p)
        PROVE  ServiceInv'
    BY <1>1, <1>2, <2>2 DEF SubmitRejected, SubmitFails
  <2>3. ServiceBegin \/ Recover => ServiceInv'
    BY <1>1, <1>2 DEF ServiceBegin, Recover
  <2>4. ASSUME NEW b \in InterruptModes, SetInterrupts(b) PROVE ServiceInv'
    BY <1>1, <1>2, <2>4 DEF SetInterrupts
  <2> QED BY <1>5, <2>1, <2>2, <2>3, <2>4 DEF HostCall
<1>6. ASSUME Environment PROVE ServiceInv'
  <2>1. InterruptTest \/ InterruptMask \/ IocFault => ServiceInv'
    BY <1>1, <1>2 DEF InterruptTest, InterruptMask, IocFault
  <2>2. ASSUME NEW r \in Requests, NEW out \in Outcomes, NEW f \in BOOLEAN, PostReply(r, out, f)
        PROVE  ServiceInv'
    BY <2>2, PostReplyService
  <2>3. PostStray => ServiceInv'
    BY PostStrayService
  <2>4. ASSUME NEW r \in Requests, ClientDrops(r) PROVE ServiceInv'
    BY <1>1, <1>2, <2>4 DEF ClientDrops, DropHandle, lvars
  <2>5. ClockTick => ServiceInv'
    BY <1>1 DEF ClockTick, Tick, SameActive
  <2> QED BY <1>6, <2>1, <2>2, <2>3, <2>4, <2>5 DEF Environment
<1> QED BY <1>3, <1>4, <1>5, <1>6 DEF Next

\* The inductive invariant in every reachable state.
LEMMA LsiInvariance == Spec => [](ReplyTypes /\ ServiceInv /\ QueueInv)
<1>1. Init => ReplyTypes /\ ServiceInv
  <2> SUFFICES ASSUME Init PROVE ReplyTypes /\ ServiceInv
    OBVIOUS
  <2>1. ReplyTypes
    BY FS_EmptySet, CreditsBound, LsiAssumption DEF Init, SInit, QInit, ReplyTypes, Active
  <2>2. ServiceInv
    BY DEF Init, ServiceInv, InService, IsReady
  <2> QED BY <2>1, <2>2
<1>2. ReplyTypes /\ RecoveryInv /\ HostInv /\ QueueInv /\ [Next]_vars => ReplyTypes'
  BY ReplyTypesStep
<1>3. /\ ServiceInv /\ RecoveryInv /\ HostInv /\ QueueInv /\ ReplyTypes /\ ContextsUnique
      /\ [Next]_vars
      => ServiceInv'
  BY ServiceStep
<1> QED BY <1>1, <1>2, <1>3, RecoveryInvariance, LsiContextsUnique, PTL DEF Spec

\* A reply is credited to the request the adapter answered, across wraps of the
\* context counter and recoveries.
THEOREM LsiRepliesMatch == Spec => []RepliesMatch
<1>1. ASSUME ReplyTypes, ServiceInv, QueueInv, ContextsUnique PROVE RepliesMatch
  <2> SUFFICES ASSUME InService, NEW p \in replies, p # StrayReply
               PROVE  /\ state[p.req] = "Active" /\ context[p.req] = p.ctx
                      /\ p.req \notin device
                      /\ Match(p) = {p.req}
    BY DEF RepliesMatch, InService
  <2>1. p \in Answered /\ p.req \in Requests
    BY <1>1, AnsweredKind DEF Answered
  <2>2. state[p.req] = "Active" /\ context[p.req] = p.ctx /\ p.req \notin device
    BY <1>1, <2>1 DEF ServiceInv, PlacesInv
  <2>3. owned[p.req]
    BY <1>1, <2>1, <2>2, ActiveIsAlive DEF QueueInv
  <2>4. Match(p) = {p.req}
    BY <1>1, <2>1, <2>2, <2>3 DEF Match, Queue, ContextsUnique, Active
  <2> QED BY <2>2, <2>4
<1> QED BY <1>1, LsiInvariance, LsiContextsUnique, PTL

\* Reply frames are neither lost nor duplicated, and the adapter always has one for
\* each request it holds.
THEOREM LsiFramesSuffice == Spec => []FramesSuffice
<1>1. ASSUME ReplyTypes, ServiceInv, QueueInv PROVE FramesSuffice
  <2> SUFFICES ASSUME InService, pc # "reset"
               PROVE  /\ frames + Cardinality(Framed) = ReplyDepth
                      /\ StrayReply \notin replies => Cardinality(device) <= frames
    BY DEF FramesSuffice, InService, Framed
  <2>1. CountsInv
    BY <1>1 DEF ServiceInv
  <2>2. ASSUME StrayReply \notin replies PROVE Cardinality(device) <= frames
    <3>1. Framed \in SUBSET Answered
      BY <2>2 DEF Framed, Answered
    <3>2. Cardinality(Framed) <= Cardinality(Answered)
      BY <1>1, <3>1, CountedFinite, FS_Subset
    <3> QED BY <1>1, <2>1, <3>2, CountedFinite, CreditsBound DEF CountsInv, ReplyTypes
  <2> QED BY <2>1, <2>2 DEF CountsInv
<1> QED BY <1>1, LsiInvariance, PTL

-----------------------------------------------------------------------------
(* Order                                                                   *)

\* In the loop of StartQueued: the requests it has passed and not started cannot be
\* started, because their logical units are busy.
SkippedInv ==
    pc = "start" =>
        /\ cursor \in Nat
        /\ \A r \in Queue : state[r] = "Queued" /\ rank[r] <= cursor => ~CanStart(r)

\* A logical unit that is busy stays busy while StartQueued starts another request.
LEMMA BusyStays ==
    ASSUME QueueInv, NEW r \in Requests, StartOne(r), NEW s \in Queue, ~CanStart(s)
    PROVE  ~CanStart(s)'
<1>1. UNCHANGED <<tagged, target_state>> /\ (StartActive(r) \/ StartExpired(r))
  BY DEF StartOne, StartCommand, StartCommandExpired, targetVars, svars
<1>2. UNCHANGED owned /\ \A x \in Requests : state[x] = "Active" => state'[x] = "Active"
  <2>1. CASE StartActive(r)
    BY <2>1 DEF StartActive, QueueInv, IInv, QTypeOK
  <2>2. CASE StartExpired(r)
    BY <2>2, ExpiryKeepsActive DEF StartExpired, CompleteAll, SameActive, QueueInv
  <2> QED BY <1>1, <2>1, <2>2
<1>3. PICK x \in Queue : state[x] = "Active" /\ target_state[x] = target_state[s]
  BY DEF CanStart
<1>4. x \in Queue' /\ state'[x] = "Active" /\ target_state'[x] = target_state'[s]
  BY <1>1, <1>2, <1>3 DEF Queue
<1>5. ~tagged'[target_state'[s]]
  BY <1>1 DEF CanStart
<1> QED BY <1>4, <1>5 DEF CanStart

\* An iteration of StartQueued passes no request it could start.
LEMMA StartOneSkips ==
    ASSUME SkippedInv, QueueInv, RankInv, NEW r \in Requests, StartOne(r)
    PROVE  SkippedInv'
<1>1. /\ pc = "start" /\ cursor' = rank[r] /\ r \in NextStartable
      /\ StartActive(r) \/ StartExpired(r)
  BY DEF StartOne, StartCommand, StartCommandExpired
<1>2. /\ UNCHANGED <<owned, rank>> /\ state'[r] # "Queued"
      /\ \A s \in Requests : state'[s] = "Queued" => state[s] = "Queued"
  <2>1. CASE StartActive(r)
    BY <2>1 DEF StartActive, QueueInv, IInv, QTypeOK
  <2>2. CASE StartExpired(r)
    BY <2>2 DEF StartExpired, CompleteAll, QueueInv, IInv, QTypeOK
  <2> QED BY <1>1, <2>1, <2>2
<1>0. cursor \in Nat /\ cursor' \in Nat
  BY <1>1 DEF SkippedInv, QueueInv, IInv, QTypeOK
<1> SUFFICES ASSUME NEW s \in Queue', state'[s] = "Queued", rank'[s] <= cursor'
             PROVE  ~CanStart(s)'
  BY <1>0 DEF SkippedInv
<1>3. s \in Requests /\ s \in Queue /\ s # r /\ state[s] = "Queued" /\ rank[s] <= rank[r]
  BY <1>1, <1>2 DEF Queue
<1>4. rank[s] \in Nat /\ rank[r] \in Nat /\ rank[s] > 0 /\ rank[r] > 0
  BY <1>1, <1>3 DEF RankInv, QueueInv, IInv, QTypeOK, StartActive, StartExpired
<1>5. rank[s] # rank[r]
  BY <1>3, <1>4 DEF RankInv, Appended
<1>6. ~CanStart(s)
  <2>1. CASE rank[s] <= cursor
    BY <1>1, <1>3, <2>1 DEF SkippedInv
  <2>2. CASE ~(rank[s] <= cursor) /\ CanStart(s)
    <3>1. rank[s] > cursor => rank[r] <= rank[s]
      BY <1>1, <1>3, <2>2 DEF NextStartable, First
    <3>2. rank[s] > cursor
      BY <1>0, <1>4, <2>2
    <3> QED BY <1>3, <1>4, <1>5, <3>1, <3>2
  <2> QED BY <2>1, <2>2
<1> QED BY <1>3, <1>6, BusyStays

\* Every step keeps what StartQueued has passed.
LEMMA SkippedStep ==
    ASSUME SkippedInv, RecoveryInv, HostInv, QueueInv, RankInv, [Next]_vars
    PROVE  SkippedInv'
<1> USE DEF hostVars, driverVars, iocVars, irqVars
<1>1. ASSUME UNCHANGED <<pc, cursor, state, owned, rank, tagged, target_state>>
      PROVE  SkippedInv'
  BY <1>1 DEF SkippedInv, Queue, CanStart
<1>2. pc' # "start" => SkippedInv'
  BY DEF SkippedInv
<1>3. UNCHANGED <<qvars, svars>> => UNCHANGED <<state, owned, rank, tagged, target_state>>
  BY DEF qvars, svars, targetVars
<1>4. CASE UNCHANGED vars
  BY <1>1, <1>3, <1>4 DEF vars, lvars
<1>5. ASSUME HostContinue PROVE SkippedInv'
  <2>1. ASSUME StartQueuedBegin PROVE SkippedInv'
    <3>1. cursor' = 0 /\ UNCHANGED <<owned, rank>>
      BY <2>1 DEF StartQueuedBegin, ExpireQueued, CompleteAll
    <3>2. \A r \in Queue' : rank'[r] \in Nat /\ rank'[r] # 0
      BY <3>1 DEF Queue, QueueInv, IInv, QTypeOK, PinsAndOwnership, RankInv
    <3> QED BY <3>1, <3>2 DEF SkippedInv
  <2>2. ASSUME NEW r \in Requests, StartOne(r) PROVE SkippedInv'
    BY <2>2, StartOneSkips
  <2>3. FinishEnqueue \/ StartQueuedEnd \/ Return \/ ResetConfirmed \/ ResetFailed
          \/ FailOutstanding \/ InitializeOk \/ InitializeFailed \/ DrainEmpty
          \/ ServiceTimeout \/ ServiceExpireQueued \/ ServicePrune => SkippedInv'
    BY <1>2 DEF FinishEnqueue, StartQueuedEnd, Return, ResetConfirmed, ResetFailed,
                FailOutstanding, InitializeOk, InitializeFailed, DrainEmpty, ServiceTimeout,
                ServiceExpireQueued, ServicePrune, EnterRecover
  <2>4. ASSUME NEW p \in replies, NEW r \in Requests, DrainAnswer(p, r) PROVE SkippedInv'
    BY <1>2, <2>4 DEF DrainAnswer
  <2>5. ASSUME NEW p \in replies, DrainAnomaly(p) PROVE SkippedInv'
    BY <1>2, <2>5 DEF DrainAnomaly, EnterRecover
  <2> QED BY <1>5, <2>1, <2>2, <2>3, <2>4, <2>5 DEF HostContinue
<1>6. ASSUME HostCall PROVE SkippedInv'
  BY <1>2, <1>6 DEF HostCall, SubmitAddressed, SubmitRejected, ServiceBegin, EnterRecover,
                    Recover, SetInterrupts
<1>7. ASSUME Environment PROVE SkippedInv'
  <2>1. InterruptTest \/ InterruptMask \/ PostStray \/ IocFault => SkippedInv'
    BY <1>1, <1>3 DEF InterruptTest, InterruptMask, PostStray, IocFault
  <2>2. ASSUME NEW r \in Requests, NEW out \in Outcomes, NEW f \in BOOLEAN, PostReply(r, out, f)
        PROVE  SkippedInv'
    BY <1>1, <2>2 DEF PostReply, HardwareDone, svars, targetVars
  <2>3. ASSUME NEW r \in Requests, ClientDrops(r) PROVE SkippedInv'
    BY <1>1, <2>3 DEF ClientDrops, DropHandle, lvars, qvars, targetVars
  <2>4. ClockTick => SkippedInv'
    BY <1>1 DEF ClockTick, Tick, svars, targetVars
  <2> QED BY <1>7, <2>1, <2>2, <2>3, <2>4 DEF Environment
<1> QED BY <1>4, <1>5, <1>6, <1>7 DEF Next

\* Commands of one nexus are started in the order they were submitted, although
\* StartQueued skips commands whose logical unit is busy.
THEOREM LsiNexusFifo == Spec => NexusFifo
<1> DEFINE Fifo == \A r \in Requests :
                      state[r] = "Queued" /\ state'[r] = "Active" =>
                          ~\E s \in Queue : /\ state[s] = "Queued" /\ nexus[s] = nexus[r]
                                            /\ rank[s] < rank[r]
<1>1. ASSUME SkippedInv, QueueInv, RankInv, OneObjectPerNexus, [Next]_vars
      PROVE  [Fifo]_vars
  <2> SUFFICES ASSUME NEW r \in Requests, state[r] = "Queued", state'[r] = "Active",
                      NEW s \in Queue, state[s] = "Queued", nexus[s] = nexus[r],
                      rank[s] < rank[r]
               PROVE  FALSE
    OBVIOUS
  <2>1. PICK x \in Requests : StartOne(x)
    BY <1>1, OnlyStartOneStarts DEF QueueInv, NothingStarted
  <2>2. x = r /\ r \in NextStartable /\ pc = "start"
    <3>1. StartActive(x) \/ StartExpired(x)
      BY <2>1 DEF StartOne, StartCommand, StartCommandExpired
    <3>2. \A y \in Requests \ {x} : state'[y] = "Active" => state[y] = "Active"
      BY <1>1, <3>1, ExpiryKeepsActive DEF StartActive, SameActive, QueueInv, IInv, QTypeOK
    <3> QED BY <2>1, <3>2 DEF StartOne
  <2>3. r \in Queue /\ CanStart(r)
    BY <2>2 DEF NextStartable, First
  <2>4. Alive(r) /\ Alive(s) /\ s \in Requests
    BY <2>3 DEF Alive, Queue
  <2>5. target_state[s] = target_state[r]
    BY <1>1, <2>4 DEF OneObjectPerNexus
  <2>6. CanStart(s)
    BY <2>3, <2>5 DEF CanStart
  <2>7. cursor \in Nat /\ ~(rank[s] <= cursor)
    BY <1>1, <2>2, <2>6 DEF SkippedInv
  <2>8. rank[s] > cursor => rank[r] <= rank[s]
    BY <2>2, <2>6 DEF NextStartable, First
  <2>9. rank[s] \in Nat /\ rank[r] \in Nat
    BY <1>1, <2>4 DEF QueueInv, IInv, QTypeOK
  <2> QED BY <2>7, <2>8, <2>9
<1>2. Init => SkippedInv
  BY DEF Init, SkippedInv
<1>3. SkippedInv /\ RecoveryInv /\ HostInv /\ QueueInv /\ RankInv /\ [Next]_vars => SkippedInv'
  BY SkippedStep
<1>4. Spec => []RankInv
  BY LsiImplementsContract, RanksAreAnOrder, PTL DEF QueueContract
<1>5. Spec => []OneObjectPerNexus
  BY LsiImplementsScsi, NexusesNotSplit, PTL
<1> QED BY <1>1, <1>2, <1>3, <1>4, <1>5, RecoveryInvariance, PTL DEF Spec, NexusFifo

-----------------------------------------------------------------------------
(* Ages and the range of the clock                                         *)

\* No pending request is older than before; a new one has just been submitted.
NotOlder ==
    \A r \in Requests : IsPending(r)' => age'[r] = 0 \/ (IsPending(r) /\ age'[r] = age[r])

\* Requests get older by the clock only.
LEMMA OnlyTheClockAges == ASSUME IInv, [QNext]_qvars, now' = now PROVE NotOlder
<1> USE DEF NotOlder, IsPending
<1>0. age \in [Requests -> 0 .. ClockModulus] /\ state \in [Requests -> States]
  BY DEF IInv, QTypeOK
<1>1. CASE UNCHANGED qvars
  BY <1>1 DEF qvars
<1>2. ASSUME NEW r \in Requests, NEW t \in TimeoutArgs, Enqueue(r, t) PROVE NotOlder
  BY <1>0, <1>2 DEF Enqueue
<1>3. ASSUME NEW S, NEW st, NEW q, CompleteAll(S, st, q) PROVE NotOlder
  BY <1>0, <1>3 DEF CompleteAll
<1>4. ASSUME NEW r \in Requests, StartActive(r) PROVE NotOlder
  BY <1>0, <1>4 DEF StartActive
<1>5. ASSUME NEW q, FailAll(q) PROVE NotOlder
  BY <1>0, <1>5 DEF FailAll, FailedState
<1>6. ~Tick
  <2>1. /\ now \in 0 .. ClockModulus - 1 /\ ClockModulus \in Nat
        /\ now + 1 < ClockModulus => (now + 1) % ClockModulus = now + 1
        /\ now + 1 = ClockModulus => (now + 1) % ClockModulus = 0
    BY NextMillisecond, ClockRange DEF IInv, QTypeOK
  <2>2. ClockModulus > 1
    BY ClockRange, ClockAssumption
  <2>3. (now + 1) % ClockModulus # now
    BY <2>1, <2>2
  <2> QED BY <2>3 DEF Tick
<1>7. ASSUME NEW r \in Requests, HardwareDone(r) \/ HardwareStop \/ Prune PROVE NotOlder
  BY <1>7 DEF HardwareDone, HardwareStop, Prune
<1>8. (HardwareStop \/ Prune) => NotOlder
  BY DEF HardwareStop, Prune
<1> QED
  BY <1>1, <1>2, <1>3, <1>4, <1>5, <1>6, <1>7, <1>8
     DEF QNext, StartExpired, Answer, ExpireQueued, FailAllQuiesced

\* The states of Service, and of a recovery, in which the deadlines have not been
\* looked at since Service began.
Unchecked == {"drain", "timeout", "reset", "failall"}

\* A pending request was not expired when Service last looked at it, or is still to
\* be looked at: its age is its timeout at most, plus the time Service was away.
AgeInv ==
    /\ lag \in 0 .. MaxLatency
    /\ \A r \in Requests : IsPending(r) =>
          age[r] < MaxTimeout + lag + (IF pc \in Unchecked THEN MaxLatency ELSE 0)

\* Every step keeps the bound on ages, which is useful while it is below the clock's
\* range: there the expiry test is exact.
LEMMA AgeStep ==
    ASSUME MaxTimeout + 2 * MaxLatency <= ClockModulus,
           AgeInv, RecoveryInv, HostInv, QueueInv, [Next]_vars
    PROVE  AgeInv'
<1> USE DEF hostVars, driverVars, iocVars, irqVars
<1>1. /\ MaxLatency \in Nat /\ MaxTimeout \in Nat /\ MaxTimeout >= 1 /\ ClockModulus \in Nat
      /\ \A r \in Requests : age[r] \in Nat /\ timeout_ms[r] \in 0 .. MaxTimeout
      /\ lag \in 0 .. MaxLatency
  BY ClockRange, ClockAssumption, LsiAssumption DEF AgeInv, QueueInv, IInv, QTypeOK
<1>2. ASSUME now' = now PROVE NotOlder
  <2>1. [QNext]_qvars
    BY LsiRefinement, StepRefinement DEF QueueInv
  <2> QED BY <1>2, <2>1, OnlyTheClockAges DEF QueueInv
<1>3. ASSUME now' = now, lag' = lag, pc \in Unchecked => pc' \in Unchecked PROVE AgeInv'
  <2> SUFFICES ASSUME NEW r \in Requests, IsPending(r)'
               PROVE  age'[r] < MaxTimeout + lag + (IF pc' \in Unchecked THEN MaxLatency ELSE 0)
    BY <1>1, <1>3 DEF AgeInv
  <2>1. CASE age'[r] = 0
    BY <1>1, <2>1
  <2>2. CASE IsPending(r) /\ age'[r] = age[r]
    BY <1>1, <1>3, <2>2 DEF AgeInv
  <2> QED BY <1>2, <1>3, <2>1, <2>2 DEF NotOlder
<1>4. ASSUME lag' \in 0 .. MaxLatency, \A r \in Requests : ~IsPending(r)' PROVE AgeInv'
  BY <1>4 DEF AgeInv
<1>5. UNCHANGED qvars => now' = now
  BY DEF qvars
<1>6. CASE UNCHANGED vars
  BY <1>3, <1>5, <1>6 DEF vars, lvars
<1>7. \A S, st, q : CompleteAll(S, st, q) => now' = now
  BY DEF CompleteAll
<1>8. ASSUME ~IsReady PROVE \A r \in Requests : ~IsPending(r)
  BY <1>8 DEF RecoveryInv, QueueInv, IInv, PinsAndOwnership, IsPending, Queue
<1>9. ASSUME HostContinue PROVE AgeInv'
  <2>1. FinishEnqueue => AgeInv'
    BY <1>3, <1>5, <1>7 DEF FinishEnqueue, AnswerFromCache, InvalidateSense, Answer, Unchecked
  <2>2. StartQueuedBegin => AgeInv'
    BY <1>3, <1>7 DEF StartQueuedBegin, ExpireQueued, Unchecked
  <2>3. ASSUME NEW r \in Requests, StartOne(r) PROVE AgeInv'
    <3>1. lag' = lag /\ pc' = pc /\ now' = now
      BY <1>7, <2>3 DEF StartOne, StartCommand, StartCommandExpired, StartActive, StartExpired
    <3> QED BY <1>3, <3>1
  <2>4. StartQueuedEnd \/ Return \/ ServicePrune => AgeInv'
    BY <1>3, <1>5 DEF StartQueuedEnd, Return, ServicePrune, PruneQueue, Prune, Unchecked
  <2>5. ResetConfirmed => AgeInv'
    BY <1>3 DEF ResetConfirmed, HardwareStop, Unchecked
  <2>6. ASSUME ResetFailed \/ FailOutstanding PROVE AgeInv'
    <3>1. lag' = lag /\ (FailQueue(FALSE) \/ FailQueue(TRUE))
      BY <2>6 DEF ResetFailed, FailOutstanding
    <3>2. \A r \in Requests : ~IsPending(r)'
      BY <3>1, FailAllFinishes DEF QueueInv, IsPending
    <3> QED BY <1>1, <1>4, <3>1, <3>2
  <2>7. InitializeOk \/ InitializeFailed => AgeInv'
    BY <1>3, <1>5 DEF InitializeOk, InitializeFailed, Unchecked
  <2>8. ASSUME NEW p \in replies, NEW r \in Requests, DrainAnswer(p, r) PROVE AgeInv'
    BY <1>3, <1>7, <2>8 DEF DrainAnswer, CompleteCommand, Answer
  <2>9. ASSUME NEW p \in replies, DrainAnomaly(p) PROVE AgeInv'
    BY <1>3, <1>5, <2>9 DEF DrainAnomaly, EnterRecover, Unchecked
  <2>10. DrainEmpty \/ ServiceTimeout => AgeInv'
    BY <1>3, <1>5 DEF DrainEmpty, ServiceTimeout, EnterRecover, Unchecked
  <2>11. ASSUME ServiceExpireQueued PROVE AgeInv'
    <3>1. /\ pc = "timeout" /\ pc' = "sweep" /\ lag' = lag /\ now' = now
          /\ ~AnyExpired("Active") /\ ExpireQueued
      BY <1>7, <2>11 DEF ServiceExpireQueued, ExpireQueued
    <3> SUFFICES ASSUME NEW r \in Requests, IsPending(r)' PROVE age'[r] < MaxTimeout + lag
      BY <1>1, <3>1 DEF AgeInv, Unchecked
    <3>2. CASE age'[r] = 0
      BY <1>1, <3>2
    <3>3. CASE IsPending(r) /\ age'[r] = age[r]
      <4>1. age[r] < ClockModulus
        BY <1>1, <3>1, <3>3 DEF AgeInv, Unchecked
      <4>2. r \in Queue
        BY <3>3 DEF QueueInv, IInv, PinsAndOwnership, Queue
      <4>3. ~HasExpired(r)
        <5>1. CASE state[r] = "Active"
          BY <3>1, <4>2, <5>1 DEF AnyExpired
        <5>2. CASE state[r] = "Queued"
          <6> SUFFICES ASSUME HasExpired(r) PROVE state'[r] = "Completed"
            BY DEF IsPending
          <6> QED BY <3>1, <4>2, <5>2 DEF ExpireQueued, CompleteAll, Queue
        <5> QED BY <3>3, <5>1, <5>2 DEF IsPending
      <4>4. age[r] < timeout_ms[r]
        BY <1>1, <3>3, <4>1, <4>3 DEF HasExpired, HasExpiredAt, QueueInv, IInv, AgeExact
      <4> QED BY <1>1, <3>3, <4>4
    <3> QED BY <1>2, <3>1, <3>2, <3>3 DEF NotOlder
  <2> QED
    BY <1>9, <2>1, <2>2, <2>3, <2>4, <2>5, <2>6, <2>7, <2>8, <2>9, <2>10, <2>11 DEF HostContinue
<1>10. ASSUME HostCall PROVE AgeInv'
  <2>1. ASSUME NEW r \in Requests, NEW n \in Nexuses, NEW op \in Opcodes,
               NEW t \in TimeoutArgs, NEW o \in Origins, SubmitAddressed(r, n, op, t, o)
        PROVE  AgeInv'
    BY <1>3, <2>1 DEF SubmitAddressed, Submit, Enqueue, Unchecked
  <2>2. ASSUME NEW r \in Requests, NEW n \in Nexuses, NEW o \in Origins,
               NEW p \in FailurePoints, SubmitRejected(r, n, o, p)
        PROVE  AgeInv'
    BY <1>3, <1>5, <2>2 DEF SubmitRejected, SubmitFails, Unchecked
  <2>3. ASSUME ServiceBegin PROVE AgeInv'
    <3>1. lag' = 0 /\ pc = "idle" /\ UNCHANGED <<state, age>>
      BY <2>3 DEF ServiceBegin, qvars
    <3>2. CASE ~IsReady
      BY <1>1, <1>4, <1>8, <3>1, <3>2 DEF IsPending
    <3>3. CASE IsReady
      <4>1. pc' \in Unchecked /\ pc \notin Unchecked
        BY <2>3, <3>1, <3>3 DEF ServiceBegin, EnterRecover, Unchecked
      <4>2. \A r \in Requests : IsPending(r) => age[r] < MaxTimeout + lag
        BY <1>1, <4>1 DEF AgeInv
      <4>3. \A r \in Requests : IsPending(r) => age[r] < MaxTimeout + MaxLatency
        BY <1>1, <4>2
      <4> QED BY <1>1, <3>1, <4>1, <4>3 DEF AgeInv, IsPending
    <3> QED BY <3>2, <3>3
  <2>4. Recover => AgeInv'
    BY <1>3, <1>5 DEF Recover, EnterRecover, Unchecked
  <2>5. ASSUME NEW b \in InterruptModes, SetInterrupts(b) PROVE AgeInv'
    BY <1>3, <1>5, <2>5 DEF SetInterrupts
  <2> QED BY <1>10, <2>1, <2>2, <2>3, <2>4, <2>5 DEF HostCall
<1>11. ASSUME Environment PROVE AgeInv'
  <2>1. InterruptTest \/ InterruptMask \/ PostStray \/ IocFault => AgeInv'
    BY <1>3, <1>5 DEF InterruptTest, InterruptMask, PostStray, IocFault
  <2>2. ASSUME NEW r \in Requests, NEW out \in Outcomes, NEW f \in BOOLEAN, PostReply(r, out, f)
        PROVE  AgeInv'
    BY <1>3, <2>2 DEF PostReply, HardwareDone
  <2>3. ASSUME NEW r \in Requests, ClientDrops(r) PROVE AgeInv'
    BY <1>3, <1>5, <2>3 DEF ClientDrops, DropHandle, lvars
  <2>4. ASSUME ClockTick PROVE AgeInv'
    <3>1. lag < MaxLatency /\ lag' = lag + 1 /\ pc' = pc /\ UNCHANGED state
      BY <2>4 DEF ClockTick, Tick
    <3>2. \A r \in Requests : age'[r] = age[r] \/ age'[r] = age[r] + 1
      BY <2>4 DEF ClockTick, Tick
    <3> DEFINE b == IF pc \in Unchecked THEN MaxLatency ELSE 0
    <3>3. b \in Nat /\ (IF pc' \in Unchecked THEN MaxLatency ELSE 0) = b
      BY <1>1, <3>1
    <3>4. \A r \in Requests : IsPending(r) => age[r] < MaxTimeout + lag + b
      BY DEF AgeInv
    <3> HIDE DEF b
    <3>5. \A r \in Requests : IsPending(r) => age'[r] < MaxTimeout + (lag + 1) + b
      BY <1>1, <3>2, <3>3, <3>4
    <3>6. lag + 1 \in 0 .. MaxLatency
      BY <1>1, <3>1
    <3> QED BY <3>1, <3>3, <3>5, <3>6 DEF AgeInv, IsPending
  <2> QED BY <1>11, <2>1, <2>2, <2>3, <2>4 DEF Environment
<1> QED BY <1>6, <1>9, <1>10, <1>11 DEF Next

\* No pending request gets as old as the clock's range, where the unsigned difference
\* would mistake it for a young one, provided the host calls Service often enough:
\* the longest timeout and two periods of Service fit in the range.
THEOREM LsiAgeUnambiguous ==
    MaxTimeout + 2 * MaxLatency <= ClockModulus => (Spec => []AgeUnambiguous)
<1> SUFFICES ASSUME MaxTimeout + 2 * MaxLatency <= ClockModulus
             PROVE  Spec => []AgeUnambiguous
  OBVIOUS
<1>1. Init => AgeInv
  BY LsiAssumption DEF Init, SInit, QInit, AgeInv, IsPending
<1>2. AgeInv /\ RecoveryInv /\ HostInv /\ QueueInv /\ [Next]_vars => AgeInv'
  BY AgeStep
<1>3. AgeInv /\ QueueInv => AgeUnambiguous
  <2> SUFFICES ASSUME AgeInv, QueueInv, NEW r \in Requests, IsPending(r)
               PROVE  age[r] < ClockModulus
    BY DEF AgeUnambiguous
  <2>1. /\ MaxLatency \in Nat /\ MaxTimeout \in Nat /\ ClockModulus \in Nat
        /\ age[r] \in Nat /\ lag \in 0 .. MaxLatency
    BY ClockRange, LsiAssumption DEF AgeInv, QueueInv, IInv, QTypeOK
  <2>2. age[r] < MaxTimeout + lag + MaxLatency
    BY <2>1 DEF AgeInv
  <2> QED BY <2>1, <2>2
<1> QED BY <1>1, <1>2, <1>3, RecoveryInvariance, PTL DEF Spec

=============================================================================
