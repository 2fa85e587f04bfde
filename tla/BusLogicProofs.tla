---------------------------- MODULE BusLogicProofs ----------------------------
(***************************************************************************)
(* Proofs about BusLogic, for every number of requests, mailboxes, bus     *)
(* addresses and logical units and whatever the adapter does.              *)
(*                                                                         *)
(* The driver implements the SCSI command queue, whose theorems it         *)
(* inherits, and a bus address the adapter can still write to belongs to   *)
(* one request.  A started command is in one place, an outbox, the adapter *)
(* or an inbox, and active_count counts the places: so answers reach their *)
(* request and the mailboxes suffice.  For a host that switches interrupts *)
(* with nothing in flight, no wakeup is lost.                              *)
(***************************************************************************)
EXTENDS BusLogic, ScsiCommandQueueProofs

\* Where the host thread is, and what it has told the queue: Enqueue is finished
\* before anything else happens, and after a confirmed reset nothing is started
\* before FailAll.
HostInv ==
    /\ EnqueuedTyped
    /\ pc # "enqueue" => enqueued = NoObject
    /\ pc = "failall" => device = {}

-----------------------------------------------------------------------------
(* Implementation of the SCSI command queue                                *)

\* Every step of driver and adapter is a step of the SCSI command queue or leaves
\* it alone.
LEMMA BusRefinement ==
    ASSUME HostInv, [Next]_vars PROVE [SNext]_<<qvars, svars>>
<1> USE DEF HostInv
<1> SUFFICES ASSUME Next PROVE SNext \/ UNCHANGED <<qvars, svars>>
  BY DEF vars
<1>1. ASSUME HostContinue PROVE SNext \/ UNCHANGED <<qvars, svars>>
  <2>1. FinishEnqueue => SNext
    BY DEF FinishEnqueue, SNext, HostStep
  <2>2. StartQueuedBegin \/ ServiceExpireQueued => SNext
    BY DEF StartQueuedBegin, ServiceExpireQueued, SNext, HostStep
  <2>3. ASSUME NEW r \in Requests, StartOne(r) PROVE SNext
    <3>1. pc = "start" /\ (StartCommand(r) \/ StartCommandExpired(r))
      BY <2>3 DEF StartOne
    <3> QED BY <3>1 DEF SNext, HostStep
  <2>4. StartQueuedEnd \/ InitializeOk \/ InitializeFailed \/ RestoreInterrupts
          => UNCHANGED <<qvars, svars>>
    BY DEF StartQueuedEnd, InitializeOk, InitializeFailed, RestoreInterrupts
  <2>5. Return \/ ServicePrune => SNext
    BY DEF Return, ServicePrune, SNext, HostStep
  <2>6. ResetConfirmed => SNext
    BY DEF ResetConfirmed, SNext, HardwareStep
  <2>7. ResetFailed \/ FailOutstanding => SNext
    BY DEF ResetFailed, FailOutstanding, SNext, HostStep
  <2>8. ScanSkip \/ ScanStray \/ ScanDone \/ AckTest \/ AckReset \/ Rescan \/ ServiceTimeout
          => UNCHANGED <<qvars, svars>>
    BY DEF ScanSkip, ScanStray, ScanDone, AckTest, AckReset, Rescan, ServiceTimeout
  <2>9. ASSUME NEW r \in Requests, ScanTake(r) PROVE SNext
    <3> DEFINE out == inboxes[cursor].outcome
    <3>1. state[r] = "Active" /\ enqueued = NoObject /\ CompleteCommand(r, out)
      BY <2>9 DEF ScanTake, Match
    <3>2. out \in Outcomes
      BY <3>1 DEF CompleteCommand, OutcomesOf, Outcomes
    <3> QED BY <3>1, <3>2 DEF SNext, HostStep
  <2> QED BY <1>1, <2>1, <2>2, <2>3, <2>4, <2>5, <2>6, <2>7, <2>8, <2>9 DEF HostContinue
<1>2. ASSUME HostCall PROVE SNext \/ UNCHANGED <<qvars, svars>>
  <2>1. ASSUME NEW r \in Requests, NEW n \in Nexuses, NEW op \in Opcodes,
               NEW t \in TimeoutArgs, NEW o \in Origins, SubmitScsi(r, n, op, t, o)
        PROVE  SNext
    BY <2>1 DEF SubmitScsi, SNext, HostStep
  <2>2. ASSUME NEW r \in Requests, NEW n \in Nexuses, NEW o \in Origins,
               NEW p \in FailurePoints, SubmitRejected(r, n, o, p)
        PROVE  SNext
    BY <2>2 DEF SubmitRejected, SNext, HostStep
  <2>3. ServiceBegin \/ Recover => UNCHANGED <<qvars, svars>>
    BY DEF ServiceBegin, Recover
  <2>4. ASSUME NEW b \in InterruptModes, SetInterrupts(b) PROVE UNCHANGED <<qvars, svars>>
    BY <2>4 DEF SetInterrupts
  <2> QED BY <1>2, <2>1, <2>2, <2>3, <2>4 DEF HostCall
<1>3. ASSUME Environment PROVE SNext \/ UNCHANGED <<qvars, svars>>
  <2>1. OnInterrupt => UNCHANGED <<qvars, svars>>
    BY DEF OnInterrupt
  <2>2. ASSUME NEW i \in Boxes, TakeOutbox(i) \/ FillStray(i) PROVE UNCHANGED <<qvars, svars>>
    BY <2>2 DEF TakeOutbox, FillStray
  <2>3. ASSUME NEW r \in Requests, NEW i \in Boxes, NEW out \in Outcomes,
               FillInbox(r, i, out)
        PROVE  SNext
    BY <2>3 DEF FillInbox, SNext, HardwareStep
  <2>4. ASSUME NEW r \in Requests, ClientDrops(r) PROVE SNext
    BY <2>4 DEF ClientDrops, SNext
  <2>5. ClockTick => SNext
    BY DEF ClockTick, SNext
  <2> QED BY <1>3, <2>1, <2>2, <2>3, <2>4, <2>5 DEF Environment
<1> QED BY <1>1, <1>2, <1>3 DEF Next

\* What a step does to the host's position, the submission in progress and the
\* hardware.
LEMMA HostInvStep ==
    ASSUME HostInv, [Next]_vars PROVE HostInv'
<1>1. EnqueuedTyped'
  BY BusRefinement, EnqueuedStep DEF HostInv
<1> SUFFICES ASSUME Next
             PROVE  /\ pc' # "enqueue" => enqueued' = NoObject
                    /\ pc' = "failall" => device' = {}
  BY <1>1 DEF HostInv, vars, svars, qvars, bvars, hostVars
<1> USE DEF HostInv
<1> DEFINE Goal == /\ pc' # "enqueue" => enqueued' = NoObject
                   /\ pc' = "failall" => device' = {}
<1>2. ASSUME UNCHANGED <<qvars, svars>>, pc' = pc \/ (pc # "enqueue" /\ pc' # "failall")
      PROVE  Goal
  BY <1>2 DEF qvars, svars
<1>3. ASSUME pc # "enqueue", pc' # "failall", UNCHANGED enqueued PROVE Goal
  BY <1>3
<1>4. ASSUME HostContinue PROVE Goal
  <2>1. FinishEnqueue => Goal
    BY DEF FinishEnqueue, AnswerFromCache, InvalidateSense
  <2>2. StartQueuedBegin \/ ServiceExpireQueued => Goal
    BY <1>3 DEF StartQueuedBegin, ServiceExpireQueued, svars
  <2>3. ASSUME NEW r \in Requests, StartOne(r) PROVE Goal
    <3>1. pc = "start" /\ pc' = pc /\ (StartCommand(r) \/ StartCommandExpired(r))
      BY <2>3 DEF StartOne
    <3> QED BY <3>1, <1>3 DEF StartCommand, StartCommandExpired, svars
  <2>4. StartQueuedEnd \/ InitializeOk \/ InitializeFailed \/ RestoreInterrupts => Goal
    BY <1>2 DEF StartQueuedEnd, InitializeOk, InitializeFailed, RestoreInterrupts
  <2>5. Return \/ ServicePrune => Goal
    BY <1>3 DEF Return, ServicePrune, PruneQueue
  <2>6. ResetConfirmed => Goal
    BY DEF ResetConfirmed, HardwareStop, svars
  <2>7. ResetFailed \/ FailOutstanding => Goal
    BY <1>3 DEF ResetFailed, FailOutstanding, FailQueue
  <2>8. ScanSkip \/ ScanDone \/ AckTest \/ AckReset \/ Rescan => Goal
    BY <1>2 DEF ScanSkip, ScanDone, AckTest, AckReset, Rescan
  <2>9. ScanStray \/ ServiceTimeout => Goal
    BY <1>2 DEF ScanStray, ServiceTimeout, EnterRecover
  <2>10. ASSUME NEW r \in Requests, ScanTake(r) PROVE Goal
    BY <2>10, <1>3 DEF ScanTake, CompleteCommand
  <2> QED BY <1>4, <2>1, <2>2, <2>3, <2>4, <2>5, <2>6, <2>7, <2>8, <2>9, <2>10
          DEF HostContinue
<1>5. ASSUME HostCall PROVE Goal
  <2>1. ASSUME NEW r \in Requests, NEW n \in Nexuses, NEW op \in Opcodes,
               NEW t \in TimeoutArgs, NEW o \in Origins, SubmitScsi(r, n, op, t, o)
        PROVE  Goal
    BY <2>1 DEF SubmitScsi
  <2>2. ASSUME NEW r \in Requests, NEW n \in Nexuses, NEW o \in Origins,
               NEW p \in FailurePoints, SubmitRejected(r, n, o, p)
        PROVE  Goal
    BY <2>2, <1>3 DEF SubmitRejected, SubmitFails
  <2>3. ServiceBegin \/ Recover => Goal
    BY <1>2 DEF ServiceBegin, Recover, EnterRecover, hostVars
  <2>4. ASSUME NEW b \in InterruptModes, SetInterrupts(b) PROVE Goal
    BY <2>4, <1>2 DEF SetInterrupts, hostVars
  <2> QED BY <1>5, <2>1, <2>2, <2>3, <2>4 DEF HostCall
<1>6. ASSUME Environment PROVE Goal
  <2>1. OnInterrupt => Goal
    BY <1>2 DEF OnInterrupt, hostVars
  <2>2. ASSUME NEW i \in Boxes, TakeOutbox(i) \/ FillStray(i) PROVE Goal
    BY <2>2, <1>2 DEF TakeOutbox, FillStray, hostVars
  <2>3. ASSUME NEW r \in Requests, NEW i \in Boxes, NEW out \in Outcomes,
               FillInbox(r, i, out)
        PROVE  Goal
    BY <2>3 DEF FillInbox, HardwareDone, hostVars, svars
  <2>4. ASSUME NEW r \in Requests, ClientDrops(r) PROVE Goal
    BY <2>4 DEF ClientDrops, DropHandle, qvars, bvars, hostVars
  <2>5. ClockTick => Goal
    BY DEF ClockTick, Tick, svars, hostVars
  <2> QED BY <1>6, <2>1, <2>2, <2>3, <2>4, <2>5 DEF Environment
<1> QED BY <1>4, <1>5, <1>6 DEF Next

\* The driver with its adapter implements the SCSI command queue.
THEOREM BusImplementsScsi == Spec => SSpec
<1>1. Init => SInit /\ HostInv
  BY DEF Init, SInit, HostInv, EnqueuedTyped, Objects
<1>2. HostInv /\ [Next]_vars => HostInv' /\ [SNext]_<<qvars, svars>>
  BY HostInvStep, BusRefinement
<1> QED BY <1>1, <1>2, PTL DEF Spec, SSpec

\* It uses the request queue as its contract allows, through timeouts, stray
\* answers and failed resets.
THEOREM BusImplementsContract == Spec => QueueContract
  BY BusImplementsScsi, ImplementsContract, PTL

\* No buffer is released while the adapter can access it.
THEOREM BusBuffersSafe == Spec => []DmaSafe
  BY BusImplementsScsi, BuffersSafe, PTL

-----------------------------------------------------------------------------
(* Bus addresses                                                           *)

\* Buffers that are not released have different addresses.
AddressInv ==
    /\ address \in [Requests -> Addresses \cup {NoAddress}]
    /\ \A r, s \in Requests :
          dma[r] = "held" /\ dma[s] = "held" /\ address[r] = address[s] => r = s
    /\ \A r \in Requests : dma[r] = "held" => address[r] # NoAddress

\* A step that allocates no buffer.
NoneAllocated == \A r \in Requests : dma'[r] = "held" => dma[r] = "held"

\* The destructor only releases buffers.
LEMMA DestructAllocatesNothing ==
    ASSUME NEW own, NEW h, NEW st, NEW pin, Destruct(own, h, st, pin) PROVE NoneAllocated
  BY DEF Destruct, NoneAllocated

\* A submission gets an address no other buffer has.
LEMMA SubmitAddress ==
    ASSUME AddressInv, BufferInv,
           NEW r \in Requests, NEW n \in Nexuses, NEW op \in Opcodes,
           NEW t \in TimeoutArgs, NEW o \in Origins, SubmitScsi(r, n, op, t, o)
    PROVE  AddressInv'
<1>1. PICK a \in FreeAddresses : address' = [address EXCEPT ![r] = a]
  BY DEF SubmitScsi
<1>2. dma' = [dma EXCEPT ![r] = "held"]
  BY DEF SubmitScsi, Submit
<1>3. a \in Addresses /\ \A s \in Requests : dma[s] = "held" => address[s] # a
  BY DEF FreeAddresses
<1> QED BY <1>1, <1>2, <1>3, BusLogicAssumption DEF AddressInv, BufferInv

\* Every step keeps the addresses distinct.
LEMMA AddressStep ==
    ASSUME AddressInv, BufferInv, [Next]_vars PROVE AddressInv'
<1> DEFINE Kept == UNCHANGED address /\ NoneAllocated
<1>1. Kept => AddressInv'
  BY DEF AddressInv, NoneAllocated
<1>2. UNCHANGED dma => NoneAllocated
  BY DEF NoneAllocated
<1>3. UNCHANGED svars => NoneAllocated
  BY <1>2 DEF svars
<1>4. CASE UNCHANGED vars
  BY <1>1, <1>3, <1>4 DEF vars, bvars
<1>5. ASSUME HostContinue PROVE Kept
  <2>1. FinishEnqueue => Kept
    BY <1>2 DEF FinishEnqueue, AnswerFromCache, InvalidateSense
  <2>2. StartQueuedBegin \/ ServiceExpireQueued => Kept
    BY <1>3 DEF StartQueuedBegin, ServiceExpireQueued
  <2>3. ASSUME NEW r \in Requests, StartOne(r) PROVE Kept
    <3>1. UNCHANGED address /\ (StartCommand(r) \/ StartCommandExpired(r))
      BY <2>3 DEF StartOne
    <3> QED BY <3>1, <1>2, <1>3 DEF StartCommand, StartCommandExpired
  <2>4. StartQueuedEnd \/ InitializeOk \/ InitializeFailed \/ RestoreInterrupts => Kept
    BY <1>3 DEF StartQueuedEnd, InitializeOk, InitializeFailed, RestoreInterrupts
  <2>5. Return \/ ServicePrune => Kept
    BY DestructAllocatesNothing DEF Return, ServicePrune, PruneQueue
  <2>6. ResetConfirmed => Kept
    BY <1>3 DEF ResetConfirmed
  <2>7. ResetFailed \/ FailOutstanding => Kept
    BY DestructAllocatesNothing DEF ResetFailed, FailOutstanding, FailQueue
  <2>8. ScanSkip \/ ScanStray \/ ScanDone \/ AckTest \/ AckReset \/ Rescan \/ ServiceTimeout
          => Kept
    BY <1>3 DEF ScanSkip, ScanStray, ScanDone, AckTest, AckReset, Rescan, ServiceTimeout
  <2>9. ASSUME NEW r \in Requests, ScanTake(r) PROVE Kept
    BY <2>9, <1>2 DEF ScanTake, CompleteCommand
  <2> HIDE DEF Kept
  <2> QED BY <1>5, <2>1, <2>2, <2>3, <2>4, <2>5, <2>6, <2>7, <2>8, <2>9 DEF HostContinue
<1>6. ASSUME HostCall PROVE AddressInv'
  <2>1. ASSUME NEW r \in Requests, NEW n \in Nexuses, NEW op \in Opcodes,
               NEW t \in TimeoutArgs, NEW o \in Origins, SubmitScsi(r, n, op, t, o)
        PROVE  AddressInv'
    BY <2>1, SubmitAddress
  <2>2. ASSUME NEW r \in Requests, NEW n \in Nexuses, NEW o \in Origins,
               NEW p \in FailurePoints, SubmitRejected(r, n, o, p)
        PROVE  Kept
    BY <2>2, <1>2 DEF SubmitRejected, SubmitFails
  <2>3. ServiceBegin \/ Recover => Kept
    BY <1>3 DEF ServiceBegin, Recover
  <2>4. ASSUME NEW b \in InterruptModes, SetInterrupts(b) PROVE Kept
    BY <2>4, <1>3 DEF SetInterrupts
  <2> HIDE DEF Kept
  <2> QED BY <1>1, <1>6, <2>1, <2>2, <2>3, <2>4 DEF HostCall
<1>7. ASSUME Environment PROVE Kept
  <2>1. OnInterrupt => Kept
    BY <1>3 DEF OnInterrupt
  <2>2. ASSUME NEW i \in Boxes, TakeOutbox(i) \/ FillStray(i) PROVE Kept
    BY <2>2, <1>3 DEF TakeOutbox, FillStray
  <2>3. ASSUME NEW r \in Requests, NEW i \in Boxes, NEW out \in Outcomes,
               FillInbox(r, i, out)
        PROVE  Kept
    BY <2>3, <1>3 DEF FillInbox
  <2>4. ASSUME NEW r \in Requests, ClientDrops(r) PROVE Kept
    BY <2>4, DestructAllocatesNothing DEF ClientDrops, DropHandle, bvars
  <2>5. ClockTick => Kept
    BY <1>3 DEF ClockTick
  <2> HIDE DEF Kept
  <2> QED BY <1>7, <2>1, <2>2, <2>3, <2>4, <2>5 DEF Environment
<1> HIDE DEF Kept
<1> QED BY <1>1, <1>4, <1>5, <1>6, <1>7 DEF Next

\* The address of a buffer the adapter can still write to is not given to another
\* request, whatever fails.
THEOREM BusAddressesDistinct == Spec => []AddressesDistinct
<1>1. Init => AddressInv
  BY DEF Init, SInit, AddressInv
<1>2. BufferInv /\ AddressInv /\ [Next]_vars => AddressInv'
  BY AddressStep
<1>3. Spec => [](IInv /\ BufferInv)
  BY BusImplementsScsi, BufferInvariance, PTL
<1>4. IInv /\ AddressInv /\ DmaSafe => AddressesDistinct
  BY DEF IInv, QTypeOK, AddressInv, DmaSafe, AddressesDistinct
<1> QED BY <1>1, <1>2, <1>3, <1>4, BusBuffersSafe, PTL DEF Spec

-----------------------------------------------------------------------------
(* Mailboxes: the inductive invariant                                      *)

\* The driver is ready and its commands have not been forgotten by a reset.
InService == IsReady /\ pc # "failall"

\* What an inbox can hold.
InboxContents == {Free, Stray} \cup [addr : Addresses, outcome : Outcomes, req : Requests]

\* Types of the mailboxes and of what the adapter works on.
BoxTypes ==
    /\ outboxes \in [Boxes -> Addresses \cup {NoAddress}]
    /\ inboxes \in [Boxes -> InboxContents]
    /\ working \subseteq Addresses /\ IsFiniteSet(working)

\* Where the recovery is: nothing is started between a confirmed reset and the end
\* of the recovery, and the mailboxes are set up again with the same number.
PhaseInv ==
    /\ mailbox_count \in {0, Mailboxes} /\ count \in {0, Mailboxes}
    /\ next_outbox_index \in Boxes
    /\ pc = "scan" => cursor \in Nat \ {0}
    /\ pc = "failall" => working = {}
    /\ pc = "init" => mailbox_count = 0
    /\ pc \in {"init", "restore"} =>
          Active = {} /\ active_count = 0 /\ device = {} /\ working = {}

\* A started command is in one place: its address in an outbox or with the
\* adapter, or its answer in an inbox.
PlacesInv ==
    /\ \A i \in Boxes : outboxes[i] # NoAddress =>
          /\ outboxes[i] \notin working
          /\ \E r \in device : address[r] = outboxes[i]
    /\ \A i, j \in Boxes : outboxes[i] # NoAddress /\ outboxes[i] = outboxes[j] => i = j
    /\ \A a \in working : \E r \in device : address[r] = a
    /\ \A r \in device : state[r] = "Active"
    /\ \A i \in Answers :
          /\ inboxes[i].req \notin device /\ state[inboxes[i].req] = "Active"
          /\ inboxes[i].addr = address[inboxes[i].req]
    /\ \A i, j \in Answers : inboxes[i].req = inboxes[j].req => i = j

\* Outboxes the adapter has not read yet.
UsedOutboxes == {i \in Boxes : outboxes[i] # NoAddress}

\* The driver's counter counts the started commands and the places they take.
CountsInv ==
    /\ active_count = Cardinality(Active)
    /\ active_count <= mailbox_count
    /\ Cardinality(device) = Cardinality(UsedOutboxes) + Cardinality(working)
    /\ active_count = Cardinality(device) + Cardinality(Answers)

\* The inductive invariant: places and counts agree while the driver is in service.
BusInv ==
    /\ BoxTypes
    /\ PhaseInv
    /\ InService => PlacesInv /\ CountsInv

\* What the adapter's steps rely on.
QueueInv == IInv /\ BufferInv /\ EnqueuedTyped /\ EnqueuedWaits /\ AddressInv

-----------------------------------------------------------------------------
(* Types and phases                                                        *)

\* The arrays of mailboxes are finite.
LEMMA BoxesFinite ==
    /\ Mailboxes \in Nat \ {0} /\ IsFiniteSet(Boxes) /\ Cardinality(Boxes) = Mailboxes
  BY BusLogicAssumption, FS_Interval DEF Boxes

\* An empty mailbox carries no answer.
LEMMA InboxKinds ==
    /\ Free \in InboxContents /\ Stray \in InboxContents
    /\ Free.req = NoObject /\ Stray.req = NoObject
    /\ Free.outcome = "free" /\ Stray.addr = NoAddress
  BY DEF Free, Stray, InboxContents

\* Every step keeps the types of the mailboxes.
LEMMA BoxTypesStep ==
    ASSUME BoxTypes, QueueInv, [Next]_vars PROVE BoxTypes'
<1> DEFINE Kept == UNCHANGED boxVars
<1>1. Kept => BoxTypes'
  BY DEF BoxTypes, boxVars
<1>2. CASE UNCHANGED vars
  BY <1>1, <1>2 DEF vars, bvars
<1>3. FreeOutboxes \in [Boxes -> Addresses \cup {NoAddress}] /\ FreeInboxes \in [Boxes -> InboxContents]
  BY InboxKinds DEF FreeOutboxes, FreeInboxes
<1>4. ASSUME HostContinue PROVE BoxTypes'
  <2>1. FinishEnqueue \/ StartQueuedBegin \/ StartQueuedEnd \/ Return \/ ResetFailed
          \/ FailOutstanding \/ RestoreInterrupts \/ ScanSkip \/ ScanStray \/ ScanDone
          \/ AckTest \/ AckReset \/ Rescan \/ ServiceTimeout \/ ServiceExpireQueued
          \/ ServicePrune => Kept
    BY DEF FinishEnqueue, StartQueuedBegin, StartQueuedEnd, Return, ResetFailed,
           FailOutstanding, RestoreInterrupts, ScanSkip, ScanStray, ScanDone, AckTest,
           AckReset, Rescan, ServiceTimeout, ServiceExpireQueued, ServicePrune
  <2>2. ASSUME NEW r \in Requests, StartOne(r) PROVE BoxTypes'
    <3>1. UNCHANGED <<inboxes, working>>
      BY <2>2 DEF StartOne
    <3>2. outboxes' = outboxes \/ \E i \in Boxes : outboxes' = [outboxes EXCEPT ![i] = address[r]]
      BY <2>2 DEF StartOne
    <3> QED BY <3>1, <3>2 DEF BoxTypes, QueueInv, AddressInv
  <2>3. ResetConfirmed => BoxTypes'
    BY FS_EmptySet DEF ResetConfirmed, BoxTypes
  <2>4. InitializeOk \/ InitializeFailed => BoxTypes'
    BY <1>3 DEF InitializeOk, InitializeFailed, ClearMailboxes, BoxTypes
  <2>5. ASSUME NEW r \in Requests, ScanTake(r) PROVE BoxTypes'
    BY <2>5, InboxKinds DEF ScanTake, BoxTypes
  <2> HIDE DEF Kept
  <2> QED BY <1>1, <1>4, <2>1, <2>2, <2>3, <2>4, <2>5 DEF HostContinue
<1>5. ASSUME HostCall PROVE Kept
  BY <1>5 DEF HostCall, SubmitScsi, SubmitRejected, ServiceBegin, Recover, SetInterrupts
<1>6. ASSUME Environment PROVE BoxTypes'
  <2>1. OnInterrupt \/ ClockTick => Kept
    BY DEF OnInterrupt, ClockTick
  <2>2. ASSUME NEW r \in Requests, ClientDrops(r) PROVE Kept
    BY <2>2 DEF ClientDrops, bvars
  <2>3. ASSUME NEW i \in Boxes, TakeOutbox(i) PROVE BoxTypes'
    <3>1. outboxes[i] \in Addresses /\ outboxes' = [outboxes EXCEPT ![i] = NoAddress]
          /\ working' = working \cup {outboxes[i]} /\ UNCHANGED inboxes
      BY <2>3 DEF TakeOutbox, BoxTypes
    <3>2. IsFiniteSet(working')
      BY <3>1, FS_AddElement DEF BoxTypes
    <3> QED BY <3>1, <3>2 DEF BoxTypes
  <2>4. ASSUME NEW r \in Requests, NEW i \in Boxes, NEW out \in Outcomes, FillInbox(r, i, out)
        PROVE  BoxTypes'
    <3>1. /\ address[r] \in working /\ working' = working \ {address[r]} /\ UNCHANGED outboxes
          /\ inboxes' = [inboxes EXCEPT ![i] = [addr |-> address[r], outcome |-> out, req |-> r]]
      BY <2>4 DEF FillInbox
    <3>2. [addr |-> address[r], outcome |-> out, req |-> r] \in InboxContents
      BY <3>1 DEF BoxTypes, InboxContents
    <3>3. IsFiniteSet(working')
      BY <3>1, FS_RemoveElement DEF BoxTypes
    <3> QED BY <3>1, <3>2, <3>3 DEF BoxTypes
  <2>5. ASSUME NEW i \in Boxes, FillStray(i) PROVE BoxTypes'
    BY <2>5, InboxKinds DEF FillStray, BoxTypes
  <2> HIDE DEF Kept
  <2> QED BY <1>1, <1>6, <2>1, <2>2, <2>3, <2>4, <2>5 DEF Environment
<1> HIDE DEF Kept
<1> QED BY <1>1, <1>2, <1>4, <1>5, <1>6 DEF Next

\* Every step keeps the order of the recovery's phases.
LEMMA PhaseStep ==
    ASSUME PhaseInv, BoxTypes, HostInv, QueueInv, [Next]_vars PROVE PhaseInv'
<1> USE DEF PhaseInv, hostVars, driverVars, boxVars
<1>1. ASSUME UNCHANGED <<mailbox_count, count, next_outbox_index, working, active_count, device>>,
             SameActive, pc' = pc,
             cursor' = cursor \/ pc # "scan" \/ (cursor \in Nat => cursor' = cursor + 1)
      PROVE  PhaseInv'
  BY <1>1 DEF Active, SameActive
<1>2. ASSUME UNCHANGED <<mailbox_count, count, next_outbox_index>>,
             pc' \notin {"failall", "init", "restore"}, pc' = "scan" => cursor' = 1
      PROVE  PhaseInv'
  BY <1>2
<1>3. UNCHANGED qvars => SameActive /\ UNCHANGED device
  BY DEF qvars, SameActive
<1>4. CASE UNCHANGED vars
  BY <1>1, <1>3, <1>4 DEF vars, bvars
<1>5. ASSUME HostContinue PROVE PhaseInv'
  <2>1. FinishEnqueue \/ StartQueuedBegin \/ StartQueuedEnd \/ Return => PhaseInv'
    BY <1>2 DEF FinishEnqueue, StartQueuedBegin, StartQueuedEnd, Return
  <2>2. ASSUME NEW r \in Requests, StartOne(r) PROVE PhaseInv'
    <3>1. pc = "start" /\ pc' = "start" /\ UNCHANGED <<mailbox_count, count>>
      BY <2>2 DEF StartOne
    <3>2. \/ next_outbox_index' = next_outbox_index
          \/ \E i \in Boxes : next_outbox_index' = (i % mailbox_count) + 1 /\ active_count < mailbox_count /\ FreeOutbox(i)
      BY <2>2 DEF StartOne, HasMailbox
    <3>3. next_outbox_index' \in Boxes
      <4>1. ASSUME NEW i \in Boxes, FreeOutbox(i), mailbox_count \in {0, Mailboxes}
            PROVE  (i % mailbox_count) + 1 \in Boxes
        <5>1. PICK d \in 0 .. mailbox_count - 1 : TRUE
          BY <4>1 DEF FreeOutbox
        <5>2. mailbox_count = Mailboxes
          BY <4>1, <5>1, BoxesFinite
        <5> QED BY <5>2, BoxesFinite DEF Boxes
      <4> QED BY <3>2, <4>1
    <3> QED BY <3>1, <3>3
  <2>3. ResetConfirmed => PhaseInv'
    BY DEF ResetConfirmed
  <2>4. ResetFailed => PhaseInv'
    BY <1>2 DEF ResetFailed
  <2>5. ASSUME FailOutstanding PROVE PhaseInv'
    <3>1. \A r \in Requests : state'[r] # "Active"
      BY <2>5, FailAllEndsActive DEF FailOutstanding, QueueInv
    <3>2. device' = {} /\ working' = {}
      BY <2>5, FailAllEndsActive DEF FailOutstanding, QueueInv, HostInv
    <3>3. pc' = "init" /\ mailbox_count' = 0 /\ count' = mailbox_count /\ active_count' = 0
          /\ UNCHANGED next_outbox_index
      BY <2>5 DEF FailOutstanding
    <3> QED BY <3>1, <3>2, <3>3 DEF Active
  <2>6. ASSUME InitializeOk PROVE PhaseInv'
    <3>1. /\ pc = "init" /\ pc' = "restore" /\ count' = 0 /\ mailbox_count' = count
          /\ UNCHANGED <<active_count, working>> /\ UNCHANGED <<state, device>>
          /\ next_outbox_index' \in {1, next_outbox_index}
      BY <2>6 DEF InitializeOk, ClearMailboxes, qvars
    <3> QED BY <3>1, BoxesFinite DEF Active, Boxes
  <2>7. ASSUME InitializeFailed PROVE PhaseInv'
    <3>1. /\ pc' = "idle" /\ count' = 0 /\ mailbox_count' \in {count, mailbox_count}
          /\ next_outbox_index' \in {1, next_outbox_index}
      BY <2>7 DEF InitializeFailed, ClearMailboxes
    <3> QED BY <3>1, BoxesFinite DEF Boxes
  <2>8. RestoreInterrupts => PhaseInv'
    BY <1>2 DEF RestoreInterrupts
  <2>9. ScanSkip => PhaseInv'
    BY <1>1, <1>3 DEF ScanSkip
  <2>10. ASSUME NEW r \in Requests, ScanTake(r) PROVE PhaseInv'
    BY <2>10 DEF ScanTake
  <2>11. ScanDone \/ AckTest \/ AckReset \/ Rescan \/ ServiceExpireQueued \/ ServicePrune
           => PhaseInv'
    BY <1>2 DEF ScanDone, AckTest, AckReset, Rescan, ServiceExpireQueued, ServicePrune
  <2>12. ScanStray \/ ServiceTimeout => PhaseInv'
    BY <1>2 DEF ScanStray, ServiceTimeout, EnterRecover
  <2> HIDE DEF PhaseInv
  <2> QED BY <1>5, <2>1, <2>2, <2>3, <2>4, <2>5, <2>6, <2>7, <2>8, <2>9, <2>10, <2>11, <2>12
          DEF HostContinue
<1>6. ASSUME HostCall PROVE PhaseInv'
  <2>1. ASSUME NEW r \in Requests, NEW n \in Nexuses, NEW op \in Opcodes,
               NEW t \in TimeoutArgs, NEW o \in Origins, SubmitScsi(r, n, op, t, o)
        PROVE  PhaseInv'
    BY <1>2, <2>1 DEF SubmitScsi
  <2>2. ASSUME NEW r \in Requests, NEW n \in Nexuses, NEW o \in Origins,
               NEW p \in FailurePoints, SubmitRejected(r, n, o, p)
        PROVE  PhaseInv'
    BY <1>2, <2>2 DEF SubmitRejected
  <2>3. ServiceBegin => PhaseInv'
    BY <1>2 DEF ServiceBegin
  <2>4. Recover => PhaseInv'
    BY <1>2 DEF Recover, EnterRecover
  <2>5. ASSUME NEW b \in InterruptModes, SetInterrupts(b) PROVE PhaseInv'
    BY <1>1, <1>3, <2>5 DEF SetInterrupts
  <2> HIDE DEF PhaseInv
  <2> QED BY <1>6, <2>1, <2>2, <2>3, <2>4, <2>5 DEF HostCall
<1>7. ASSUME Environment PROVE PhaseInv'
  <2>1. OnInterrupt => PhaseInv'
    BY <1>1, <1>3 DEF OnInterrupt
  <2>2. ASSUME NEW i \in Boxes, TakeOutbox(i) PROVE PhaseInv'
    <3>1. device # {} /\ UNCHANGED <<hostVars, driverVars>>
      BY <2>2 DEF TakeOutbox
    <3> QED BY <3>1 DEF HostInv
  <2>3. ASSUME NEW r \in Requests, NEW i \in Boxes, NEW out \in Outcomes, FillInbox(r, i, out)
        PROVE  PhaseInv'
    <3>1. device # {} /\ UNCHANGED <<hostVars, driverVars>>
      BY <2>3 DEF FillInbox
    <3> QED BY <3>1 DEF HostInv
  <2>4. ASSUME NEW i \in Boxes, FillStray(i) PROVE PhaseInv'
    BY <1>1, <1>3, <2>4 DEF FillStray
  <2>5. ASSUME NEW r \in Requests, ClientDrops(r) PROVE PhaseInv'
    BY <1>1, <1>3, <2>5 DEF ClientDrops, DropHandle, bvars
  <2>6. ASSUME ClockTick PROVE PhaseInv'
    <3>1. UNCHANGED <<hostVars, driverVars, boxVars>> /\ UNCHANGED <<device, state>>
      BY <2>6 DEF ClockTick, Tick
    <3> QED BY <1>1, <3>1 DEF SameActive
  <2> HIDE DEF PhaseInv
  <2> QED BY <1>7, <2>1, <2>2, <2>3, <2>4, <2>5, <2>6 DEF Environment
<1> HIDE DEF PhaseInv
<1> QED BY <1>4, <1>5, <1>6, <1>7 DEF Next

-----------------------------------------------------------------------------
(* Places and counts                                                       *)

ServiceInv == InService => PlacesInv /\ CountsInv

\* A started command has a buffer with an address of its own.
LEMMA StartedAddress ==
    ASSUME QueueInv
    PROVE  /\ \A r \in Requests : owned[r] => address[r] \in Addresses
           /\ \A r, s \in Requests :
                 owned[r] /\ owned[s] /\ address[r] = address[s] => r = s
           /\ \A r \in Requests : state[r] = "Active" => owned[r]
           /\ device \subseteq Requests /\ \A r \in device : owned[r]
<1>1. \A r \in Requests : owned[r] => dma[r] = "held"
  BY DEF QueueInv, BufferInv
<1>2. \A r \in Requests : state[r] = "Active" => owned[r]
  BY ActiveIsAlive DEF QueueInv
<1>3. device \subseteq Requests /\ \A r \in device : owned[r]
  BY DEF QueueInv, IInv, QTypeOK, HardwareRetained
<1> QED BY <1>1, <1>2, <1>3 DEF QueueInv, AddressInv

\* The sets that are counted are finite.
LEMMA CountedFinite ==
    ASSUME BoxTypes, QueueInv
    PROVE  /\ IsFiniteSet(Active) /\ IsFiniteSet(device) /\ IsFiniteSet(UsedOutboxes)
           /\ IsFiniteSet(Answers) /\ IsFiniteSet(working)
           /\ Cardinality(Active) \in Nat /\ Cardinality(device) \in Nat
           /\ Cardinality(UsedOutboxes) \in Nat /\ Cardinality(Answers) \in Nat
           /\ Cardinality(working) \in Nat
<1>1. Active \in SUBSET Requests /\ device \in SUBSET Requests /\ IsFiniteSet(Requests)
  BY ClockAssumption DEF Active, QueueInv, IInv, QTypeOK
<1>2. UsedOutboxes \in SUBSET Boxes /\ Answers \in SUBSET Boxes /\ IsFiniteSet(Boxes)
  BY BoxesFinite DEF UsedOutboxes, Answers
<1>3. IsFiniteSet(Active) /\ IsFiniteSet(device)
  BY <1>1, FS_Subset
<1>4. IsFiniteSet(UsedOutboxes) /\ IsFiniteSet(Answers)
  BY <1>2, FS_Subset
<1>5. IsFiniteSet(working)
  BY DEF BoxTypes
<1> QED BY <1>3, <1>4, <1>5, FS_CardinalityType

\* A box with a command's answer, and the others.
LEMMA AnswerKinds ==
    ASSUME BoxTypes, NEW i \in Boxes
    PROVE  \/ i \notin Answers /\ inboxes[i] \in {Free, Stray}
           \/ /\ i \in Answers /\ inboxes[i].req \in Requests /\ inboxes[i].addr \in Addresses
              /\ inboxes[i] \notin {Free, Stray}
<1>1. inboxes[i] \in InboxContents
  BY DEF BoxTypes
<1>2. CASE inboxes[i] \in {Free, Stray}
  BY <1>2, InboxKinds DEF Answers
<1>3. CASE inboxes[i] \in [addr : Addresses, outcome : Outcomes, req : Requests]
  BY <1>3, InboxKinds, ScsiAssumption DEF Answers
<1> QED BY <1>1, <1>2, <1>3 DEF InboxContents

\* A step that neither starts nor ends a command nor moves one.
LEMMA ServiceKept ==
    ASSUME ServiceInv, QueueInv, BoxTypes,
           UNCHANGED <<outboxes, working, device, active_count, mailbox_count>>,
           Answers' = Answers, \A i \in Answers : inboxes'[i] = inboxes[i],
           SameActive, \A r \in Requests : state[r] = "Active" => address'[r] = address[r],
           InService' => InService
    PROVE  ServiceInv'
<1> SUFFICES ASSUME InService, InService' PROVE PlacesInv' /\ CountsInv'
  BY DEF ServiceInv
<1>1. PlacesInv /\ CountsInv
  BY DEF ServiceInv
<1>2. Active' = Active /\ UsedOutboxes' = UsedOutboxes
  BY DEF Active, SameActive, UsedOutboxes
<1>3. CountsInv'
  BY <1>1, <1>2 DEF CountsInv
<1>4. device \subseteq Requests /\ \A r \in device : address'[r] = address[r] /\ state'[r] = "Active"
  BY <1>1, StartedAddress DEF PlacesInv, SameActive
<1>5. \A i \in Answers : i \in Boxes /\ inboxes[i].req \in Requests
  BY AnswerKinds DEF Answers
<1>6. \A i \in Answers :
         /\ inboxes'[i].req \notin device' /\ state'[inboxes'[i].req] = "Active"
         /\ inboxes'[i].addr = address'[inboxes'[i].req]
  BY <1>1, <1>5 DEF PlacesInv, SameActive
<1>7. \A i, j \in Answers : inboxes'[i].req = inboxes'[j].req => i = j
  BY <1>1 DEF PlacesInv
<1> QED BY <1>1, <1>3, <1>4, <1>6, <1>7 DEF PlacesInv

\* Starting a command puts its address in a free outbox.
LEMMA StartOneService ==
    ASSUME ServiceInv, PhaseInv, QueueInv, BoxTypes, QueueInv', BoxTypes',
           NEW r \in Requests, StartOne(r)
    PROVE  ServiceInv'
<1>0. UNCHANGED <<pc, faulted, mailbox_count, address, inboxes, working>> /\ HasMailbox
  BY DEF StartOne
<1>1. CASE StartCommandExpired(r) /\ UNCHANGED <<active_count, outboxes>>
  <2>1. SameActive /\ UNCHANGED device
    BY <1>1, ExpiryKeepsActive DEF StartCommandExpired, QueueInv
  <2> QED BY <1>0, <1>1, <2>1, ServiceKept DEF InService, IsReady, Answers
<1>2. ASSUME NEW i \in Boxes, FreeOutbox(i), StartCommand(r),
             active_count' = active_count + 1,
             outboxes' = [outboxes EXCEPT ![i] = address[r]]
      PROVE  ServiceInv'
  <2> SUFFICES ASSUME InService PROVE PlacesInv' /\ CountsInv'
    BY <1>0 DEF ServiceInv, InService, IsReady
  <2>1. PlacesInv /\ CountsInv
    BY DEF ServiceInv
  <2>2. /\ owned[r] /\ state[r] = "Queued" /\ state' = [state EXCEPT ![r] = "Active"]
        /\ device' = device \cup {r}
    BY <1>2 DEF StartCommand, StartActive
  <2>3. outboxes[i] = NoAddress
    BY <1>2 DEF FreeOutbox
  <2>4. r \notin device /\ r \notin Active /\ address[r] \in Addresses /\ address[r] # NoAddress
    BY <2>1, <2>2, StartedAddress, BusLogicAssumption DEF PlacesInv, Active
  <2>5. \A s \in device : s \in Requests /\ owned[s] /\ address[s] # address[r] /\ s # r
    BY <2>2, <2>4, StartedAddress
  <2>6. \A j \in Boxes : outboxes'[j] = IF j = i THEN address[r] ELSE outboxes[j]
    BY <1>2 DEF BoxTypes
  <2>7. \A s \in Requests : state'[s] = IF s = r THEN "Active" ELSE state[s]
    BY <2>2 DEF QueueInv, IInv, QTypeOK
  <2>8. \A j \in Boxes : outboxes[j] # address[r]
    BY <2>1, <2>4, <2>5 DEF PlacesInv
  <2>9. address[r] \notin working
    BY <2>1, <2>5 DEF PlacesInv
  <2>10. Answers' = Answers /\ \A j \in Answers : j \in Boxes /\ inboxes[j].req \in Requests
    BY <1>0, AnswerKinds DEF Answers
  <2>11. PlacesInv'
    <3>1. \A j \in Boxes : outboxes'[j] # NoAddress =>
             /\ outboxes'[j] \notin working'
             /\ \E s \in device' : address'[s] = outboxes'[j]
      BY <1>0, <2>1, <2>2, <2>6, <2>9 DEF PlacesInv
    <3>2. \A j, k \in Boxes : outboxes'[j] # NoAddress /\ outboxes'[j] = outboxes'[k] => j = k
      BY <2>1, <2>6, <2>8 DEF PlacesInv
    <3>3. \A a \in working' : \E s \in device' : address'[s] = a
      BY <1>0, <2>1, <2>2 DEF PlacesInv
    <3>4. \A s \in device' : state'[s] = "Active"
      BY <2>1, <2>2, <2>5, <2>7 DEF PlacesInv
    <3>5. \A j \in Answers' :
             /\ inboxes'[j].req \notin device' /\ state'[inboxes'[j].req] = "Active"
             /\ inboxes'[j].addr = address'[inboxes'[j].req]
      BY <1>0, <2>1, <2>2, <2>7, <2>10 DEF PlacesInv
    <3>6. \A j, k \in Answers' : inboxes'[j].req = inboxes'[k].req => j = k
      BY <1>0, <2>1, <2>10 DEF PlacesInv
    <3> QED BY <3>1, <3>2, <3>3, <3>4, <3>5, <3>6 DEF PlacesInv
  <2>12. CountsInv'
    <3>1. Active' = Active \cup {r} /\ UsedOutboxes' = UsedOutboxes \cup {i} /\ i \notin UsedOutboxes
      BY <2>3, <2>4, <2>6, <2>7 DEF Active, UsedOutboxes
    <3>2. Cardinality(Active') = Cardinality(Active) + 1
      BY <2>4, <3>1, CountedFinite, FS_AddElement
    <3>3. Cardinality(UsedOutboxes') = Cardinality(UsedOutboxes) + 1
      BY <3>1, CountedFinite, FS_AddElement
    <3>4. Cardinality(device') = Cardinality(device) + 1
      BY <2>2, <2>4, CountedFinite, FS_AddElement
    <3>5. mailbox_count \in Nat /\ active_count < mailbox_count
      BY <1>0, BoxesFinite DEF PhaseInv, HasMailbox
    <3>6. Cardinality(working') = Cardinality(working) /\ Cardinality(Answers') = Cardinality(Answers)
      BY <1>0, <2>10
    <3>7. /\ active_count + 1 <= mailbox_count
          /\ Cardinality(device) + 1 = (Cardinality(UsedOutboxes) + 1) + Cardinality(working)
          /\ active_count + 1 = (Cardinality(device) + 1) + Cardinality(Answers)
      BY <2>1, <3>5, CountedFinite DEF CountsInv
    <3> QED BY <1>0, <1>2, <2>1, <3>2, <3>3, <3>4, <3>6, <3>7 DEF CountsInv
  <2> QED BY <2>11, <2>12
<1> QED BY <1>1, <1>2 DEF StartOne

\* The adapter takes a command: its address moves.
LEMMA TakeOutboxService ==
    ASSUME ServiceInv, QueueInv, BoxTypes, NEW i \in Boxes, TakeOutbox(i)
    PROVE  ServiceInv'
<1>0. /\ UNCHANGED <<pc, faulted, mailbox_count, active_count, address, inboxes, device, state>>
      /\ outboxes[i] # NoAddress /\ working' = working \cup {outboxes[i]}
      /\ outboxes' = [outboxes EXCEPT ![i] = NoAddress]
  BY DEF TakeOutbox, hostVars, driverVars, qvars
<1> SUFFICES ASSUME InService PROVE PlacesInv' /\ CountsInv'
  BY <1>0 DEF ServiceInv, InService, IsReady
<1>1. PlacesInv /\ CountsInv
  BY DEF ServiceInv
<1>2. \A j \in Boxes : outboxes'[j] = IF j = i THEN NoAddress ELSE outboxes[j]
  BY <1>0 DEF BoxTypes
<1>3. outboxes[i] \notin working /\ \E r \in device : address[r] = outboxes[i]
  BY <1>0, <1>1 DEF PlacesInv
<1>4. Answers' = Answers /\ Active' = Active
  BY <1>0 DEF Answers, Active
<1>5. PlacesInv'
  <2>1. \A j \in Boxes : outboxes'[j] # NoAddress =>
           /\ outboxes'[j] \notin working'
           /\ \E s \in device' : address'[s] = outboxes'[j]
    BY <1>0, <1>1, <1>2 DEF PlacesInv
  <2>2. \A j, k \in Boxes : outboxes'[j] # NoAddress /\ outboxes'[j] = outboxes'[k] => j = k
    BY <1>1, <1>2 DEF PlacesInv
  <2>3. \A a \in working' : \E s \in device' : address'[s] = a
    BY <1>0, <1>1, <1>3 DEF PlacesInv
  <2> QED BY <1>0, <1>1, <1>4, <2>1, <2>2, <2>3 DEF PlacesInv
<1>6. CountsInv'
  <2>1. UsedOutboxes' = UsedOutboxes \ {i} /\ i \in UsedOutboxes
    BY <1>0, <1>2 DEF UsedOutboxes
  <2>2. Cardinality(UsedOutboxes') = Cardinality(UsedOutboxes) - 1
    BY <2>1, CountedFinite, FS_RemoveElement
  <2>3. Cardinality(working') = Cardinality(working) + 1
    BY <1>0, <1>3, CountedFinite, FS_AddElement
  <2>4. Cardinality(device) = (Cardinality(UsedOutboxes) - 1) + (Cardinality(working) + 1)
    BY <1>1, CountedFinite DEF CountsInv
  <2>5. UNCHANGED <<active_count, mailbox_count, device>>
    BY <1>0
  <2> QED BY <1>1, <1>4, <2>2, <2>3, <2>4, <2>5 DEF CountsInv
<1> QED BY <1>5, <1>6

\* The adapter answers: the command moves to a free inbox.
LEMMA FillInboxService ==
    ASSUME ServiceInv, QueueInv, BoxTypes, NEW r \in Requests, NEW i \in Boxes,
           NEW out \in Outcomes, FillInbox(r, i, out)
    PROVE  ServiceInv'
<1>0. /\ UNCHANGED <<pc, faulted, mailbox_count, active_count, address, outboxes, state>>
      /\ r \in device /\ address[r] \in working /\ inboxes[i] = Free
      /\ working' = working \ {address[r]} /\ device' = device \ {r}
      /\ inboxes' = [inboxes EXCEPT ![i] = [addr |-> address[r], outcome |-> out, req |-> r]]
  BY DEF FillInbox, HardwareDone, hostVars, driverVars
<1> SUFFICES ASSUME InService PROVE PlacesInv' /\ CountsInv'
  BY <1>0 DEF ServiceInv, InService, IsReady
<1>1. PlacesInv /\ CountsInv
  BY DEF ServiceInv
<1>2. /\ \A j \in Boxes \ {i} : inboxes'[j] = inboxes[j]
      /\ inboxes'[i].req = r /\ inboxes'[i].addr = address[r]
  BY <1>0 DEF BoxTypes
<1>3. Answers' = Answers \cup {i} /\ i \notin Answers
  <2>1. i \notin Answers
    BY <1>0, InboxKinds DEF Answers
  <2>2. r # NoObject
    BY ScsiAssumption
  <2> QED BY <1>2, <2>1, <2>2 DEF Answers
<1>4. \A j \in Answers : j \in Boxes /\ j # i /\ inboxes[j].req # r
  BY <1>0, <1>1, <1>3 DEF PlacesInv, Answers
<1>5. PlacesInv'
  <2>1. \A j \in Boxes : outboxes'[j] # NoAddress =>
           /\ outboxes'[j] \notin working'
           /\ \E s \in device' : address'[s] = outboxes'[j]
    <3> SUFFICES ASSUME NEW j \in Boxes, outboxes[j] # NoAddress
                 PROVE  outboxes[j] \notin working' /\ \E s \in device' : address[s] = outboxes[j]
      BY <1>0
    <3>1. PICK s \in device : address[s] = outboxes[j] /\ outboxes[j] \notin working
      BY <1>1 DEF PlacesInv
    <3>2. s # r
      BY <1>0, <3>1
    <3> QED BY <1>0, <3>1, <3>2
  <2>2. \A a \in working' : \E s \in device' : address'[s] = a
    <3> SUFFICES ASSUME NEW a \in working, a # address[r]
                 PROVE  \E s \in device' : address[s] = a
      BY <1>0
    <3>1. PICK s \in device : address[s] = a
      BY <1>1 DEF PlacesInv
    <3>2. s # r
      BY <3>1
    <3> QED BY <1>0, <3>1, <3>2
  <2>3. \A j \in Answers' :
           /\ inboxes'[j].req \notin device' /\ state'[inboxes'[j].req] = "Active"
           /\ inboxes'[j].addr = address'[inboxes'[j].req]
    BY <1>0, <1>1, <1>2, <1>3, <1>4 DEF PlacesInv
  <2>4. \A j, k \in Answers' : inboxes'[j].req = inboxes'[k].req => j = k
    BY <1>1, <1>2, <1>3, <1>4 DEF PlacesInv
  <2> QED BY <1>0, <1>1, <2>1, <2>2, <2>3, <2>4 DEF PlacesInv
<1>6. CountsInv'
  <2>1. UsedOutboxes' = UsedOutboxes /\ Active' = Active
    BY <1>0 DEF UsedOutboxes, Active
  <2>2. Cardinality(Answers') = Cardinality(Answers) + 1
    BY <1>3, CountedFinite, FS_AddElement
  <2>3. Cardinality(working') = Cardinality(working) - 1
    BY <1>0, CountedFinite, FS_RemoveElement
  <2>4. Cardinality(device') = Cardinality(device) - 1
    BY <1>0, CountedFinite, FS_RemoveElement
  <2>5. /\ Cardinality(device) - 1 = Cardinality(UsedOutboxes) + (Cardinality(working) - 1)
        /\ active_count = (Cardinality(device) - 1) + (Cardinality(Answers) + 1)
    BY <1>1, CountedFinite DEF CountsInv
  <2>6. UNCHANGED <<active_count, mailbox_count>>
    BY <1>0
  <2> QED BY <1>1, <2>1, <2>2, <2>3, <2>4, <2>5, <2>6 DEF CountsInv
<1> QED BY <1>5, <1>6

\* The box that Service looks at holds the answer of the request it finds.
LEMMA FoundAnswer ==
    ASSUME PlacesInv, PhaseInv, QueueInv, BoxTypes, NEW r \in Requests, ScanTake(r)
    PROVE  cursor \in Boxes /\ cursor \in Answers /\ inboxes[cursor].req = r
<1>1. /\ pc = "scan" /\ cursor <= mailbox_count /\ inboxes[cursor].outcome # "free"
      /\ owned[r] /\ state[r] = "Active" /\ address[r] = inboxes[cursor].addr
  BY DEF ScanTake, Match, Queue
<1>2. cursor \in Boxes
  BY <1>1, BoxesFinite DEF PhaseInv, Boxes
<1>3. address[r] \in Addresses /\ address[r] # NoAddress
  BY <1>1, StartedAddress, BusLogicAssumption
<1>4. inboxes[cursor] \notin {Free, Stray}
  BY <1>1, <1>3, InboxKinds
<1>5. cursor \in Answers /\ inboxes[cursor].req \in Requests
  BY <1>2, <1>4, AnswerKinds
<1>6. /\ address[inboxes[cursor].req] = address[r]
      /\ owned[inboxes[cursor].req]
  BY <1>1, <1>5, StartedAddress DEF PlacesInv
<1> QED BY <1>1, <1>2, <1>5, <1>6, StartedAddress

\* Service takes an answer: the command is completed and its box is free.
LEMMA ScanTakeService ==
    ASSUME ServiceInv, PhaseInv, QueueInv, BoxTypes, NEW r \in Requests, ScanTake(r)
    PROVE  ServiceInv'
<1>0. /\ UNCHANGED <<pc, faulted, mailbox_count, address, outboxes, working>>
      /\ active_count' = active_count - 1 /\ inboxes' = [inboxes EXCEPT ![cursor] = Free]
      /\ state[r] = "Active" /\ CompleteCommand(r, inboxes[cursor].outcome)
  BY DEF ScanTake, Match
<1> SUFFICES ASSUME InService PROVE PlacesInv' /\ CountsInv'
  BY <1>0 DEF ServiceInv, InService, IsReady
<1>1. PlacesInv /\ CountsInv
  BY DEF ServiceInv
<1>2. cursor \in Boxes /\ cursor \in Answers /\ inboxes[cursor].req = r
  BY <1>1, FoundAnswer
<1>3. state' = [state EXCEPT ![r] = "Completed"] /\ UNCHANGED device
  <2>1. PICK st \in Statuses : Answer(r, st)
    BY <1>0 DEF CompleteCommand, Statuses
  <2> QED BY <2>1, AnswerEffect DEF QueueInv, Answer, CompleteAll
<1>4. \A s \in Requests : state'[s] = IF s = r THEN "Completed" ELSE state[s]
  BY <1>3 DEF QueueInv, IInv, QTypeOK
<1>5. \A j \in Boxes : inboxes'[j] = IF j = cursor THEN Free ELSE inboxes[j]
  BY <1>0 DEF BoxTypes
<1>6. Answers' = Answers \ {cursor}
  BY <1>5, InboxKinds DEF Answers
<1>7. \A j \in Answers' : j \in Boxes /\ inboxes'[j] = inboxes[j] /\ inboxes[j].req \in Requests \ {r}
  BY <1>1, <1>2, <1>5, <1>6, AnswerKinds DEF PlacesInv, Answers
<1>8. r \notin device
  BY <1>1, <1>2 DEF PlacesInv
<1>9. PlacesInv'
  <2>1. \A s \in device' : state'[s] = "Active"
    BY <1>1, <1>3, <1>4, <1>8, StartedAddress DEF PlacesInv
  <2>2. \A j \in Answers' :
           /\ inboxes'[j].req \notin device' /\ state'[inboxes'[j].req] = "Active"
           /\ inboxes'[j].addr = address'[inboxes'[j].req]
    BY <1>0, <1>1, <1>3, <1>4, <1>6, <1>7 DEF PlacesInv
  <2>3. \A j, k \in Answers' : inboxes'[j].req = inboxes'[k].req => j = k
    BY <1>1, <1>6, <1>7 DEF PlacesInv
  <2> QED BY <1>0, <1>1, <1>3, <2>1, <2>2, <2>3 DEF PlacesInv
<1>10. CountsInv'
  <2>1. Active' = Active \ {r} /\ r \in Active /\ UsedOutboxes' = UsedOutboxes
    BY <1>0, <1>4 DEF Active, UsedOutboxes
  <2>2. Cardinality(Active') = Cardinality(Active) - 1
    BY <2>1, CountedFinite, FS_RemoveElement
  <2>3. Cardinality(Answers') = Cardinality(Answers) - 1
    BY <1>2, <1>6, CountedFinite, FS_RemoveElement
  <2>4. mailbox_count \in Nat
    BY BoxesFinite DEF PhaseInv
  <2> QED BY <1>0, <1>1, <1>3, <2>1, <2>2, <2>3, <2>4, CountedFinite DEF CountsInv
<1> QED BY <1>9, <1>10

\* The end of a recovery: nothing is started and every box is free.
LEMMA InitializeService ==
    ASSUME PhaseInv, QueueInv, InitializeOk PROVE ServiceInv'
<1>0. /\ pc = "init" /\ mailbox_count' = count /\ UNCHANGED <<active_count, working, state, device>>
      /\ count # mailbox_count => outboxes' = FreeOutboxes /\ inboxes' = FreeInboxes
  BY DEF InitializeOk, ClearMailboxes, qvars
<1>1. mailbox_count = 0 /\ Active = {} /\ active_count = 0 /\ device = {} /\ working = {}
  BY <1>0 DEF PhaseInv
<1> SUFFICES ASSUME mailbox_count' # 0 PROVE PlacesInv' /\ CountsInv'
  BY DEF ServiceInv, InService, IsReady
<1>2. outboxes' = FreeOutboxes /\ inboxes' = FreeInboxes /\ mailbox_count' \in Nat
  BY <1>0, <1>1, BoxesFinite DEF PhaseInv
<1>3. Active' = {} /\ UsedOutboxes' = {} /\ Answers' = {}
  BY <1>0, <1>1, <1>2, InboxKinds DEF Active, UsedOutboxes, Answers, FreeOutboxes, FreeInboxes
<1>4. PlacesInv'
  BY <1>0, <1>1, <1>2, <1>3 DEF PlacesInv, FreeOutboxes
<1>5. CountsInv'
  BY <1>0, <1>1, <1>2, <1>3, FS_EmptySet DEF CountsInv
<1> QED BY <1>4, <1>5

\* Every step keeps commands in their places, and the count of them.
LEMMA ServiceStep ==
    ASSUME ServiceInv, PhaseInv, HostInv, QueueInv, BoxTypes, QueueInv', BoxTypes', [Next]_vars
    PROVE  ServiceInv'
<1> USE DEF hostVars, driverVars, boxVars
<1>1. ASSUME UNCHANGED <<boxVars, active_count, mailbox_count, faulted, address, device>>,
             SameActive, pc # "failall" \/ pc' = pc
      PROVE  ServiceInv'
  BY <1>1, ServiceKept DEF InService, IsReady, Answers
<1>2. UNCHANGED qvars => SameActive /\ UNCHANGED device
  BY DEF qvars, SameActive
<1>3. CASE UNCHANGED vars
  BY <1>1, <1>2, <1>3 DEF vars, bvars
<1>4. ASSUME HostContinue PROVE ServiceInv'
  <2>1. FinishEnqueue => ServiceInv'
    BY <1>1, EnqueueKeepsActive DEF FinishEnqueue, QueueInv
  <2>2. StartQueuedBegin \/ ServiceExpireQueued => ServiceInv'
    BY <1>1, ExpiryKeepsActive DEF StartQueuedBegin, ServiceExpireQueued, QueueInv
  <2>3. ASSUME NEW r \in Requests, StartOne(r) PROVE ServiceInv'
    BY <2>3, StartOneService
  <2>4. StartQueuedEnd \/ RestoreInterrupts \/ ScanSkip \/ ScanStray \/ ScanDone \/ AckTest
          \/ AckReset \/ Rescan \/ ServiceTimeout => ServiceInv'
    BY <1>1, <1>2 DEF StartQueuedEnd, RestoreInterrupts, ScanSkip, ScanStray, ScanDone,
           AckTest, AckReset, Rescan, ServiceTimeout
  <2>5. Return \/ ServicePrune => ServiceInv'
    BY <1>1 DEF Return, ServicePrune, PruneQueue, Prune, SameActive
  <2>6. ResetConfirmed \/ ResetFailed \/ FailOutstanding \/ InitializeFailed => ServiceInv'
    BY DEF ResetConfirmed, ResetFailed, FailOutstanding, InitializeFailed, ServiceInv,
           InService, IsReady
  <2>7. InitializeOk => ServiceInv'
    BY InitializeService
  <2>8. ASSUME NEW r \in Requests, ScanTake(r) PROVE ServiceInv'
    BY <2>8, ScanTakeService
  <2> QED BY <1>4, <2>1, <2>2, <2>3, <2>4, <2>5, <2>6, <2>7, <2>8 DEF HostContinue
<1>5. ASSUME HostCall PROVE ServiceInv'
  <2>1. ASSUME NEW r \in Requests, NEW n \in Nexuses, NEW op \in Opcodes,
               NEW t \in TimeoutArgs, NEW o \in Origins, SubmitScsi(r, n, op, t, o)
        PROVE  ServiceInv'
    <3>1. SameActive /\ UNCHANGED device /\ state[r] = "Created"
      BY <2>1, SubmitKeepsActive DEF SubmitScsi, QueueInv
    <3>2. /\ UNCHANGED <<boxVars, active_count, mailbox_count, faulted>> /\ pc # "failall"
          /\ \E a \in FreeAddresses : address' = [address EXCEPT ![r] = a]
      BY <2>1 DEF SubmitScsi
    <3>3. \A s \in Requests : state[s] = "Active" => address'[s] = address[s]
      BY <3>1, <3>2 DEF QueueInv, AddressInv
    <3> QED BY <3>1, <3>2, <3>3, ServiceKept DEF InService, IsReady, Answers
  <2>2. ASSUME NEW r \in Requests, NEW n \in Nexuses, NEW o \in Origins,
               NEW p \in FailurePoints, SubmitRejected(r, n, o, p)
        PROVE  ServiceInv'
    BY <1>1, <1>2, <2>2 DEF SubmitRejected, SubmitFails
  <2>3. ServiceBegin \/ Recover => ServiceInv'
    BY <1>1, <1>2 DEF ServiceBegin, Recover
  <2>4. ASSUME NEW b \in InterruptModes, SetInterrupts(b) PROVE ServiceInv'
    BY <1>1, <1>2, <2>4 DEF SetInterrupts
  <2> QED BY <1>5, <2>1, <2>2, <2>3, <2>4 DEF HostCall
<1>6. ASSUME Environment PROVE ServiceInv'
  <2>1. OnInterrupt => ServiceInv'
    BY <1>1, <1>2 DEF OnInterrupt
  <2>2. ASSUME NEW i \in Boxes, TakeOutbox(i) PROVE ServiceInv'
    BY <2>2, TakeOutboxService
  <2>3. ASSUME NEW r \in Requests, NEW i \in Boxes, NEW out \in Outcomes, FillInbox(r, i, out)
        PROVE  ServiceInv'
    BY <2>3, FillInboxService
  <2>4. ASSUME NEW i \in Boxes, FillStray(i) PROVE ServiceInv'
    <3>1. /\ UNCHANGED <<outboxes, working, device, state, active_count, mailbox_count, faulted,
                         address, pc>>
          /\ inboxes[i] = Free /\ inboxes' = [inboxes EXCEPT ![i] = Stray]
      BY <2>4 DEF FillStray, qvars
    <3>2. i \notin Answers
      BY <3>1, InboxKinds DEF Answers
    <3>3. Answers' = Answers /\ \A j \in Answers : inboxes'[j] = inboxes[j]
      BY <3>1, <3>2, InboxKinds DEF Answers, BoxTypes
    <3> QED BY <3>1, <3>3, ServiceKept DEF InService, IsReady, SameActive
  <2>5. ASSUME NEW r \in Requests, ClientDrops(r) PROVE ServiceInv'
    BY <1>1, <1>2, <2>5 DEF ClientDrops, DropHandle, bvars
  <2>6. ClockTick => ServiceInv'
    BY <1>1 DEF ClockTick, Tick, SameActive
  <2> QED BY <1>6, <2>1, <2>2, <2>3, <2>4, <2>5, <2>6 DEF Environment
<1> QED BY <1>3, <1>4, <1>5, <1>6 DEF Next

\* The inductive invariant in every reachable state.
LEMMA BusInvariance == Spec => [](BusInv /\ HostInv /\ QueueInv)
<1>1. Init => HostInv /\ AddressInv /\ BoxTypes /\ PhaseInv /\ ServiceInv
  <2> SUFFICES ASSUME Init PROVE HostInv /\ AddressInv /\ BoxTypes /\ PhaseInv /\ ServiceInv
    OBVIOUS
  <2>1. HostInv /\ AddressInv
    BY DEF Init, SInit, QInit, HostInv, EnqueuedTyped, Objects, AddressInv
  <2>2. BoxTypes
    BY InboxKinds, FS_EmptySet DEF Init, BoxTypes, FreeOutboxes, FreeInboxes
  <2>3. PhaseInv
    BY BoxesFinite DEF Init, PhaseInv, Boxes
  <2>4. Active = {} /\ UsedOutboxes = {} /\ Answers = {} /\ device = {} /\ working = {}
    BY InboxKinds DEF Init, SInit, QInit, Active, UsedOutboxes, Answers, FreeOutboxes, FreeInboxes
  <2>5. PlacesInv /\ CountsInv
    BY <2>4, FS_EmptySet, BoxesFinite DEF Init, PlacesInv, CountsInv, FreeOutboxes
  <2> QED BY <2>1, <2>2, <2>3, <2>5 DEF ServiceInv
<1>2. HostInv /\ [Next]_vars => HostInv'
  BY HostInvStep
<1>3. BufferInv /\ AddressInv /\ [Next]_vars => AddressInv'
  BY AddressStep
<1>4. BoxTypes /\ QueueInv /\ [Next]_vars => BoxTypes'
  BY BoxTypesStep
<1>5. PhaseInv /\ BoxTypes /\ HostInv /\ QueueInv /\ [Next]_vars => PhaseInv'
  BY PhaseStep
<1>6. /\ ServiceInv /\ PhaseInv /\ HostInv /\ QueueInv /\ BoxTypes /\ QueueInv' /\ BoxTypes'
      /\ [Next]_vars
      => ServiceInv'
  BY ServiceStep
<1>7. Spec => [](IInv /\ BufferInv /\ EnqueuedTyped /\ EnqueuedWaits)
  BY BusImplementsScsi, QueueInvariance, PTL
<1>8. Spec => []QueueInv
  BY <1>1, <1>3, <1>7, PTL DEF Spec, QueueInv
<1> QED BY <1>1, <1>2, <1>4, <1>5, <1>6, <1>8, PTL DEF Spec, BusInv, ServiceInv

\* While the driver is ready its counter is the number of started requests, through
\* lost answers, resets and timeouts.
THEOREM BusActiveCountExact == Spec => []ActiveCountExact
<1>1. BusInv => ActiveCountExact
  BY DEF BusInv, InService, CountsInv, ActiveCountExact
<1> QED BY <1>1, BusInvariance, PTL

\* An answer is credited to the request whose command the adapter has finished,
\* although bus addresses are used again.
THEOREM BusAnswersMatch == Spec => []AnswersMatch
<1>1. ASSUME BusInv, QueueInv PROVE AnswersMatch
  <2> SUFFICES ASSUME InService, NEW i \in Answers
               PROVE  /\ inboxes[i].req \notin device
                      /\ Match(inboxes[i]) = {inboxes[i].req}
    BY DEF AnswersMatch, InService
  <2> DEFINE q == inboxes[i].req
  <2>1. q \in Requests
    BY <1>1, AnswerKinds DEF BusInv, Answers
  <2>2. q \notin device /\ state[q] = "Active" /\ inboxes[i].addr = address[q]
    BY <1>1 DEF BusInv, PlacesInv
  <2>3. \A r \in Requests : state[r] = "Active" => owned[r]
    BY <1>1, StartedAddress
  <2>4. \A r \in Requests : owned[r] /\ address[r] = address[q] => r = q
    BY <1>1, <2>1, <2>2, <2>3, StartedAddress
  <2> HIDE DEF q
  <2>5. Match(inboxes[i]) = {q}
    BY <2>1, <2>2, <2>3, <2>4 DEF Match, Queue
  <2> QED BY <2>2, <2>5 DEF q
<1> QED BY <1>1, BusInvariance, PTL

\* The search of StartQueued comes to every outbox.
LEMMA EveryOutboxSeen ==
    ASSUME next_outbox_index \in Boxes, mailbox_count = Mailboxes, NEW i \in Boxes
    PROVE  \E d \in 0 .. mailbox_count - 1 : OutboxAt(d) = i
<1> DEFINE n == next_outbox_index
           M == Mailboxes
<1>1. M \in Nat \ {0} /\ n \in 1 .. M /\ i \in 1 .. M
  BY BoxesFinite DEF Boxes
<1> HIDE DEF n, M
<1>2. PICK d \in 0 .. M - 1 : (n - 1 + d) % M = i - 1
  <2>1. CASE i >= n
    <3>1. /\ i - n \in 0 .. M - 1 /\ n - 1 + (i - n) = i - 1 /\ i - 1 \in 0 .. M - 1
      BY <1>1, <2>1
    <3>2. (i - 1) % M = i - 1
      BY <1>1, <3>1, ModSmall
    <3>3. (n - 1 + (i - n)) % M = i - 1
      BY <3>1, <3>2
    <3> QED BY <3>1, <3>3
  <2>2. CASE i < n
    <3>1. /\ i + M - n \in 0 .. M - 1 /\ n - 1 + (i + M - n) = i - 1 + M
          /\ i - 1 + M \in Int /\ i - 1 + M >= M /\ i - 1 + M < M + M /\ i - 1 + M - M = i - 1
      BY <1>1, <2>2
    <3>2. (i - 1 + M) % M = i - 1
      BY <1>1, <3>1, ModOver
    <3>3. (n - 1 + (i + M - n)) % M = i - 1
      BY <3>1, <3>2
    <3> QED BY <3>1, <3>3
  <2> QED BY <1>1, <2>1, <2>2
<1>3. OutboxAt(d) = (i - 1) + 1
  BY <1>2 DEF OutboxAt, n, M
<1> QED BY <1>1, <1>2, <1>3 DEF M

\* The search of StartQueued finds a free outbox when there is one.
LEMMA FreeOutboxFound ==
    ASSUME next_outbox_index \in Boxes, mailbox_count = Mailboxes,
           NEW i \in Boxes, outboxes[i] = NoAddress
    PROVE  \E j \in Boxes : FreeOutbox(j)
<1> DEFINE Steps == {d \in 0 .. mailbox_count - 1 : outboxes[OutboxAt(d)] = NoAddress}
<1>1. Steps \subseteq Nat /\ Steps # {}
  BY EveryOutboxSeen, BoxesFinite
<1>2. PICK d \in Steps : \A e \in Steps : d <= e
  BY <1>1, LeastNatural
<1>3. OutboxAt(d) \in Boxes
  BY <1>2, BoxesFinite DEF OutboxAt, Boxes
<1>4. \A e \in 0 .. d - 1 : outboxes[OutboxAt(e)] # NoAddress
  BY <1>2, BoxesFinite
<1> QED BY <1>2, <1>3, <1>4 DEF FreeOutbox

\* Mailboxes never run out: every started request has one place, StartQueued finds
\* an outbox whenever the counter allows a start, and the adapter has an inbox for
\* every answer it owes.
THEOREM BusMailboxesSuffice == Spec => []MailboxesSuffice
<1>1. ASSUME BusInv, QueueInv PROVE MailboxesSuffice
  <2> SUFFICES ASSUME InService
               PROVE  /\ Cardinality(UsedOutboxes) + Cardinality(working)
                           + Cardinality(Answers) = Cardinality(Active)
                      /\ pc = "start" /\ HasMailbox => \E i \in Boxes : FreeOutbox(i)
                      /\ Cardinality(device) + Cardinality(Answers) <= mailbox_count
    BY DEF MailboxesSuffice, InService, UsedOutboxes
  <2>1. CountsInv /\ BoxTypes /\ PhaseInv
    BY <1>1 DEF BusInv
  <2>2. mailbox_count = Mailboxes
    BY <2>1 DEF PhaseInv, InService, IsReady
  <2>3. ASSUME HasMailbox PROVE \E i \in Boxes : FreeOutbox(i)
    <3>1. Cardinality(UsedOutboxes) < Cardinality(Boxes)
      BY <1>1, <2>1, <2>2, <2>3, CountedFinite, BoxesFinite DEF CountsInv, HasMailbox
    <3>2. UsedOutboxes # Boxes
      BY <3>1, BoxesFinite
    <3>3. PICK i \in Boxes : outboxes[i] = NoAddress
      BY <3>2 DEF UsedOutboxes
    <3> QED BY <2>1, <2>2, <3>3, FreeOutboxFound DEF PhaseInv
  <2>4. /\ Cardinality(UsedOutboxes) + Cardinality(working) + Cardinality(Answers)
             = Cardinality(Active)
        /\ Cardinality(device) + Cardinality(Answers) <= mailbox_count
    BY <1>1, <2>1, CountedFinite DEF CountsInv
  <2> QED BY <2>3, <2>4
<1> QED BY <1>1, BusInvariance, PTL

-----------------------------------------------------------------------------
(* Interrupts                                                              *)

\* Service has yet to look at the inboxes for the last time.
Scanning == {"scan", "ack", "ackreset", "rescan"}

\* Interrupts are off during recovery.  With interrupts on, the adapter raises the
\* line, and an answer that is waiting has raised it, or has woken the host, or
\* Service will look at the inboxes again.
WakeInv ==
    /\ interrupts_enabled \in BOOLEAN /\ restore \in BOOLEAN
    /\ pc \in Scanning => caller = "service"
    /\ pc \in {"reset", "failall", "init", "restore"} => ~interrupts_enabled
    /\ interrupts_enabled /\ IsReady =>
          irq_on /\ (Answers = {} \/ int_reg \/ wakeup \/ pc \in Scanning)

\* No answer is waiting when nothing is started.
LEMMA IdleHasNoAnswers ==
    ASSUME BusInv, QueueInv, InService, active_count = 0 PROVE Answers = {}
<1>1. Cardinality(Answers) = 0
  BY CountedFinite DEF BusInv, CountsInv
<1> QED BY <1>1, CountedFinite, FS_EmptySet DEF BusInv

\* Service's second look overlooks no answer.
LEMMA RescanSeesAnswers ==
    ASSUME BusInv, IsReady, \A i \in 1 .. mailbox_count : inboxes[i].outcome = "free"
    PROVE  Answers = {}
<1>1. mailbox_count = Mailboxes
  BY DEF BusInv, PhaseInv, IsReady
<1>2. ASSUME NEW i \in Answers PROVE FALSE
  <2>1. i \in Boxes /\ inboxes[i].outcome = "free" /\ inboxes[i].req # NoObject
    BY <1>1, <1>2 DEF Answers, Boxes
  <2>2. inboxes[i] \in InboxContents /\ inboxes[i] \notin {Free, Stray}
    BY <2>1, InboxKinds DEF BusInv, BoxTypes
  <2>3. inboxes[i].outcome \in Outcomes
    BY <2>2 DEF InboxContents
  <2> QED BY <2>1, <2>3 DEF Outcomes
<1> QED BY <1>2

\* Switching interrupts while no answer is waiting loses none.
LEMMA ConfigureWakes ==
    ASSUME NEW b \in BOOLEAN, ConfigureInterrupts(b), IsReady => Answers = {},
           UNCHANGED <<faulted, mailbox_count, inboxes>>
    PROVE  /\ interrupts_enabled' \in BOOLEAN
           /\ (interrupts_enabled /\ IsReady => irq_on /\ Answers = {})'
<1>1. IsReady' = IsReady /\ Answers' = Answers
  BY DEF IsReady, Answers
<1>2. interrupts_enabled' = FALSE \/ (IsReady /\ interrupts_enabled' = b /\ irq_on' = b)
  BY DEF ConfigureInterrupts
<1>3. CASE interrupts_enabled' = FALSE
  BY <1>3
<1>4. CASE b = TRUE /\ IsReady /\ irq_on' = b
  BY <1>1, <1>2, <1>4
<1>5. CASE b = FALSE
  BY <1>2, <1>5
<1> QED BY <1>2, <1>3, <1>4, <1>5

\* Every step keeps the interrupt alive, when the host switches interrupts only with
\* no command in flight.
LEMMA WakeStep ==
    ASSUME ~HotToggle, WakeInv, BusInv, QueueInv, [Next]_vars PROVE WakeInv'
<1> USE DEF hostVars, driverVars, boxVars, irqVars
<1> DEFINE Quiet == UNCHANGED <<interrupts_enabled, restore, faulted, mailbox_count, irq_on,
                                int_reg, wakeup, inboxes>>
           Recovering == {"reset", "failall", "init", "restore"}
<1>1. ASSUME Quiet, UNCHANGED <<pc, caller>> PROVE WakeInv'
  BY <1>1 DEF WakeInv, IsReady, Answers
<1>2. ASSUME Quiet, pc \notin Scanning, pc' \notin Scanning, pc' \notin Recovering
      PROVE  WakeInv'
  BY <1>2 DEF WakeInv, IsReady, Answers
<1>3. ASSUME Quiet, pc \in Scanning, pc' \in Scanning, UNCHANGED caller PROVE WakeInv'
  BY <1>3 DEF WakeInv, IsReady, Answers, Scanning
<1>4. ASSUME interrupts_enabled' = FALSE, restore' \in BOOLEAN, pc' \notin Scanning
      PROVE  WakeInv'
  BY <1>4 DEF WakeInv
<1>5. ASSUME EnterRecover PROVE WakeInv'
  <2>1. interrupts_enabled' = FALSE /\ restore' = interrupts_enabled /\ pc' = "reset"
    BY <1>5 DEF EnterRecover, ConfigureInterrupts
  <2> QED BY <2>1, <1>4 DEF WakeInv, Scanning
<1>6. CASE UNCHANGED vars
  BY <1>1, <1>6 DEF vars, bvars
<1>7. ASSUME HostContinue PROVE WakeInv'
  <2>1. FinishEnqueue \/ StartQueuedBegin \/ StartQueuedEnd \/ Return
          \/ ServiceExpireQueued \/ ServicePrune => WakeInv'
    BY <1>2 DEF FinishEnqueue, StartQueuedBegin, StartQueuedEnd, Return, ServiceExpireQueued,
                ServicePrune, Scanning
  <2>2. ASSUME NEW r \in Requests, StartOne(r) PROVE WakeInv'
    BY <1>1, <2>2 DEF StartOne
  <2>3. ASSUME ResetConfirmed \/ FailOutstanding \/ InitializeOk PROVE WakeInv'
    <3>1. /\ pc \in Recovering /\ pc' \in Recovering
          /\ UNCHANGED <<interrupts_enabled, restore>>
      BY <2>3 DEF ResetConfirmed, FailOutstanding, InitializeOk
    <3> QED BY <3>1, <1>4 DEF WakeInv, Scanning
  <2>4. ASSUME ResetFailed \/ InitializeFailed PROVE WakeInv'
    <3>1. /\ pc \in Recovering /\ pc' = "idle" /\ restore' = FALSE
          /\ UNCHANGED interrupts_enabled
      BY <2>4 DEF ResetFailed, InitializeFailed
    <3> QED BY <3>1, <1>4 DEF WakeInv, Scanning
  <2>5. ASSUME RestoreInterrupts PROVE WakeInv'
    <3>1. /\ pc = "restore" /\ pc' = "idle" /\ restore' = FALSE
          /\ UNCHANGED <<faulted, mailbox_count, inboxes>> /\ ConfigureInterrupts(restore)
      BY <2>5 DEF RestoreInterrupts
    <3>2. IsReady => Answers = {}
      BY <3>1, IdleHasNoAnswers DEF BusInv, PhaseInv, InService
    <3> QED BY <3>1, <3>2, ConfigureWakes DEF WakeInv, Scanning
  <2>6. ScanSkip \/ ScanDone \/ AckTest => WakeInv'
    BY <1>3 DEF ScanSkip, ScanDone, AckTest, Scanning
  <2>7. ASSUME NEW r \in Requests, ScanTake(r) PROVE WakeInv'
    <3>1. pc = "scan" /\ UNCHANGED <<pc, caller, interrupts_enabled, restore, irq_on, faulted,
                                     mailbox_count>>
      BY <2>7 DEF ScanTake
    <3> QED BY <3>1 DEF WakeInv, IsReady, Scanning
  <2>8. ScanStray \/ ServiceTimeout => WakeInv'
    BY <1>5 DEF ScanStray, ServiceTimeout
  <2>9. ASSUME AckReset PROVE WakeInv'
    <3>1. /\ pc = "ackreset" /\ pc' = "rescan"
          /\ UNCHANGED <<caller, interrupts_enabled, restore, irq_on, faulted, mailbox_count>>
      BY <2>9 DEF AckReset
    <3> QED BY <3>1 DEF WakeInv, IsReady, Scanning
  <2>10. ASSUME Rescan PROVE WakeInv'
    <3>1. pc = "rescan" /\ UNCHANGED caller /\ Quiet
      BY <2>10 DEF Rescan
    <3>2. CASE pc' = "scan"
      BY <1>3, <3>1, <3>2 DEF Scanning
    <3>3. CASE pc' = "timeout" /\ \A i \in 1 .. mailbox_count : inboxes[i].outcome = "free"
      <4>1. IsReady => Answers = {}
        BY <3>3, RescanSeesAnswers
      <4>2. IsReady' = IsReady /\ Answers' = Answers
        BY <3>1 DEF IsReady, Answers
      <4> QED BY <3>1, <3>3, <4>1, <4>2 DEF WakeInv, Scanning
    <3> QED BY <2>10, <3>2, <3>3 DEF Rescan
  <2> QED BY <1>7, <2>1, <2>2, <2>3, <2>4, <2>5, <2>6, <2>7, <2>8, <2>9, <2>10 DEF HostContinue
<1>8. ASSUME HostCall PROVE WakeInv'
  <2>1. ASSUME NEW r \in Requests, NEW n \in Nexuses, NEW op \in Opcodes,
               NEW t \in TimeoutArgs, NEW o \in Origins, SubmitScsi(r, n, op, t, o)
        PROVE  WakeInv'
    BY <1>2, <2>1 DEF SubmitScsi, Scanning
  <2>2. ASSUME NEW r \in Requests, NEW n \in Nexuses, NEW o \in Origins,
               NEW p \in FailurePoints, SubmitRejected(r, n, o, p)
        PROVE  WakeInv'
    BY <1>2, <2>2 DEF SubmitRejected, Scanning
  <2>3. ASSUME ServiceBegin PROVE WakeInv'
    <3>1. /\ UNCHANGED <<interrupts_enabled, restore, irq_on, faulted, mailbox_count>>
          /\ \/ ~IsReady /\ UNCHANGED <<pc, caller>>
             \/ IsReady /\ pc' = "scan" /\ caller' = "service"
      BY <2>3 DEF ServiceBegin
    <3>2. IsReady' = IsReady
      BY <3>1 DEF IsReady
    <3> QED BY <3>1, <3>2 DEF WakeInv, Scanning
  <2>4. Recover => WakeInv'
    BY <1>5 DEF Recover
  <2>5. ASSUME NEW b \in InterruptModes, SetInterrupts(b) PROVE WakeInv'
    <3>1. /\ pc = "idle" /\ pc' = "idle" /\ UNCHANGED restore /\ active_count = 0
          /\ UNCHANGED <<faulted, mailbox_count, inboxes>> /\ ConfigureInterrupts(b)
      BY <2>5 DEF SetInterrupts
    <3>2. IsReady => Answers = {}
      BY <3>1, IdleHasNoAnswers DEF InService
    <3>3. b \in BOOLEAN
      BY BusLogicAssumption
    <3> QED BY <3>1, <3>2, <3>3, ConfigureWakes DEF WakeInv, Scanning
  <2> QED BY <1>8, <2>1, <2>2, <2>3, <2>4, <2>5 DEF HostCall
<1>9. ASSUME Environment PROVE WakeInv'
  <2>1. ASSUME OnInterrupt PROVE WakeInv'
    <3>1. /\ wakeup' = TRUE
          /\ UNCHANGED <<pc, caller, interrupts_enabled, restore, irq_on, faulted, mailbox_count>>
      BY <2>1 DEF OnInterrupt
    <3> QED BY <3>1 DEF WakeInv, IsReady
  <2>2. ASSUME NEW i \in Boxes, TakeOutbox(i) PROVE WakeInv'
    BY <1>1, <2>2 DEF TakeOutbox
  <2>3. ASSUME NEW i \in Boxes,
               FillStray(i) \/ \E r \in Requests, out \in Outcomes : FillInbox(r, i, out)
        PROVE  WakeInv'
    <3>1. /\ int_reg' = TRUE
          /\ UNCHANGED <<pc, caller, interrupts_enabled, restore, irq_on, faulted, mailbox_count>>
      BY <2>3 DEF FillStray, FillInbox
    <3> QED BY <3>1 DEF WakeInv, IsReady
  <2>4. ASSUME NEW r \in Requests, ClientDrops(r) PROVE WakeInv'
    BY <1>1, <2>4 DEF ClientDrops, bvars
  <2>5. ClockTick => WakeInv'
    BY <1>1 DEF ClockTick
  <2> QED BY <1>9, <2>1, <2>2, <2>3, <2>4, <2>5 DEF Environment
<1> QED BY <1>6, <1>7, <1>8, <1>9 DEF Next

\* With interrupts on an answer is never forgotten, in every interleaving of Service
\* with OnInterrupt and the adapter, and through recovery; provided that the host
\* calls SetInterrupts only with no command in flight.
THEOREM BusNoLostWakeup == ~HotToggle => (Spec => []NoLostWakeup)
<1> SUFFICES ASSUME ~HotToggle PROVE Spec => []NoLostWakeup
  OBVIOUS
<1>1. Init => WakeInv
  BY DEF Init, WakeInv, Scanning
<1>2. WakeInv /\ BusInv /\ QueueInv /\ [Next]_vars => WakeInv'
  BY WakeStep
<1>3. WakeInv => NoLostWakeup
  BY DEF WakeInv, NoLostWakeup
<1> QED BY <1>1, <1>2, <1>3, BusInvariance, PTL DEF Spec

=============================================================================
