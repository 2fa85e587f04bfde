--------------------------- MODULE ScsiCommandQueue ---------------------------
(***************************************************************************)
(* SCSI::CommandQueue and SCSI::CommandRequest (inc/c/storage/harddisk.h,  *)
(* lib/cpp/Device/Storage/Harddisk-SCSI.cpp): the request queue of a SCSI  *)
(* host adapter.  On top of StorageRequestQueue it keeps                   *)
(*   - the DMA buffer of each request, released by the destructor of the   *)
(*     request object, that is when the queue and the client have both     *)
(*     dropped their shared pointers;                                      *)
(*   - one TargetQueueState per nexus (bus, target, LUN), which says       *)
(*     whether the logical unit queues tagged commands;                    *)
(*   - one CommandSense per client and nexus, the autosense data that      *)
(*     answers the client's next REQUEST SENSE.                            *)
(*                                                                         *)
(* Shared objects are named by the request that created them, so that      *)
(* pointer equality is equality of names.                                  *)
(***************************************************************************)
EXTENDS StorageRequestQueue

CONSTANTS
    Nexuses,   \* (bus, target, LUN) triples
    Origins,   \* opaque tokens of the submitting clients
    Opcodes,   \* commands the clients send, a subset of AllOpcodes
    NoObject   \* the null pointer

AllOpcodes == {"RW", "INQUIRY", "SENSE"}

ASSUME ScsiAssumption ==
    /\ Opcodes \subseteq AllOpcodes
    /\ NoObject \notin Requests
    /\ Nexuses # {} /\ Origins # {}

VARIABLES
    handle,       \* the client's shared pointer: "unborn", "held", "dropped"
    dma,          \* the request's buffer: "none", "held", "released"
    nexus,        \* nexus the request is addressed to
    opcode,       \* cdb[0]
    origin,       \* origin token of the request and of the CommandSense it created
    targets,      \* TargetQueueState objects in the queue's vector
    tagged,       \* TargetQueueState::tagged
    target_state, \* the request's TargetQueueState
    sense_cache,  \* CommandSense objects in the queue's vector
    valid,        \* CommandSense::valid
    sense_of,     \* CommandSense::bytes: the command whose sense data it holds
    cached_sense, \* the request's CommandSense
    sent_tagged,  \* the request frame asked for a tagged command
    answered,     \* the command whose sense data answered a REQUEST SENSE
    enqueued      \* the request whose submission is in Enqueue, or NoObject

targetVars == <<targets, tagged, target_state>>
senseVars  == <<sense_cache, valid, sense_of, cached_sense, answered>>
addrVars   == <<nexus, opcode, origin>>
svars == <<handle, dma, addrVars, targetVars, senseVars, sent_tagged, enqueued>>

Objects == Requests \cup {NoObject}

-----------------------------------------------------------------------------
(* Object lifetimes                                                        *)

\* Somebody holds a shared pointer to the request.
Alive(r) == owned[r] \/ handle[r] = "held"

\* Mutant of the destructor: releases the buffer as soon as the request is done.
ReleaseEarly(own, h, st, pin) ==
    dma' = [r \in Requests |->
              IF dma[r] = "held" /\ h[r] = "dropped" /\ st[r] = "Completed"
              THEN "released" ELSE dma[r]]

\* Mutant of the destructor: keeps the buffer of a request that failed.
ReleaseOnSuccess(own, h, st, pin) ==
    dma' = [r \in Requests |->
              IF dma[r] = "held" /\ ~own[r] /\ h[r] = "dropped" /\ status[r] = "Success"
              THEN "released" ELSE dma[r]]

\* ~CommandRequest, run where the last shared pointer goes away: own, h, st and
\* pin are the ownership, handles, states and pins after the step.
Destruct(own, h, st, pin) ==
    dma' = [r \in Requests |->
              IF /\ dma[r] = "held" /\ ~own[r] /\ h[r] = "dropped"
                 /\ ~pin[r] /\ st[r] # "Active"
              THEN "released" ELSE dma[r]]

\* The client drops its handle, whatever the state of the request.
DropHandle(r) ==
    /\ handle[r] = "held"
    /\ handle' = [handle EXCEPT ![r] = "dropped"]
    /\ Destruct(owned, handle', state, pinned)
    /\ UNCHANGED <<qvars, addrVars, targetVars, senseVars, sent_tagged, enqueued>>

PruneQueue ==
    /\ Prune
    /\ Destruct(owned', handle, state, pinned)
    /\ UNCHANGED <<handle, addrVars, targetVars, senseVars, sent_tagged, enqueued>>

FailQueue(quiesced) ==
    /\ FailAll(quiesced)
    /\ Destruct(owned', handle, state', pinned')
    /\ UNCHANGED <<handle, addrVars, targetVars, senseVars, sent_tagged, enqueued>>

-----------------------------------------------------------------------------
(* Enqueue                                                                 *)

\* Mutant of the purge: forgets the use count.
KeptTargetsUnreferenced == {i \in targets : tagged[i]}

\* Objects kept by the purge at the start of Enqueue: an untagged target state
\* and an invalid sense buffer go when only the vector refers to them.
KeptTargets ==
    {i \in targets : tagged[i] \/ \E r \in Requests : Alive(r) /\ target_state[r] = i}
KeptSenses ==
    {i \in sense_cache : valid[i] \/ \E r \in Requests : Alive(r) /\ cached_sense[r] = i}

TargetMatches(n)   == {i \in KeptTargets : nexus[i] = n}
SenseMatches(n, o) == {i \in KeptSenses : nexus[i] = n /\ origin[i] = o}

\* Enqueue up to the point where the request is in the vector.
Submit(r, n, op, t, o) ==
    /\ handle[r] = "unborn" /\ enqueued = NoObject
    /\ Enqueue(r, t)
    /\ \E i \in (IF TargetMatches(n) = {} THEN {r} ELSE TargetMatches(n)) :
         /\ target_state' = [target_state EXCEPT ![r] = i]
         /\ targets' = KeptTargets \cup {i}
         /\ tagged' = IF i = r THEN [tagged EXCEPT ![r] = FALSE] ELSE tagged
    /\ \E i \in (IF SenseMatches(n, o) = {} THEN {r} ELSE SenseMatches(n, o)) :
         /\ cached_sense' = [cached_sense EXCEPT ![r] = i]
         /\ sense_cache' = KeptSenses \cup {i}
    /\ nexus' = [nexus EXCEPT ![r] = n]
    /\ opcode' = [opcode EXCEPT ![r] = op]
    /\ origin' = [origin EXCEPT ![r] = o]
    /\ handle' = [handle EXCEPT ![r] = "held"]
    /\ dma' = [dma EXCEPT ![r] = "held"]
    /\ enqueued' = r
    /\ UNCHANGED <<valid, sense_of, answered, sent_tagged>>

\* Enqueue gives up part of the way: the purge has happened, and the shared
\* objects allocated before the failing step stay in their vectors.
FailurePoints == {"target", "sense", "dma"}
SubmitFails(r, n, o, point) ==
    /\ handle[r] = "unborn" /\ enqueued = NoObject
    /\ LET newT == TargetMatches(n) = {} /\ point # "target"
           newS == SenseMatches(n, o) = {} /\ point = "dma"
       IN  /\ targets' = KeptTargets \cup (IF newT THEN {r} ELSE {})
           /\ tagged' = [tagged EXCEPT ![r] = FALSE]
           /\ sense_cache' = KeptSenses \cup (IF newS THEN {r} ELSE {})
    /\ nexus' = [nexus EXCEPT ![r] = n]
    /\ origin' = [origin EXCEPT ![r] = o]
    /\ handle' = [handle EXCEPT ![r] = "dropped"]
    /\ UNCHANGED <<qvars, dma, opcode, target_state, valid, sense_of, cached_sense,
                   answered, sent_tagged, enqueued>>

\* Mutant of the cached answer: the sense data stays valid.
AnswerFromCacheKeeping ==
    /\ enqueued # NoObject /\ opcode[enqueued] = "SENSE" /\ valid[cached_sense[enqueued]]
    /\ Answer(enqueued, "Success")
    /\ answered' = [answered EXCEPT ![enqueued] = sense_of[cached_sense[enqueued]]]
    /\ enqueued' = NoObject
    /\ UNCHANGED <<handle, dma, addrVars, targetVars, sense_cache, sense_of, valid,
                   cached_sense, sent_tagged>>

\* The end of Enqueue: a REQUEST SENSE with valid cached sense data is answered
\* without the hardware.
AnswerFromCache ==
    /\ enqueued # NoObject /\ opcode[enqueued] = "SENSE" /\ valid[cached_sense[enqueued]]
    /\ Answer(enqueued, "Success")
    /\ answered' = [answered EXCEPT ![enqueued] = sense_of[cached_sense[enqueued]]]
    /\ valid' = [valid EXCEPT ![cached_sense[enqueued]] = FALSE]
    /\ enqueued' = NoObject
    /\ UNCHANGED <<handle, dma, addrVars, targetVars, sense_cache, sense_of,
                   cached_sense, sent_tagged>>

\* Any other command invalidates the client's cached sense data.
InvalidateSense ==
    /\ enqueued # NoObject
    /\ ~(opcode[enqueued] = "SENSE" /\ valid[cached_sense[enqueued]])
    /\ valid' = [valid EXCEPT ![cached_sense[enqueued]] = FALSE]
    /\ enqueued' = NoObject
    /\ UNCHANGED <<qvars, handle, dma, addrVars, targetVars, sense_cache, sense_of,
                   cached_sense, answered, sent_tagged>>

-----------------------------------------------------------------------------
(* Starting and completing                                                 *)

\* Mutant of CanStart: looks for queued instead of active commands.
CanStartQueued(r) ==
    \/ tagged[target_state[r]]
    \/ ~\E s \in Queue \ {r} : /\ state[s] = "Queued"
                               /\ target_state[s] = target_state[r]

CanStart(r) ==
    \/ tagged[target_state[r]]
    \/ ~\E s \in Queue : state[s] = "Active" /\ target_state[s] = target_state[r]

\* The adapter builds the frame, tagged or not, and starts the request.
StartCommand(r) ==
    /\ state[r] = "Queued" /\ CanStart(r)
    /\ StartActive(r)
    /\ sent_tagged' = [sent_tagged EXCEPT ![r] = tagged[target_state[r]]]
    /\ UNCHANGED <<handle, dma, addrVars, targetVars, senseVars, enqueued>>

\* Mutant of Start: a request that has expired is started all the same.
StartCommandLate(r) ==
    /\ owned[r] /\ state[r] = "Queued" /\ CanStart(r) /\ HasExpired(r)
    /\ state' = [state EXCEPT ![r] = "Active"]
    /\ device' = device \cup {r}
    /\ UNCHANGED <<now, owned, pinned, started, timeout_ms, status, rank, age, svars>>

\* The frame is built, but the request expired before Start.
StartCommandExpired(r) ==
    /\ state[r] = "Queued" /\ CanStart(r)
    /\ StartExpired(r)
    /\ UNCHANGED svars

\* What an answer says: "good"; "error"; "sense" (CHECK CONDITION with autosense
\* data); a good INQUIRY of at least 8 bytes also says whether the logical unit
\* queues commands.
Outcomes == {"good", "error", "sense", "queueing", "nonqueueing"}
OutcomesOf(r) ==
    IF opcode[r] = "INQUIRY" THEN Outcomes ELSE {"good", "error", "sense"}

\* CommandQueue::Complete: sense data and CmdQue first, then the base class.
CompleteCommand(r, out) ==
    /\ out \in OutcomesOf(r)
    /\ state[r] # "Completed"
    /\ valid' = IF out = "sense" THEN [valid EXCEPT ![cached_sense[r]] = TRUE] ELSE valid
    /\ sense_of' = IF out = "sense" THEN [sense_of EXCEPT ![cached_sense[r]] = r] ELSE sense_of
    /\ tagged' = IF out \in {"queueing", "nonqueueing"}
                 THEN [tagged EXCEPT ![target_state[r]] = (out = "queueing")] ELSE tagged
    /\ Answer(r, IF out \in {"error", "sense"} THEN "Failed" ELSE "Success")
    /\ UNCHANGED <<handle, dma, addrVars, targets, target_state, sense_cache,
                   cached_sense, answered, sent_tagged, enqueued>>

-----------------------------------------------------------------------------
(* A host adapter reduced to its contract                                  *)

SInit ==
    /\ QInit
    /\ handle = [r \in Requests |-> "unborn"]
    /\ dma = [r \in Requests |-> "none"]
    /\ nexus = [r \in Requests |-> CHOOSE n \in Nexuses : TRUE]
    /\ opcode = [r \in Requests |-> "RW"]
    /\ origin = [r \in Requests |-> CHOOSE o \in Origins : TRUE]
    /\ targets = {}
    /\ tagged = [r \in Requests |-> FALSE]
    /\ target_state = [r \in Requests |-> NoObject]
    /\ sense_cache = {}
    /\ valid = [r \in Requests |-> FALSE]
    /\ sense_of = [r \in Requests |-> NoObject]
    /\ cached_sense = [r \in Requests |-> NoObject]
    /\ sent_tagged = [r \in Requests |-> FALSE]
    /\ answered = [r \in Requests |-> NoObject]
    /\ enqueued = NoObject

\* Steps of the host, which finishes Enqueue before it does anything else.
HostStep ==
    \/ \E r \in Requests, n \in Nexuses, op \in Opcodes, t \in TimeoutArgs, o \in Origins :
         Submit(r, n, op, t, o)
    \/ \E r \in Requests, n \in Nexuses, o \in Origins, p \in FailurePoints :
         SubmitFails(r, n, o, p)
    \/ AnswerFromCache
    \/ InvalidateSense
    \/ /\ enqueued = NoObject
       /\ \/ \E r \in Requests : StartCommand(r) \/ StartCommandExpired(r)
          \/ \E r \in Requests, out \in Outcomes : state[r] = "Active" /\ CompleteCommand(r, out)
          \/ ExpireQueued /\ UNCHANGED svars
          \/ PruneQueue
          \/ device = {} /\ FailQueue(TRUE)
          \/ FailQueue(FALSE)

HardwareStep ==
    \/ \E r \in Requests : HardwareDone(r) /\ UNCHANGED svars
    \/ HardwareStop /\ UNCHANGED svars

SNext ==
    \/ HostStep
    \/ HardwareStep
    \/ Tick /\ UNCHANGED svars
    \/ \E r \in Requests : r # enqueued /\ DropHandle(r)

SSpec == SInit /\ [][SNext]_<<qvars, svars>>

-----------------------------------------------------------------------------
(* Properties                                                              *)

\* A buffer handed to ReleaseDma is never one the hardware can still access,
\* however clients drop their handles and whatever fails.
DmaSafe == \A r \in device : dma[r] = "held"

\* No buffer is lost: a buffer that is not released belongs to a request object
\* somebody still holds.
NoDmaLeak == \A r \in Requests : dma[r] = "held" => Alive(r)

\* An untagged command is alone on its logical unit: CanStart compares pointers,
\* and INQUIRY answers change the tagging while commands are in flight.
UntaggedExclusive ==
    \A r, s \in Requests :
        (/\ r # s
         /\ state[r] = "Active" /\ state[s] = "Active"
         /\ nexus[r] = nexus[s])
            => sent_tagged[r] /\ sent_tagged[s]

\* Pointer comparison in CanStart is comparison of nexuses, and the sense buffer
\* of a live request is that of its client and nexus: the purge in Enqueue never
\* splits a nexus in two.
OneObjectPerNexus ==
    \A r, s \in Requests :
        Alive(r) /\ Alive(s) =>
            /\ (target_state[r] = target_state[s]) <=> (nexus[r] = nexus[s])
            /\ (cached_sense[r] = cached_sense[s]) <=>
                    (nexus[r] = nexus[s] /\ origin[r] = origin[s])

\* REQUEST SENSE answered by the cache returns the sense data of a failed command
\* of the same client on the same nexus, and no sense data is reported twice.
SenseReportedOnce ==
    \A r \in Requests : answered[r] # NoObject =>
        /\ nexus[answered[r]] = nexus[r]
        /\ origin[answered[r]] = origin[r]
        /\ status[answered[r]] = "Failed"
        /\ \A s \in Requests \ {r} : answered[s] # answered[r]

\* The SCSI queue uses the request queue only as its contract allows.
QueueContract == QSpec

=============================================================================
