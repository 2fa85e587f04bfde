------------------------- MODULE StorageRequestQueue -------------------------
(***************************************************************************)
(* StorageRequest and StorageRequestQueue: the queue of block requests a   *)
(* host adapter driver keeps (inc/cpp/trait/StorageTrait.hpp,              *)
(* lib/cpp/Device/Storage.cpp).  A request object is enqueued once, is     *)
(* started at most once, is completed exactly once, and is dropped from    *)
(* the queue when it is completed and not pinned.                          *)
(*                                                                         *)
(* The operators below are the queue's methods.  QSpec is the contract:    *)
(* a host that calls them in any order the comments of StorageTrait.hpp    *)
(* allow, together with hardware that owns the started requests.  The      *)
(* adapter drivers extend this module and are shown to implement QSpec.    *)
(*                                                                         *)
(* The vector of handles is represented by owned (r is in the vector) and  *)
(* rank (the order of Append): an object is appended at most once, so the  *)
(* vector is the owned requests sorted by rank.                            *)
(***************************************************************************)
EXTENDS Integers, FiniteSets

CONSTANTS
    Requests,      \* request objects
    ClockModulus,  \* the millisecond clock counts modulo this (2^32 in the code)
    TimeoutArgs    \* timeouts a client may ask for, legal or not

\* Largest legal timeout, 0x7FFFFFFF in the code: half the clock's range.
MaxTimeout == (ClockModulus \div 2) - 1

ASSUME ClockAssumption ==
    /\ ClockModulus \in Nat
    /\ MaxTimeout >= 1
    /\ TimeoutArgs \subseteq 0 .. ClockModulus - 1
    /\ IsFiniteSet(Requests)

VARIABLES
    now,         \* uint32 millisecond clock
    state,       \* StorageRequest::state
    owned,       \* owner == this queue, and the handle is in the vector
    pinned,      \* StorageRequest::pinned
    started,     \* clock value at Enqueue
    timeout_ms,  \* timeout given to Enqueue
    status,      \* StorageRequest::completion.status
    rank,        \* order of Append, 0 before it
    device,      \* requests whose buffers the hardware may still access
    age          \* true age of a pending request (a history variable)

qvars == <<now, state, owned, pinned, started, timeout_ms, status, rank, device, age>>

States   == {"Created", "Queued", "Active", "Completed"}
Statuses == {"Success", "Failed", "TimedOut"}

-----------------------------------------------------------------------------
(* Reading the queue                                                       *)

\* uint32(now - started): unsigned subtraction modulo the clock's range.
Elapsed(r, t) == (t - started[r]) % ClockModulus

IsPending(r) == state[r] \in {"Queued", "Active"}

\* Mutant of HasExpired: one millisecond late.
HasExpiredLate(r, t) == IsPending(r) /\ Elapsed(r, t) > timeout_ms[r]

HasExpiredAt(r, t) == IsPending(r) /\ Elapsed(r, t) >= timeout_ms[r]
HasExpired(r) == HasExpiredAt(r, now)

\* Milliseconds until the request expires, at least 1; ClockModulus - 1 stands
\* for 0xFFFFFFFF, "no deadline".
Remaining(r) ==
    IF ~IsPending(r) THEN ClockModulus - 1
    ELSE IF Elapsed(r, now) >= timeout_ms[r] THEN 1
    ELSE timeout_ms[r] - Elapsed(r, now)

Queue == {r \in Requests : owned[r]}

\* The vector's element after the first c appended ones, among those in S.
First(S, c) ==
    {r \in S : rank[r] > c /\ \A s \in S : rank[s] > c => rank[r] <= rank[s]}

\* Mutant of NextTimeout: the latest deadline instead of the earliest.
NextTimeoutLatest ==
    IF Queue = {} THEN ClockModulus - 1
    ELSE CHOOSE m \in {Remaining(r) : r \in Queue} :
             \A r \in Queue : m >= Remaining(r)

NextTimeout ==
    IF Queue = {} THEN ClockModulus - 1
    ELSE CHOOSE m \in {Remaining(r) : r \in Queue} :
             \A r \in Queue : m <= Remaining(r)

AnyExpired(s) == \E r \in Queue : state[r] = s /\ HasExpired(r)

-----------------------------------------------------------------------------
(* The methods, as updates of the queue's variables                        *)

\* StorageRequestQueue::Complete for every request of S: a request that is not
\* owned or already completed is left alone.
CompleteAll(S, st, quiesced) ==
    LET C == {r \in S : owned[r] /\ state[r] # "Completed"}
    IN  /\ pinned' = [r \in Requests |->
                        IF r \in C THEN state[r] = "Active" /\ ~quiesced ELSE pinned[r]]
        /\ status' = [r \in Requests |-> IF r \in C THEN st ELSE status[r]]
        /\ state'  = [r \in Requests |-> IF r \in C THEN "Completed" ELSE state[r]]
        /\ age'    = [r \in Requests |-> IF r \in C THEN 0 ELSE age[r]]
        /\ UNCHANGED <<now, owned, started, timeout_ms, rank, device>>

\* Mutant of the acceptance test: no upper limit on the timeout.
AcceptableUnlimited(r, t) == ~owned[r] /\ state[r] = "Created" /\ t # 0

\* Enqueue: accepted only for a fresh object and a legal timeout; ownership and
\* state are published after the vector has grown.
Acceptable(r, t) ==
    /\ ~owned[r]
    /\ state[r] = "Created"
    /\ t # 0
    /\ t <= MaxTimeout

Enqueue(r, t) ==
    /\ Acceptable(r, t)
    /\ owned'      = [owned EXCEPT ![r] = TRUE]
    /\ started'    = [started EXCEPT ![r] = now]
    /\ timeout_ms' = [timeout_ms EXCEPT ![r] = t]
    /\ state'      = [state EXCEPT ![r] = "Queued"]
    /\ rank'       = [rank EXCEPT ![r] =
                        Cardinality({s \in Requests : rank[s] > 0}) + 1]
    /\ age'        = [age EXCEPT ![r] = 0]
    /\ UNCHANGED <<now, pinned, status, device>>

\* Start on an expired request completes it instead.
StartExpired(r) ==
    /\ owned[r] /\ state[r] = "Queued" /\ HasExpired(r)
    /\ CompleteAll({r}, "TimedOut", TRUE)

\* Start, followed by the adapter's doorbell: from here the hardware owns the
\* request's buffers.
StartActive(r) ==
    /\ owned[r] /\ state[r] = "Queued" /\ ~HasExpired(r)
    /\ state' = [state EXCEPT ![r] = "Active"]
    /\ device' = device \cup {r}
    /\ UNCHANGED <<now, owned, pinned, started, timeout_ms, status, rank, age>>

ExpireQueued ==
    CompleteAll({r \in Queue : state[r] = "Queued" /\ HasExpired(r)}, "TimedOut", TRUE)

\* The requests Prune removes when the states and pins are those of st and pin.
Prunable(st, pin) == {r \in Queue : st[r] = "Completed" /\ ~pin[r]}

Prune ==
    /\ owned' = [r \in Requests |-> owned[r] /\ r \notin Prunable(state, pinned)]
    /\ UNCHANGED <<now, state, pinned, started, timeout_ms, status, rank,
                   device, age>>

\* Mutants of FailAll's effect on pins: an active request is not pinned by an
\* unconfirmed stop; a pin set earlier is dropped by an unconfirmed stop.
FailedUnpinned(quiesced) ==
    [r \in Requests |-> IF owned[r] THEN state[r] = "Completed" /\ pinned[r] /\ ~quiesced
                        ELSE pinned[r]]
FailedRepinned(quiesced) ==
    [r \in Requests |-> IF owned[r] THEN state[r] = "Active" /\ ~quiesced ELSE pinned[r]]

\* FailAll: unpin everything after a confirmed stop, complete what is not done,
\* prune.
FailedState  == [r \in Requests |-> IF owned[r] THEN "Completed" ELSE state[r]]
FailedPinned(quiesced) ==
    [r \in Requests |->
        IF ~owned[r] THEN pinned[r]
        ELSE IF state[r] = "Completed" THEN pinned[r] /\ ~quiesced
        ELSE state[r] = "Active" /\ ~quiesced]

\* Mutant of FailAll: completes what is already completed once more.
FailAllAgain(quiesced) ==
    /\ state'  = FailedState
    /\ pinned' = FailedPinned(quiesced)
    /\ status' = [r \in Requests |-> IF owned[r] THEN "Failed" ELSE status[r]]
    /\ age'    = [r \in Requests |-> IF owned[r] THEN 0 ELSE age[r]]
    /\ owned'  = [r \in Requests |->
                    owned[r] /\ r \notin Prunable(FailedState, FailedPinned(quiesced))]
    /\ UNCHANGED <<now, started, timeout_ms, rank, device>>

FailAll(quiesced) ==
    /\ state'  = FailedState
    /\ pinned' = FailedPinned(quiesced)
    /\ status' = [r \in Requests |->
                    IF owned[r] /\ state[r] # "Completed" THEN "Failed" ELSE status[r]]
    /\ age'    = [r \in Requests |-> IF owned[r] THEN 0 ELSE age[r]]
    /\ owned'  = [r \in Requests |->
                    owned[r] /\ r \notin Prunable(FailedState, FailedPinned(quiesced))]
    /\ UNCHANGED <<now, started, timeout_ms, rank, device>>

-----------------------------------------------------------------------------
(* Hardware and clock                                                      *)

\* The hardware is finished with a request's buffers.
HardwareDone(r) ==
    /\ r \in device
    /\ device' = device \ {r}
    /\ UNCHANGED <<now, state, owned, pinned, started, timeout_ms, status, rank, age>>

\* A confirmed stop: the hardware has forgotten every request.
HardwareStop ==
    /\ device' = {}
    /\ UNCHANGED <<now, state, owned, pinned, started, timeout_ms, status, rank, age>>

\* One millisecond.  The true age is exact below the clock's range.
Tick ==
    /\ now' = (now + 1) % ClockModulus
    /\ age' = [r \in Requests |->
                 IF IsPending(r) /\ age[r] < ClockModulus THEN age[r] + 1 ELSE age[r]]
    /\ UNCHANGED <<state, owned, pinned, started, timeout_ms, status, rank,
                   device>>

-----------------------------------------------------------------------------
(* The contract: what hosts and hardware may do with the queue             *)

QInit ==
    /\ now = 0
    /\ state = [r \in Requests |-> "Created"]
    /\ owned = [r \in Requests |-> FALSE]
    /\ pinned = [r \in Requests |-> FALSE]
    /\ started = [r \in Requests |-> 0]
    /\ timeout_ms = [r \in Requests |-> 0]
    /\ status = [r \in Requests |-> "Failed"]
    /\ rank = [r \in Requests |-> 0]
    /\ device = {}
    /\ age = [r \in Requests |-> 0]

\* A started request is completed by its answer, after the hardware has let go
\* of it; a queued one may be answered without the hardware.
Answer(r, st) ==
    /\ owned[r] /\ IsPending(r) /\ r \notin device
    /\ CompleteAll({r}, st, TRUE)

\* "quiesced must follow a confirmed stop/reset".
FailAllQuiesced == device = {} /\ FailAll(TRUE)

QNext ==
    \/ \E r \in Requests, t \in TimeoutArgs : Enqueue(r, t)
    \/ \E r \in Requests : StartExpired(r) \/ StartActive(r) \/ HardwareDone(r)
    \/ \E r \in Requests, st \in {"Success", "Failed"} : Answer(r, st)
    \/ ExpireQueued
    \/ Prune
    \/ FailAllQuiesced
    \/ FailAll(FALSE)
    \/ HardwareStop
    \/ Tick

QSpec == QInit /\ [][QNext]_qvars

-----------------------------------------------------------------------------
(* Properties                                                              *)

\* Types of the queue's variables; a pending request has a legal timeout.
QTypeOK ==
    /\ now \in 0 .. ClockModulus - 1
    /\ state \in [Requests -> States]
    /\ owned \in [Requests -> BOOLEAN]
    /\ pinned \in [Requests -> BOOLEAN]
    /\ started \in [Requests -> 0 .. ClockModulus - 1]
    /\ timeout_ms \in [Requests -> 0 .. MaxTimeout]
    /\ status \in [Requests -> Statuses]
    /\ rank \in [Requests -> Nat]
    /\ device \subseteq Requests
    /\ age \in [Requests -> 0 .. ClockModulus]

\* "Logical completion does not prove that hardware has stopped accessing
\* request-owned resources": whatever the order of completions, failures and
\* prunings, a request the hardware may still access is in the queue, and is
\* either active or pinned.
HardwareRetained ==
    \A r \in device : owned[r] /\ (state[r] = "Active" \/ pinned[r])

\* Only a completed request is pinned, and it stays in the queue; a request that
\* left the queue is completed.
PinsAndOwnership ==
    \A r \in Requests :
        /\ pinned[r] => owned[r] /\ state[r] = "Completed"
        /\ IsPending(r) => owned[r]
        /\ state[r] = "Created" => ~owned[r]

\* The clock's difference is the true age as long as the age is below the
\* clock's range, so that HasExpired is exact across a wrap of the clock.
ExpiryExact ==
    \A r \in Requests :
        IsPending(r) /\ age[r] < ClockModulus =>
            (HasExpired(r) <=> age[r] >= timeout_ms[r])

\* No request is reported as timed out before its timeout has really passed.
NoPrematureTimeout ==
    [][\A r \in Requests :
           state[r] # "Completed" /\ state'[r] = "Completed" /\ status'[r] = "TimedOut"
               => age[r] >= timeout_ms[r]]_qvars

\* A completed request is never completed again, started or re-queued: its
\* status, read by the client without the host's lock, does not change.
CompletedIsFinal ==
    [][\A r \in Requests : state[r] = "Completed" =>
           state'[r] = "Completed" /\ status'[r] = status[r]]_qvars

\* "active resources stay pinned even after failure": a pin is removed only once
\* the hardware no longer has the request.
PinnedUntilStop ==
    [][\A r \in Requests : pinned[r] /\ ~pinned'[r] => r \notin device]_qvars

\* A host that sleeps NextTimeout milliseconds misses no deadline and does not
\* wake in vain: no unexpired request expires earlier, and one has expired when
\* it wakes (ages near the clock's range excepted).
WakeupExact ==
    LET P == {r \in Queue : IsPending(r)}
    IN  P # {} =>
          /\ \A r \in P, d \in 0 .. NextTimeout - 1 :
                ~HasExpired(r) => ~HasExpiredAt(r, (now + d) % ClockModulus)
          /\ (\A r \in P : age[r] + NextTimeout < ClockModulus) =>
                \E r \in P : HasExpiredAt(r, (now + NextTimeout) % ClockModulus)

=============================================================================
