------------------------ MODULE ScsiCommandQueueProofs ------------------------
(***************************************************************************)
(* Proofs about the request queue's contract (StorageRequestQueue) and the *)
(* command queue on top of it, for every set of requests, every clock      *)
(* range and every set of timeouts.                                        *)
(*                                                                         *)
(* The contract.  The inductive invariant is the type invariant, the two   *)
(* ownership invariants and AgeExact, which relates the wrapping clock to  *)
(* the true age.  None of the ownership invariants is inductive alone:     *)
(* FailAll keeps HardwareRetained only because a pinned request is         *)
(* completed and still in the queue (PinsAndOwnership), and that a started *)
(* request is in the queue is PinsAndOwnership again.  The time to the     *)
(* next wakeup is a least element of a finite set, which LeastNatural      *)
(* provides; proofs by induction take a least counterexample with it.      *)
(*                                                                         *)
(* The command queue uses the request queue only as the contract allows,   *)
(* so that everything proved of the contract holds of it, and the DMA      *)
(* buffers are released neither too early nor never.  Nexuses are not      *)
(* split, an untagged command is alone, and sense data is reported once:   *)
(* what is shared between requests is described by SharedInv, which every  *)
(* step keeps in part.                                                     *)
(***************************************************************************)
EXTENDS ScsiCommandQueue, TLAPS, FiniteSetTheorems, WellFoundedInduction

\* The clock's difference is the true age of a pending request.
AgeExact ==
    \A r \in Requests : IsPending(r) /\ age[r] < ClockModulus => Elapsed(r, now) = age[r]

\* The inductive invariant.
IInv == QTypeOK /\ HardwareRetained /\ PinsAndOwnership /\ AgeExact

-----------------------------------------------------------------------------
(* Arithmetic of the wrapping clock                                        *)

\* A number in the clock's range is its own residue.
LEMMA ModSmall == ASSUME NEW M \in Nat, NEW x \in 0 .. M - 1, M > 0 PROVE x % M = x
    BY SMTT(30)

\* A negative difference wraps around once.
LEMMA ModNegative ==
    ASSUME NEW M \in Nat, M > 0, NEW x \in Int, x < 0, x + M >= 0
    PROVE  x % M = x + M
    BY SMTT(30)

\* The clock restarts at zero.
LEMMA ModWhole == ASSUME NEW M \in Nat, M > 0 PROVE M % M = 0
    BY SMTT(30)

\* A sum beyond the clock's range wraps around once.
LEMMA ModOver ==
    ASSUME NEW M \in Nat, M > 0, NEW x \in Int, x >= M, x < M + M
    PROVE  x % M = x - M
    BY SMTT(30)

\* The clock's range and the largest timeout.
LEMMA ClockRange ==
    /\ ClockModulus \in Nat
    /\ ClockModulus > 0
    /\ MaxTimeout \in Nat
    /\ MaxTimeout < ClockModulus
    BY ClockAssumption DEF MaxTimeout

\* uint32(now - started), without the modulus.
LEMMA ElapsedValue ==
    ASSUME NEW t \in 0 .. ClockModulus - 1, NEW s \in 0 .. ClockModulus - 1
    PROVE  /\ (t - s) % ClockModulus \in 0 .. ClockModulus - 1
           /\ t >= s => (t - s) % ClockModulus = t - s
           /\ t < s => (t - s) % ClockModulus = t - s + ClockModulus
<1>1. CASE t >= s
  <2>1. t - s \in 0 .. ClockModulus - 1
    BY <1>1, ClockRange
  <2>2. (t - s) % ClockModulus = t - s
    BY <2>1, ClockRange, ModSmall
  <2> QED BY <1>1, <2>1, <2>2, ClockRange
<1>2. CASE t < s
  <2>1. (t - s) % ClockModulus = t - s + ClockModulus
    BY <1>2, ClockRange, ModNegative
  <2> QED BY <1>2, <2>1, ClockRange
<1> QED BY <1>1, <1>2, ClockRange

\* One millisecond more on the clock.
LEMMA NextMillisecond ==
    ASSUME NEW t \in 0 .. ClockModulus - 1
    PROVE  /\ (t + 1) % ClockModulus \in 0 .. ClockModulus - 1
           /\ t + 1 < ClockModulus => (t + 1) % ClockModulus = t + 1
           /\ t + 1 = ClockModulus => (t + 1) % ClockModulus = 0
<1>1. CASE t + 1 < ClockModulus
  BY <1>1, ClockRange, ModSmall
<1>2. CASE t + 1 = ClockModulus
  BY <1>2, ClockRange, ModWhole
<1> QED BY <1>1, <1>2, ClockRange

\* A tick of the clock adds one to a difference that does not wrap itself.
LEMMA ElapsedAfterTick ==
    ASSUME NEW t \in 0 .. ClockModulus - 1, NEW s \in 0 .. ClockModulus - 1,
           ((t - s) % ClockModulus) + 1 < ClockModulus
    PROVE  (((t + 1) % ClockModulus) - s) % ClockModulus = ((t - s) % ClockModulus) + 1
<1> DEFINE u == (t + 1) % ClockModulus
<1>1. u \in 0 .. ClockModulus - 1
  BY NextMillisecond
<1>2. /\ t + 1 < ClockModulus => u = t + 1
      /\ t + 1 = ClockModulus => u = 0
  BY NextMillisecond
<1>3. /\ t >= s => (t - s) % ClockModulus = t - s
      /\ t < s => (t - s) % ClockModulus = t - s + ClockModulus
  BY ElapsedValue
<1>4. /\ u >= s => (u - s) % ClockModulus = u - s
      /\ u < s => (u - s) % ClockModulus = u - s + ClockModulus
  BY <1>1, ElapsedValue
<1> HIDE DEF u
<1>5. t + 1 < ClockModulus \/ t + 1 = ClockModulus
  BY ClockRange
<1>6. (u - s) % ClockModulus = ((t - s) % ClockModulus) + 1
  BY <1>1, <1>2, <1>3, <1>4, <1>5, ClockRange
<1> QED BY <1>6 DEF u

-----------------------------------------------------------------------------
(* The inductive invariant                                                 *)

\* The rank given to an appended request is a number.
LEMMA RankIsNat == Cardinality({s \in Requests : rank[s] > 0}) \in Nat
    BY ClockAssumption, FS_Subset, FS_CardinalityType

\* The queue is empty at the start.
LEMMA InitInvariant == QInit => IInv
<1> SUFFICES ASSUME QInit PROVE IInv
  OBVIOUS
<1>1. QTypeOK
  BY ClockRange DEF QInit, QTypeOK, States, Statuses
<1>2. HardwareRetained /\ PinsAndOwnership /\ AgeExact
  BY DEF QInit, HardwareRetained, PinsAndOwnership, AgeExact, IsPending
<1> QED BY <1>1, <1>2 DEF IInv

\* Completing requests that the hardware does not have keeps the invariant.
LEMMA CompleteAllStep ==
    ASSUME IInv, NEW S \in SUBSET Requests, NEW st \in Statuses,
           S \cap device = {}, CompleteAll(S, st, TRUE)
    PROVE  IInv'
<1> DEFINE C == {r \in S : owned[r] /\ state[r] # "Completed"}
<1>0. C \subseteq Requests /\ C \cap device = {}
  OBVIOUS
<1>1. /\ pinned' = [r \in Requests |-> IF r \in C THEN FALSE ELSE pinned[r]]
      /\ status' = [r \in Requests |-> IF r \in C THEN st ELSE status[r]]
      /\ state'  = [r \in Requests |-> IF r \in C THEN "Completed" ELSE state[r]]
      /\ age'    = [r \in Requests |-> IF r \in C THEN 0 ELSE age[r]]
      /\ UNCHANGED <<now, owned, started, timeout_ms, rank, device>>
  BY DEF CompleteAll
<1>2. \A r \in C : owned[r]
  OBVIOUS
<1> HIDE DEF C
<1>3. QTypeOK'
  <2>1. pinned' \in [Requests -> BOOLEAN]
    BY <1>1 DEF IInv, QTypeOK
  <2>2. state' \in [Requests -> States] /\ status' \in [Requests -> Statuses]
    BY <1>1 DEF IInv, QTypeOK, States
  <2>3. age' \in [Requests -> 0 .. ClockModulus]
    BY <1>1, ClockRange DEF IInv, QTypeOK
  <2> QED BY <1>1, <2>1, <2>2, <2>3 DEF IInv, QTypeOK
<1>4. HardwareRetained'
  BY <1>0, <1>1 DEF IInv, QTypeOK, HardwareRetained
<1>5. PinsAndOwnership'
  BY <1>0, <1>1, <1>2 DEF IInv, QTypeOK, PinsAndOwnership, IsPending, States
<1>6. AgeExact'
  BY <1>0, <1>1 DEF IInv, QTypeOK, AgeExact, IsPending, Elapsed
<1> QED BY <1>3, <1>4, <1>5, <1>6 DEF IInv

\* FailAll keeps the invariant if a quiesced call follows a confirmed stop.
LEMMA FailAllStep ==
    ASSUME IInv, NEW quiesced \in BOOLEAN, quiesced => device = {}, FailAll(quiesced)
    PROVE  IInv'
<1>1. /\ state' = [r \in Requests |-> IF owned[r] THEN "Completed" ELSE state[r]]
      /\ pinned' = [r \in Requests |->
                      IF ~owned[r] THEN pinned[r]
                      ELSE IF state[r] = "Completed" THEN pinned[r] /\ ~quiesced
                      ELSE state[r] = "Active" /\ ~quiesced]
      /\ owned' = [r \in Requests |-> owned[r] /\ ~(state'[r] = "Completed" /\ ~pinned'[r])]
      /\ UNCHANGED <<now, started, timeout_ms, rank, device>>
  BY DEF FailAll, FailedState, FailedPinned, Prunable, Queue
<1>2. /\ status' = [r \in Requests |->
                      IF owned[r] /\ state[r] # "Completed" THEN "Failed" ELSE status[r]]
      /\ age' = [r \in Requests |-> IF owned[r] THEN 0 ELSE age[r]]
  BY DEF FailAll
<1>3. QTypeOK'
  <2>1. pinned' \in [Requests -> BOOLEAN] /\ owned' \in [Requests -> BOOLEAN]
    BY <1>1 DEF IInv, QTypeOK
  <2>2. state' \in [Requests -> States] /\ status' \in [Requests -> Statuses]
    BY <1>1, <1>2 DEF IInv, QTypeOK, States, Statuses
  <2>3. age' \in [Requests -> 0 .. ClockModulus]
    BY <1>2, ClockRange DEF IInv, QTypeOK
  <2> QED BY <1>1, <2>1, <2>2, <2>3 DEF IInv, QTypeOK
<1>4. HardwareRetained'
  <2> SUFFICES ASSUME NEW r \in device PROVE owned'[r] /\ pinned'[r]
    BY <1>1 DEF HardwareRetained
  <2>1. r \in Requests /\ ~quiesced /\ owned[r] /\ (state[r] = "Active" \/ pinned[r])
    BY DEF IInv, QTypeOK, HardwareRetained
  <2>2. pinned[r] => state[r] = "Completed"
    BY <2>1 DEF IInv, PinsAndOwnership
  <2>3. pinned'[r]
    BY <1>1, <2>1, <2>2
  <2> QED BY <1>1, <2>1, <2>3
<1>5. PinsAndOwnership'
  <2> SUFFICES ASSUME NEW r \in Requests
               PROVE  /\ pinned'[r] => owned'[r] /\ state'[r] = "Completed"
                      /\ state'[r] \in {"Queued", "Active"} => owned'[r]
                      /\ state'[r] = "Created" => ~owned'[r]
    BY DEF PinsAndOwnership, IsPending
  <2>1. /\ pinned[r] => owned[r] /\ state[r] = "Completed"
        /\ state[r] \in {"Queued", "Active"} => owned[r]
        /\ state[r] = "Created" => ~owned[r]
    BY DEF IInv, PinsAndOwnership, IsPending
  <2>2. CASE owned[r]
    BY <1>1, <2>1, <2>2
  <2>3. CASE ~owned[r]
    BY <1>1, <2>1, <2>3
  <2> QED BY <2>2, <2>3
<1>6. AgeExact'
  BY <1>1, <1>2 DEF IInv, QTypeOK, PinsAndOwnership, AgeExact, IsPending, Elapsed
<1> QED BY <1>3, <1>4, <1>5, <1>6 DEF IInv

\* Every step of the contract keeps the invariant.
LEMMA StepInvariant == IInv /\ [QNext]_qvars => IInv'
<1> SUFFICES ASSUME IInv, [QNext]_qvars PROVE IInv'
  OBVIOUS
<1> USE DEF IInv
<1>1. ASSUME NEW r \in Requests, NEW t \in TimeoutArgs, Enqueue(r, t) PROVE IInv'
  <2>1. t \in 0 .. MaxTimeout /\ ~owned[r] /\ state[r] = "Created"
    BY <1>1, ClockAssumption, ClockRange DEF Enqueue, Acceptable
  <2>2. QTypeOK'
    <3>1. rank' \in [Requests -> Nat]
      BY <1>1, RankIsNat DEF Enqueue, QTypeOK
    <3>2. state' \in [Requests -> States] /\ owned' \in [Requests -> BOOLEAN]
      BY <1>1 DEF Enqueue, QTypeOK, States
    <3>3. /\ started' \in [Requests -> 0 .. ClockModulus - 1]
          /\ timeout_ms' \in [Requests -> 0 .. MaxTimeout]
          /\ age' \in [Requests -> 0 .. ClockModulus]
      BY <1>1, <2>1, ClockRange DEF Enqueue, QTypeOK
    <3> QED BY <1>1, <3>1, <3>2, <3>3 DEF Enqueue, QTypeOK
  <2>3. HardwareRetained' /\ PinsAndOwnership'
    BY <1>1, <2>1 DEF Enqueue, QTypeOK, HardwareRetained, PinsAndOwnership, IsPending
  <2>4. AgeExact'
    <3>1. (now - now) % ClockModulus = 0
      BY ElapsedValue DEF QTypeOK
    <3> QED BY <1>1, <3>1 DEF Enqueue, QTypeOK, AgeExact, IsPending, Elapsed
  <2> QED BY <2>2, <2>3, <2>4
<1>2. ASSUME NEW r \in Requests, StartExpired(r) PROVE IInv'
  <2>1. {r} \in SUBSET Requests /\ {r} \cap device = {} /\ "TimedOut" \in Statuses
    BY <1>2 DEF StartExpired, HardwareRetained, PinsAndOwnership, Statuses
  <2> QED BY <1>2, <2>1, CompleteAllStep DEF StartExpired
<1>3. ASSUME NEW r \in Requests, StartActive(r) PROVE IInv'
  <2>1. QTypeOK'
    BY <1>3 DEF StartActive, QTypeOK, States
  <2>2. HardwareRetained' /\ PinsAndOwnership'
    BY <1>3 DEF StartActive, QTypeOK, HardwareRetained, PinsAndOwnership, IsPending
  <2>3. AgeExact'
    BY <1>3 DEF StartActive, QTypeOK, AgeExact, IsPending, Elapsed
  <2> QED BY <2>1, <2>2, <2>3
<1>4. ASSUME NEW r \in Requests, HardwareDone(r) PROVE IInv'
  BY <1>4 DEF HardwareDone, QTypeOK, HardwareRetained, PinsAndOwnership, AgeExact,
              IsPending, Elapsed
<1>5. ASSUME NEW r \in Requests, NEW st \in {"Success", "Failed"}, Answer(r, st)
      PROVE  IInv'
  <2>1. {r} \in SUBSET Requests /\ {r} \cap device = {} /\ st \in Statuses
    BY <1>5 DEF Answer, Statuses
  <2> QED BY <1>5, <2>1, CompleteAllStep DEF Answer
<1>6. CASE ExpireQueued
  <2> DEFINE E == {r \in Queue : state[r] = "Queued" /\ HasExpired(r)}
  <2>1. E \in SUBSET Requests /\ E \cap device = {} /\ "TimedOut" \in Statuses
    BY DEF Queue, HardwareRetained, PinsAndOwnership, Statuses
  <2>2. CompleteAll(E, "TimedOut", TRUE)
    BY <1>6 DEF ExpireQueued
  <2> QED BY <2>1, <2>2, CompleteAllStep
<1>7. CASE Prune
  <2>1. owned' = [r \in Requests |-> owned[r] /\ ~(state[r] = "Completed" /\ ~pinned[r])]
    BY <1>7 DEF Prune, Prunable, Queue
  <2>2. UNCHANGED <<now, state, pinned, started, timeout_ms, status, rank, device, age>>
    BY <1>7 DEF Prune
  <2>3. QTypeOK'
    BY <2>1, <2>2 DEF QTypeOK
  <2>4. HardwareRetained' /\ PinsAndOwnership'
    BY <2>1, <2>2 DEF QTypeOK, HardwareRetained, PinsAndOwnership, IsPending
  <2>5. AgeExact'
    BY <2>2 DEF AgeExact, IsPending, Elapsed
  <2> QED BY <2>3, <2>4, <2>5
<1>8. CASE FailAllQuiesced
  BY <1>8, FailAllStep DEF FailAllQuiesced
<1>9. CASE FailAll(FALSE)
  BY <1>9, FailAllStep
<1>10. CASE HardwareStop
  BY <1>10 DEF HardwareStop, QTypeOK, HardwareRetained, PinsAndOwnership, AgeExact,
               IsPending, Elapsed
<1>11. CASE Tick
  <2>1. now' \in 0 .. ClockModulus - 1
    BY <1>11, NextMillisecond DEF Tick, QTypeOK
  <2>2. age' \in [Requests -> 0 .. ClockModulus]
    BY <1>11, ClockRange DEF Tick, QTypeOK
  <2>3. QTypeOK'
    BY <1>11, <2>1, <2>2 DEF Tick, QTypeOK
  <2>4. HardwareRetained' /\ PinsAndOwnership'
    BY <1>11 DEF Tick, HardwareRetained, PinsAndOwnership, IsPending
  <2>5. AgeExact'
    <3> SUFFICES ASSUME NEW r \in Requests, IsPending(r), age'[r] < ClockModulus
                 PROVE  (now' - started[r]) % ClockModulus = age'[r]
      BY <1>11 DEF Tick, AgeExact, IsPending, Elapsed
    <3>1. age'[r] = age[r] + 1 /\ age[r] + 1 < ClockModulus /\ age[r] < ClockModulus
      BY <1>11, ClockRange DEF Tick, QTypeOK
    <3>2. (now - started[r]) % ClockModulus = age[r]
      BY <3>1 DEF AgeExact, Elapsed
    <3>3. now' = (now + 1) % ClockModulus
      BY <1>11 DEF Tick
    <3>4. now \in 0 .. ClockModulus - 1 /\ started[r] \in 0 .. ClockModulus - 1
      BY DEF QTypeOK
    <3> QED BY <3>1, <3>2, <3>3, <3>4, ElapsedAfterTick
  <2> QED BY <2>3, <2>4, <2>5
<1>12. CASE UNCHANGED qvars
  BY <1>12 DEF qvars, QTypeOK, HardwareRetained, PinsAndOwnership, AgeExact, IsPending,
               Elapsed
<1> QED
  BY <1>1, <1>2, <1>3, <1>4, <1>5, <1>6, <1>7, <1>8, <1>9, <1>10, <1>11, <1>12 DEF QNext

\* The inductive invariant holds in every reachable state.
THEOREM Invariance == QSpec => []IInv
<1>1. QInit => IInv
  BY InitInvariant
<1>2. IInv /\ [QNext]_qvars => IInv'
  BY StepInvariant
<1> QED BY <1>1, <1>2, PTL DEF QSpec

-----------------------------------------------------------------------------
(* What the invariant implies                                              *)

\* Type correctness of the queue, the limit on accepted timeouts included.
THEOREM TypeCorrectness == QSpec => []QTypeOK
  BY Invariance, PTL DEF IInv

\* A request whose buffers the hardware may access stays in the queue, active or
\* pinned, whatever completes, fails or is pruned.
THEOREM BuffersRetained == QSpec => []HardwareRetained
  BY Invariance, PTL DEF IInv

\* Pinned requests are completed and owned, pending ones are owned.
THEOREM OwnershipConsistent == QSpec => []PinsAndOwnership
  BY Invariance, PTL DEF IInv

\* The expiry test on the wrapping 32-bit clock is a test of the true age.
THEOREM ExpiryIsExact == QSpec => []ExpiryExact
<1>1. IInv => ExpiryExact
  BY DEF IInv, AgeExact, ExpiryExact, HasExpired, HasExpiredAt
<1> QED BY <1>1, Invariance, PTL

\* An expired request is really as old as its timeout, also when its age is
\* beyond the clock's range.
LEMMA ExpiredIsOld ==
    ASSUME IInv, NEW r \in Requests, HasExpired(r) PROVE age[r] >= timeout_ms[r]
<1>1. IsPending(r) /\ Elapsed(r, now) >= timeout_ms[r]
  BY DEF HasExpired, HasExpiredAt
<1>2. age[r] \in 0 .. ClockModulus /\ timeout_ms[r] \in 0 .. MaxTimeout
  BY DEF IInv, QTypeOK
<1>3. CASE age[r] < ClockModulus
  BY <1>1, <1>2, <1>3 DEF IInv, AgeExact
<1>4. CASE age[r] = ClockModulus
  BY <1>2, <1>4, ClockRange
<1> QED BY <1>2, <1>3, <1>4, ClockRange

\* No request is reported as timed out before its timeout has passed.
THEOREM TimeoutsAreDue == QSpec => NoPrematureTimeout
<1> DEFINE Due == \A r \in Requests :
                     state[r] # "Completed" /\ state'[r] = "Completed" /\ status'[r] = "TimedOut"
                         => age[r] >= timeout_ms[r]
<1>1. IInv /\ [QNext]_qvars => [Due]_qvars
  <2> SUFFICES ASSUME IInv, QNext, NEW r \in Requests, state[r] # "Completed",
                      state'[r] = "Completed", status'[r] = "TimedOut"
               PROVE  age[r] >= timeout_ms[r]
    OBVIOUS
  <2>0. IInv' /\ "TimedOut" # "Failed" /\ "TimedOut" # "Success"
    BY StepInvariant
  <2>1. ASSUME NEW q \in Requests, StartExpired(q) PROVE HasExpired(r)
    BY <2>1 DEF StartExpired, CompleteAll
  <2>2. ASSUME ExpireQueued PROVE HasExpired(r)
    BY <2>2 DEF ExpireQueued, CompleteAll
  <2>3. ASSUME NEW q \in Requests, NEW t \in TimeoutArgs, Enqueue(q, t) PROVE FALSE
    BY <2>3 DEF Enqueue, IInv, QTypeOK
  <2>4. ASSUME NEW q \in Requests, StartActive(q) \/ HardwareDone(q) PROVE FALSE
    BY <2>4 DEF StartActive, HardwareDone, IInv, QTypeOK
  <2>5. ASSUME NEW q \in Requests, NEW st \in {"Success", "Failed"}, Answer(q, st)
        PROVE  FALSE
    BY <2>0, <2>5 DEF Answer, CompleteAll
  <2>6. ASSUME Prune \/ HardwareStop \/ Tick PROVE FALSE
    BY <2>6 DEF Prune, HardwareStop, Tick
  <2>7. ASSUME FailAllQuiesced \/ FailAll(FALSE) PROVE FALSE
    BY <2>0, <2>7 DEF FailAllQuiesced, FailAll, FailedState
  <2>8. HasExpired(r)
    BY <2>1, <2>2, <2>3, <2>4, <2>5, <2>6, <2>7 DEF QNext
  <2> QED BY <2>8, ExpiredIsOld
<1> QED BY <1>1, Invariance, PTL DEF QSpec, NoPrematureTimeout

\* A step of the queue leaves a completed request as it is.
LEMMA FinalStep ==
    ASSUME IInv, [QNext]_qvars, NEW r \in Requests, state[r] = "Completed"
    PROVE  state'[r] = "Completed" /\ status'[r] = status[r]
<1> DEFINE Final == state'[r] = "Completed" /\ status'[r] = status[r]
<1>1. ASSUME NEW S, NEW st, CompleteAll(S, st, TRUE) PROVE Final
  BY <1>1 DEF CompleteAll
<1>2. ASSUME NEW q \in Requests, StartExpired(q) PROVE Final
  BY <1>1, <1>2 DEF StartExpired
<1>3. ASSUME NEW q \in Requests, NEW st \in {"Success", "Failed"}, Answer(q, st) PROVE Final
  BY <1>1, <1>3 DEF Answer
<1>4. ASSUME ExpireQueued PROVE Final
  BY <1>1, <1>4 DEF ExpireQueued
<1>5. ASSUME NEW q \in Requests, NEW t \in TimeoutArgs, Enqueue(q, t) PROVE Final
  BY <1>5 DEF Enqueue, Acceptable, IInv, QTypeOK
<1>6. ASSUME NEW q \in Requests, StartActive(q) \/ HardwareDone(q) PROVE Final
  BY <1>6 DEF StartActive, HardwareDone, IInv, QTypeOK
<1>7. ASSUME Prune \/ HardwareStop \/ Tick \/ UNCHANGED qvars PROVE Final
  BY <1>7 DEF Prune, HardwareStop, Tick, qvars
<1>8. ASSUME FailAllQuiesced \/ FailAll(FALSE) PROVE Final
  BY <1>8 DEF FailAllQuiesced, FailAll, FailedState
<1> QED BY <1>2, <1>3, <1>4, <1>5, <1>6, <1>7, <1>8 DEF QNext

\* A completed request never changes its state or status again.
THEOREM CompletionIsFinal == QSpec => CompletedIsFinal
<1> DEFINE Final == \A r \in Requests : state[r] = "Completed" =>
                       state'[r] = "Completed" /\ status'[r] = status[r]
<1>1. IInv /\ [QNext]_qvars => [Final]_qvars
  BY FinalStep
<1> QED BY <1>1, Invariance, PTL DEF QSpec, CompletedIsFinal

\* A pin is removed only once the hardware no longer has the request.
THEOREM PinsHoldUntilStop == QSpec => PinnedUntilStop
<1> DEFINE Held == \A r \in Requests : pinned[r] /\ ~pinned'[r] => r \notin device
<1>1. IInv /\ [QNext]_qvars => [Held]_qvars
  <2> SUFFICES ASSUME IInv, QNext, NEW r \in Requests, pinned[r], r \in device
               PROVE  pinned'[r]
    OBVIOUS
  <2>1. state[r] = "Completed" /\ owned[r]
    BY DEF IInv, PinsAndOwnership
  <2>2. ASSUME NEW S, NEW st, CompleteAll(S, st, TRUE) PROVE pinned'[r]
    BY <2>1, <2>2 DEF CompleteAll
  <2>3. ASSUME NEW q \in Requests, StartExpired(q) PROVE pinned'[r]
    BY <2>2, <2>3 DEF StartExpired
  <2>4. ASSUME NEW q \in Requests, NEW st \in {"Success", "Failed"}, Answer(q, st)
        PROVE  pinned'[r]
    BY <2>2, <2>4 DEF Answer
  <2>5. ASSUME ExpireQueued PROVE pinned'[r]
    BY <2>2, <2>5 DEF ExpireQueued
  <2>6. ASSUME FailAllQuiesced PROVE FALSE
    BY <2>6 DEF FailAllQuiesced
  <2>7. ASSUME FailAll(FALSE) PROVE pinned'[r]
    BY <2>1, <2>7 DEF FailAll, FailedPinned
  <2>8. ASSUME NEW q \in Requests, NEW t \in TimeoutArgs, Enqueue(q, t) PROVE pinned'[r]
    BY <2>8 DEF Enqueue
  <2>9. ASSUME NEW q \in Requests, StartActive(q) \/ HardwareDone(q) PROVE pinned'[r]
    BY <2>9 DEF StartActive, HardwareDone
  <2>10. ASSUME Prune \/ HardwareStop \/ Tick PROVE pinned'[r]
    BY <2>10 DEF Prune, HardwareStop, Tick
  <2> QED BY <2>3, <2>4, <2>5, <2>6, <2>7, <2>8, <2>9, <2>10 DEF QNext
<1> QED BY <1>1, Invariance, PTL DEF QSpec, PinnedUntilStop

-----------------------------------------------------------------------------
(* The wake-up time                                                        *)

\* A set of naturals that is not empty has a least element.
LEMMA LeastNatural ==
    ASSUME NEW S \in SUBSET Nat, S # {}
    PROVE  \E m \in S : \A n \in S : m <= n
<1> DEFINE R == OpToRel(<, Nat)
<1>1. IsWellFoundedOn(R, Nat)
  BY NatLessThanWellFounded
<1>2. ASSUME NEW x \in Nat, NEW y \in Nat, x < y PROVE <<x, y>> \in R
  BY <1>2 DEF OpToRel
<1> HIDE DEF R
<1>3. PICK m \in S : \A n \in S : ~(<<n, m>> \in R)
  BY <1>1, WFMin
<1>4. m \in Nat /\ \A n \in S : n \in Nat /\ ~(n < m)
  BY <1>2, <1>3
<1> QED BY <1>4

\* The clock's difference d milliseconds from now, as long as it does not wrap.
LEMMA ElapsedLater ==
    ASSUME NEW t \in 0 .. ClockModulus - 1, NEW s \in 0 .. ClockModulus - 1, NEW d \in Nat,
           ((t - s) % ClockModulus) + d < ClockModulus
    PROVE  (((t + d) % ClockModulus) - s) % ClockModulus = ((t - s) % ClockModulus) + d
<1> DEFINE e == (t - s) % ClockModulus
           u == (t + d) % ClockModulus
<1>1. /\ e \in 0 .. ClockModulus - 1
      /\ t >= s => e = t - s
      /\ t < s => e = t - s + ClockModulus
  BY ElapsedValue
<1>2. CASE t + d < ClockModulus
  <2>1. t + d \in 0 .. ClockModulus - 1
    BY <1>2, ClockRange
  <2>2. u = t + d
    BY <2>1, ClockRange, ModSmall
  <2>3. /\ t + d >= s => (t + d - s) % ClockModulus = t + d - s
        /\ t + d < s => (t + d - s) % ClockModulus = t + d - s + ClockModulus
    BY <2>1, ElapsedValue
  <2> HIDE DEF e, u
  <2>4. (u - s) % ClockModulus = e + d
    <3>1. CASE t >= s
      BY <1>1, <2>2, <2>3, <3>1, ClockRange
    <3>2. CASE t < s
      BY <1>1, <2>2, <2>3, <3>2, ClockRange DEF e
    <3> QED BY <3>1, <3>2
  <2> QED BY <2>4 DEF e, u
<1>3. CASE t + d >= ClockModulus
  <2>1. t >= s /\ d < ClockModulus
    BY <1>1, <1>3, ClockRange
  <2>2. t + d - ClockModulus \in 0 .. ClockModulus - 1
    BY <1>1, <1>3, <2>1, ClockRange
  <2>3. u = t + d - ClockModulus
    BY <1>3, <2>2, ClockRange, ModOver
  <2>4. /\ u >= s => (u - s) % ClockModulus = u - s
        /\ u < s => (u - s) % ClockModulus = u - s + ClockModulus
    BY <2>2, <2>3, ElapsedValue
  <2>5. e + d < ClockModulus
    OBVIOUS
  <2> HIDE DEF e, u
  <2>6. (u - s) % ClockModulus = e + d
    BY <1>1, <2>1, <2>2, <2>3, <2>4, <2>5, ClockRange
  <2> QED BY <2>6 DEF e, u
<1> QED BY <1>2, <1>3, ClockRange

\* Remaining is positive, at most the timeout for a pending request, and says how
\* far the clock's difference is from it.
LEMMA RemainingValue ==
    ASSUME IInv, NEW r \in Requests
    PROVE  /\ Remaining(r) \in Nat
           /\ ~IsPending(r) => Remaining(r) = ClockModulus - 1
           /\ IsPending(r) => Remaining(r) < ClockModulus - 1
           /\ IsPending(r) /\ Elapsed(r, now) >= timeout_ms[r] => Remaining(r) = 1
           /\ IsPending(r) /\ Elapsed(r, now) < timeout_ms[r] =>
                  Remaining(r) = timeout_ms[r] - Elapsed(r, now)
<1>1. /\ now \in 0 .. ClockModulus - 1 /\ started[r] \in 0 .. ClockModulus - 1
      /\ timeout_ms[r] \in 0 .. MaxTimeout
  BY DEF IInv, QTypeOK
<1>2. Elapsed(r, now) \in 0 .. ClockModulus - 1
  BY <1>1, ElapsedValue DEF Elapsed
<1>3. MaxTimeout \in Nat /\ MaxTimeout >= 1 /\ MaxTimeout < ClockModulus - 1 /\ ClockModulus \in Nat
  BY ClockAssumption DEF MaxTimeout
<1> QED BY <1>1, <1>2, <1>3 DEF Remaining

\* NextTimeout is the least of the queue's remaining times.
LEMMA NextTimeoutIsLeast ==
    ASSUME IInv, Queue # {}
    PROVE  /\ \E r \in Queue : NextTimeout = Remaining(r)
           /\ \A r \in Queue : NextTimeout <= Remaining(r)
<1> DEFINE S == {Remaining(r) : r \in Queue}
<1>1. S \in SUBSET Nat /\ S # {}
  BY RemainingValue DEF Queue
<1>2. \E m \in S : \A n \in S : m <= n
  BY <1>1, LeastNatural
<1>3. \E m \in S : \A r \in Queue : m <= Remaining(r)
  BY <1>2
<1>4. NextTimeout \in S /\ \A r \in Queue : NextTimeout <= Remaining(r)
  BY <1>3 DEF NextTimeout
<1> QED BY <1>4

\* A host that sleeps for NextTimeout milliseconds neither misses a deadline nor
\* wakes in vain, for every clock range, across the wrap of the clock.
THEOREM WakeupIsExact == QSpec => []WakeupExact
<1>1. ASSUME IInv PROVE WakeupExact
  <2> DEFINE P == {r \in Queue : IsPending(r)}
  <2> SUFFICES ASSUME P # {}
               PROVE  /\ \A r \in P, d \in 0 .. NextTimeout - 1 :
                            ~HasExpired(r) => ~HasExpiredAt(r, (now + d) % ClockModulus)
                      /\ (\A r \in P : age[r] + NextTimeout < ClockModulus) =>
                            \E r \in P : HasExpiredAt(r, (now + NextTimeout) % ClockModulus)
    BY DEF WakeupExact
  <2>1. Queue # {} /\ Queue \subseteq Requests
    BY DEF Queue
  <2>2. /\ \E r \in Queue : NextTimeout = Remaining(r)
        /\ \A r \in Queue : NextTimeout <= Remaining(r)
    BY <1>1, <2>1, NextTimeoutIsLeast
  <2>3. NextTimeout \in Nat
    BY <1>1, <2>1, <2>2, RemainingValue
  <2>4. ASSUME NEW r \in Requests
        PROVE  /\ now \in 0 .. ClockModulus - 1 /\ started[r] \in 0 .. ClockModulus - 1
               /\ timeout_ms[r] \in 0 .. MaxTimeout /\ Elapsed(r, now) \in 0 .. ClockModulus - 1
               /\ Elapsed(r, now) = (now - started[r]) % ClockModulus
    BY <1>1, ElapsedValue DEF IInv, QTypeOK, Elapsed
  <2>5. ASSUME NEW r \in P, NEW d \in 0 .. NextTimeout - 1, ~HasExpired(r)
        PROVE  ~HasExpiredAt(r, (now + d) % ClockModulus)
    <3>1. r \in Requests /\ r \in Queue /\ IsPending(r)
      BY <2>1
    <3>2. Elapsed(r, now) < timeout_ms[r]
      BY <2>4, <2>5, <3>1, ClockRange DEF HasExpired, HasExpiredAt
    <3>3. NextTimeout <= timeout_ms[r] - Elapsed(r, now)
      BY <1>1, <2>2, <3>1, <3>2, RemainingValue
    <3>4. d \in Nat /\ Elapsed(r, now) + d < timeout_ms[r] /\ Elapsed(r, now) + d < ClockModulus
      BY <2>3, <2>4, <3>1, <3>3, ClockRange
    <3>5. Elapsed(r, (now + d) % ClockModulus) = Elapsed(r, now) + d
      BY <2>4, <3>1, <3>4, ElapsedLater DEF Elapsed
    <3> QED BY <2>4, <3>1, <3>4, <3>5, ClockRange DEF HasExpiredAt
  <2>6. ASSUME \A r \in P : age[r] + NextTimeout < ClockModulus
        PROVE  \E r \in P : HasExpiredAt(r, (now + NextTimeout) % ClockModulus)
    <3>1. PICK p \in P : TRUE
      OBVIOUS
    <3>2. p \in Requests /\ p \in Queue /\ IsPending(p)
      BY <2>1
    <3>3. NextTimeout < ClockModulus - 1
      BY <1>1, <2>2, <2>3, <3>2, RemainingValue, ClockRange
    <3>4. PICK r \in Queue : NextTimeout = Remaining(r)
      BY <2>2
    <3>5. r \in Requests /\ IsPending(r)
      BY <1>1, <2>1, <3>3, <3>4, RemainingValue, ClockRange
    <3>6. age[r] \in Nat /\ age[r] + NextTimeout < ClockModulus
      BY <1>1, <2>6, <3>5, ClockRange DEF IInv, QTypeOK
    <3>7. Elapsed(r, now) = age[r]
      BY <1>1, <2>3, <3>5, <3>6, ClockRange DEF IInv, AgeExact
    <3>8. Elapsed(r, (now + NextTimeout) % ClockModulus) = Elapsed(r, now) + NextTimeout
      BY <2>3, <2>4, <3>5, <3>6, <3>7, ElapsedLater DEF Elapsed
    <3>9. Elapsed(r, now) + NextTimeout >= timeout_ms[r]
      BY <1>1, <2>3, <2>4, <3>4, <3>5, RemainingValue, ClockRange
    <3> QED BY <3>5, <3>8, <3>9 DEF HasExpiredAt
  <2> QED BY <2>5, <2>6
<1> QED BY <1>1, Invariance, PTL

-----------------------------------------------------------------------------
(* The order of the vector                                                 *)

\* Requests that have been in the vector.
Appended == {r \in Requests : rank[r] > 0}

\* rank is the order of Append: a request gets one when it leaves "Created", two
\* requests never share one, and the next one is larger than all of them.
RankInv ==
    /\ \A r \in Requests : (state[r] = "Created") <=> (rank[r] = 0)
    /\ \A r \in Requests : rank[r] <= Cardinality(Appended)
    /\ \A r, s \in Appended : rank[r] = rank[s] => r = s

\* Appending a request gives it a rank of its own.
LEMMA EnqueueRank ==
    ASSUME IInv, RankInv, NEW r \in Requests, NEW t, Enqueue(r, t) PROVE RankInv'
<1> DEFINE n == Cardinality(Appended)
<1>0. n \in Nat /\ IsFiniteSet(Appended)
  BY ClockAssumption, FS_Subset, FS_CardinalityType DEF Appended
<1>1. state[r] = "Created" /\ rank[r] = 0
  BY DEF Enqueue, Acceptable, RankInv
<1>2. /\ \A s \in Requests : rank'[s] = IF s = r THEN n + 1 ELSE rank[s]
      /\ \A s \in Requests : state'[s] = IF s = r THEN "Queued" ELSE state[s]
  BY DEF Enqueue, Appended, IInv, QTypeOK
<1>3. \A s \in Requests : rank[s] \in Nat /\ rank[s] <= n
  BY DEF IInv, QTypeOK, RankInv
<1>4. Appended' = Appended \cup {r} /\ r \notin Appended
  <2> HIDE DEF n
  <2> QED BY <1>0, <1>1, <1>2 DEF Appended
<1>5. Cardinality(Appended') = n + 1
  BY <1>0, <1>4, FS_AddElement
<1> HIDE DEF n
<1>6. \A s \in Requests : (state'[s] = "Created") <=> (rank'[s] = 0)
  BY <1>0, <1>2 DEF RankInv
<1>7. \A s \in Requests : rank'[s] <= n + 1
  BY <1>0, <1>2, <1>3
<1>8. \A x, y \in Appended' : rank'[x] = rank'[y] => x = y
  BY <1>0, <1>2, <1>3, <1>4 DEF RankInv, Appended
<1> QED BY <1>5, <1>6, <1>7, <1>8 DEF RankInv

\* Every step keeps the order.
LEMMA RankStep == ASSUME IInv, RankInv, [QNext]_qvars PROVE RankInv'
<1> DEFINE Kept == UNCHANGED rank /\
                   \A r \in Requests : (state'[r] = "Created") <=> (state[r] = "Created")
<1>0. ASSUME Kept PROVE RankInv'
  <2>1. Appended' = Appended
    BY <1>0 DEF Appended
  <2> QED BY <1>0, <2>1 DEF RankInv
<1>1. \A r \in Requests : owned[r] => state[r] # "Created"
  BY DEF IInv, PinsAndOwnership
<1>2. ASSUME NEW S, NEW st, CompleteAll(S, st, TRUE) PROVE Kept
  BY <1>1, <1>2 DEF CompleteAll
<1>3. ASSUME NEW q \in Requests, StartExpired(q) PROVE Kept
  BY <1>2, <1>3 DEF StartExpired
<1>4. ASSUME NEW q \in Requests, NEW st \in {"Success", "Failed"}, Answer(q, st) PROVE Kept
  BY <1>2, <1>4 DEF Answer
<1>5. ASSUME ExpireQueued PROVE Kept
  BY <1>2, <1>5 DEF ExpireQueued
<1>6. ASSUME NEW q \in Requests, StartActive(q) \/ HardwareDone(q) PROVE Kept
  BY <1>6 DEF StartActive, HardwareDone, IInv, QTypeOK
<1>7. ASSUME Prune \/ HardwareStop \/ Tick \/ UNCHANGED qvars PROVE Kept
  BY <1>7 DEF Prune, HardwareStop, Tick, qvars
<1>8. ASSUME FailAllQuiesced \/ FailAll(FALSE) PROVE Kept
  BY <1>1, <1>8 DEF FailAllQuiesced, FailAll, FailedState
<1>9. ASSUME NEW q \in Requests, NEW t \in TimeoutArgs, Enqueue(q, t) PROVE RankInv'
  BY <1>9, EnqueueRank
<1> HIDE DEF Kept
<1> QED BY <1>0, <1>3, <1>4, <1>5, <1>6, <1>7, <1>8, <1>9 DEF QNext

\* Requests in the vector are totally ordered by rank, which is what the loops over
\* it rely on.
THEOREM RanksAreAnOrder == QSpec => []RankInv
<1>1. QInit => RankInv
  <2> SUFFICES ASSUME QInit PROVE RankInv
    OBVIOUS
  <2>1. Appended = {} /\ \A r \in Requests : rank[r] = 0 /\ state[r] = "Created"
    BY DEF QInit, Appended
  <2> QED BY <2>1, FS_EmptySet DEF RankInv
<1>2. IInv /\ RankInv /\ [QNext]_qvars => RankInv'
  BY RankStep
<1> QED BY <1>1, <1>2, Invariance, PTL DEF QSpec

-----------------------------------------------------------------------------
(* The command queue                                                       *)

\* The request in Enqueue is a request, if there is one.
EnqueuedTyped == enqueued \in Objects

\* A request in the queue owns its buffer, and a buffer that is not released
\* belongs to a request somebody holds.
BufferInv ==
    /\ dma \in [Requests -> {"none", "held", "released"}]
    /\ handle \in [Requests -> {"unborn", "held", "dropped"}]
    /\ \A r \in Requests : owned[r] => dma[r] = "held"
    /\ \A r \in Requests : handle[r] = "unborn" => dma[r] = "none"
    /\ NoDmaLeak

-----------------------------------------------------------------------------
(* Implementation of the contract                                          *)

\* Completing a command is answering its request.
LEMMA CompleteIsAnswer ==
    ASSUME NEW r \in Requests, NEW out \in Outcomes, CompleteCommand(r, out)
    PROVE  \E st \in {"Success", "Failed"} : Answer(r, st)
  BY DEF CompleteCommand

\* The steps of SNext, one by one.
LEMMA StepCases ==
    ASSUME SNext, NEW P,
           ASSUME NEW r \in Requests, NEW n \in Nexuses, NEW op \in Opcodes,
                  NEW t \in TimeoutArgs, NEW o \in Origins, Submit(r, n, op, t, o)
           PROVE  P,
           ASSUME NEW r \in Requests, NEW n \in Nexuses, NEW o \in Origins,
                  NEW p \in FailurePoints, SubmitFails(r, n, o, p)
           PROVE  P,
           AnswerFromCache => P,
           InvalidateSense => P,
           ASSUME NEW r \in Requests, StartCommand(r) PROVE P,
           ASSUME NEW r \in Requests, StartCommandExpired(r) PROVE P,
           ASSUME NEW r \in Requests, NEW out \in Outcomes, state[r] = "Active",
                  CompleteCommand(r, out)
           PROVE  P,
           ExpireQueued /\ UNCHANGED svars => P,
           PruneQueue => P,
           device = {} /\ FailQueue(TRUE) => P,
           FailQueue(FALSE) => P,
           ASSUME NEW r \in Requests, HardwareDone(r), UNCHANGED svars PROVE P,
           HardwareStop /\ UNCHANGED svars => P,
           Tick /\ UNCHANGED svars => P,
           ASSUME NEW r \in Requests, DropHandle(r) PROVE P
    PROVE  P
  BY DEF SNext, HostStep, HardwareStep

\* Every step of the SCSI queue is a step of the contract or leaves it alone.
LEMMA StepRefinement ==
    ASSUME EnqueuedTyped, [SNext]_<<qvars, svars>> PROVE [QNext]_qvars
<1> SUFFICES ASSUME SNext PROVE QNext \/ UNCHANGED qvars
  OBVIOUS
<1> DEFINE P == QNext \/ UNCHANGED qvars
<1>1. ASSUME NEW r \in Requests, NEW n \in Nexuses, NEW op \in Opcodes,
             NEW t \in TimeoutArgs, NEW o \in Origins, Submit(r, n, op, t, o)
      PROVE  P
  BY <1>1 DEF Submit, QNext
<1>2. ASSUME NEW r \in Requests, NEW n \in Nexuses, NEW o \in Origins,
             NEW p \in FailurePoints, SubmitFails(r, n, o, p)
      PROVE  P
  BY <1>2 DEF SubmitFails
<1>3. AnswerFromCache => P
  BY DEF AnswerFromCache, QNext, EnqueuedTyped, Objects
<1>4. InvalidateSense => P
  BY DEF InvalidateSense
<1>5. ASSUME NEW r \in Requests, StartCommand(r) PROVE P
  BY <1>5 DEF StartCommand, QNext
<1>6. ASSUME NEW r \in Requests, StartCommandExpired(r) PROVE P
  BY <1>6 DEF StartCommandExpired, QNext
<1>7. ASSUME NEW r \in Requests, NEW out \in Outcomes, state[r] = "Active",
             CompleteCommand(r, out)
      PROVE  P
  BY <1>7, CompleteIsAnswer DEF QNext
<1>8. ExpireQueued /\ UNCHANGED svars => P
  BY DEF QNext
<1>9. PruneQueue => P
  BY DEF PruneQueue, QNext
<1>10. device = {} /\ FailQueue(TRUE) => P
  BY DEF FailQueue, FailAllQuiesced, QNext
<1>11. FailQueue(FALSE) => P
  BY DEF FailQueue, QNext
<1>12. ASSUME NEW r \in Requests, HardwareDone(r), UNCHANGED svars PROVE P
  BY <1>12 DEF QNext
<1>13. HardwareStop /\ UNCHANGED svars => P
  BY DEF QNext
<1>14. Tick /\ UNCHANGED svars => P
  BY DEF QNext
<1>15. ASSUME NEW r \in Requests, DropHandle(r) PROVE P
  BY <1>15 DEF DropHandle
<1> HIDE DEF P
<1>16. P
  BY <1>1, <1>2, <1>3, <1>4, <1>5, <1>6, <1>7, <1>8, <1>9, <1>10, <1>11, <1>12, <1>13,
     <1>14, <1>15, StepCases
<1> QED BY <1>16 DEF P

\* The submission in progress is that of a request.
LEMMA EnqueuedStep == ASSUME EnqueuedTyped, [SNext]_<<qvars, svars>> PROVE EnqueuedTyped'
<1>1. ASSUME SNext PROVE enqueued' = enqueued \/ enqueued' = NoObject \/ enqueued' \in Requests
  <2> DEFINE P == enqueued' = enqueued \/ enqueued' = NoObject \/ enqueued' \in Requests
  <2>1. UNCHANGED svars => P
    BY DEF svars
  <2>2. ASSUME NEW r \in Requests, NEW n \in Nexuses, NEW op \in Opcodes,
               NEW t \in TimeoutArgs, NEW o \in Origins, Submit(r, n, op, t, o)
        PROVE  P
    BY <2>2 DEF Submit
  <2>3. ASSUME NEW r \in Requests, NEW n \in Nexuses, NEW o \in Origins,
               NEW p \in FailurePoints, SubmitFails(r, n, o, p)
        PROVE  P
    BY <2>3 DEF SubmitFails
  <2>4. AnswerFromCache \/ InvalidateSense => P
    BY DEF AnswerFromCache, InvalidateSense
  <2>5. ASSUME NEW r \in Requests, StartCommand(r) \/ StartCommandExpired(r) PROVE P
    BY <2>1, <2>5 DEF StartCommand, StartCommandExpired
  <2>6. ASSUME NEW r \in Requests, NEW out \in Outcomes, CompleteCommand(r, out) PROVE P
    BY <2>6 DEF CompleteCommand
  <2>7. PruneQueue \/ FailQueue(TRUE) \/ FailQueue(FALSE) => P
    BY DEF PruneQueue, FailQueue
  <2>8. ASSUME NEW r \in Requests, DropHandle(r) PROVE P
    BY <2>8 DEF DropHandle
  <2> HIDE DEF P
  <2>9. P
    BY <1>1, <2>1, <2>2, <2>3, <2>4, <2>5, <2>6, <2>7, <2>8, StepCases
  <2> QED BY <2>9 DEF P
<1> QED BY <1>1 DEF EnqueuedTyped, Objects, svars

\* The SCSI queue implements the contract of the request queue.
THEOREM ImplementsContract == SSpec => QueueContract
<1>1. SInit => QInit /\ EnqueuedTyped
  BY DEF SInit, EnqueuedTyped, Objects
<1>2. EnqueuedTyped /\ [SNext]_<<qvars, svars>> => EnqueuedTyped' /\ [QNext]_qvars
  BY EnqueuedStep, StepRefinement
<1> QED BY <1>1, <1>2, PTL DEF SSpec, QueueContract, QSpec

-----------------------------------------------------------------------------
(* DMA buffers                                                             *)

\* The destructor releases the buffers nobody needs and no others.
LEMMA DestructStep ==
    ASSUME BufferInv, PinsAndOwnership',
           handle' \in [Requests -> {"unborn", "held", "dropped"}],
           Destruct(owned', handle', state', pinned'),
           \A r \in Requests : owned'[r] => owned[r],
           \A r \in Requests : handle'[r] = "unborn" <=> handle[r] = "unborn"
    PROVE  BufferInv'
<1>1. dma' = [r \in Requests |->
                IF /\ dma[r] = "held" /\ ~owned'[r] /\ handle'[r] = "dropped"
                   /\ ~pinned'[r] /\ state'[r] # "Active"
                THEN "released" ELSE dma[r]]
  BY DEF Destruct
<1>2. dma' \in [Requests -> {"none", "held", "released"}]
  BY <1>1 DEF BufferInv
<1>3. ASSUME NEW r \in Requests, owned'[r] PROVE dma'[r] = "held"
  BY <1>1, <1>3 DEF BufferInv
<1>4. ASSUME NEW r \in Requests, dma'[r] = "held" PROVE owned'[r] \/ handle'[r] = "held"
  <2>1. dma[r] = "held" /\ handle[r] # "unborn"
    BY <1>1, <1>4 DEF BufferInv
  <2>2. ~owned'[r] => ~pinned'[r] /\ state'[r] # "Active"
    BY DEF PinsAndOwnership, IsPending
  <2> QED BY <1>1, <1>4, <2>1, <2>2
<1>5. ASSUME NEW r \in Requests, handle'[r] = "unborn" PROVE dma'[r] = "none"
  BY <1>1, <1>5 DEF BufferInv
<1> QED BY <1>2, <1>3, <1>4, <1>5 DEF BufferInv, NoDmaLeak, Alive

\* A step that changes neither ownership, handles nor buffers.
LEMMA BufferUnchanged ==
    ASSUME BufferInv, UNCHANGED <<owned, handle, dma>> PROVE BufferInv'
  BY DEF BufferInv, NoDmaLeak, Alive

\* Completing requests changes neither ownership, handles nor buffers.
LEMMA CompleteKeepsOwned ==
    ASSUME NEW S, NEW st, NEW q, CompleteAll(S, st, q) PROVE UNCHANGED owned
  BY DEF CompleteAll

\* Every step keeps the invariant of the buffers.
LEMMA BufferStep ==
    ASSUME IInv, IInv', BufferInv, [SNext]_<<qvars, svars>> PROVE BufferInv'
<1> SUFFICES ASSUME SNext PROVE BufferInv'
  BY BufferUnchanged DEF qvars, svars
<1>0. PinsAndOwnership' /\ owned \in [Requests -> BOOLEAN] /\ owned' \in [Requests -> BOOLEAN]
  BY DEF IInv, QTypeOK
<1>1. ASSUME NEW r \in Requests, NEW n \in Nexuses, NEW op \in Opcodes,
             NEW t \in TimeoutArgs, NEW o \in Origins, Submit(r, n, op, t, o)
      PROVE  BufferInv'
  <2>1. /\ owned' = [owned EXCEPT ![r] = TRUE]
        /\ handle' = [handle EXCEPT ![r] = "held"]
        /\ dma' = [dma EXCEPT ![r] = "held"]
    BY <1>1 DEF Submit, Enqueue
  <2> QED BY <1>0, <2>1 DEF BufferInv, NoDmaLeak, Alive
<1>2. ASSUME NEW r \in Requests, NEW n \in Nexuses, NEW o \in Origins,
             NEW p \in FailurePoints, SubmitFails(r, n, o, p)
      PROVE  BufferInv'
  <2>1. /\ handle[r] = "unborn" /\ handle' = [handle EXCEPT ![r] = "dropped"]
        /\ UNCHANGED <<owned, dma>>
    BY <1>2 DEF SubmitFails, qvars
  <2> QED BY <2>1 DEF BufferInv, NoDmaLeak, Alive
<1>3. AnswerFromCache => BufferInv'
  BY BufferUnchanged, CompleteKeepsOwned DEF AnswerFromCache, Answer
<1>4. InvalidateSense => BufferInv'
  BY BufferUnchanged DEF InvalidateSense, qvars
<1>5. ASSUME NEW r \in Requests, StartCommand(r) PROVE BufferInv'
  BY <1>5, BufferUnchanged DEF StartCommand, StartActive
<1>6. ASSUME NEW r \in Requests, StartCommandExpired(r) PROVE BufferInv'
  BY <1>6, BufferUnchanged, CompleteKeepsOwned DEF StartCommandExpired, StartExpired, svars
<1>7. ASSUME NEW r \in Requests, NEW out \in Outcomes, state[r] = "Active",
             CompleteCommand(r, out)
      PROVE  BufferInv'
  BY <1>7, BufferUnchanged, CompleteKeepsOwned DEF CompleteCommand, Answer
<1>8. ExpireQueued /\ UNCHANGED svars => BufferInv'
  BY BufferUnchanged, CompleteKeepsOwned DEF ExpireQueued, svars
<1>9. PruneQueue => BufferInv'
  <2> SUFFICES ASSUME PruneQueue PROVE BufferInv'
    OBVIOUS
  <2>1. /\ UNCHANGED <<handle, state, pinned>>
        /\ \A r \in Requests : owned'[r] => owned[r]
    BY DEF PruneQueue, Prune
  <2>2. Destruct(owned', handle', state', pinned')
    BY <2>1 DEF PruneQueue, Destruct
  <2> QED BY <1>0, <2>1, <2>2, DestructStep DEF BufferInv
<1>10. ASSUME NEW q \in BOOLEAN, FailQueue(q) PROVE BufferInv'
  <2>1. /\ UNCHANGED handle
        /\ \A r \in Requests : owned'[r] => owned[r]
    BY <1>10 DEF FailQueue, FailAll
  <2>2. Destruct(owned', handle', state', pinned')
    BY <1>10, <2>1 DEF FailQueue, Destruct
  <2> QED BY <1>0, <2>1, <2>2, DestructStep DEF BufferInv
<1>11. ASSUME NEW r \in Requests, HardwareDone(r), UNCHANGED svars PROVE BufferInv'
  BY <1>11, BufferUnchanged DEF HardwareDone, svars
<1>12. HardwareStop /\ UNCHANGED svars => BufferInv'
  BY BufferUnchanged DEF HardwareStop, svars
<1>13. Tick /\ UNCHANGED svars => BufferInv'
  BY BufferUnchanged DEF Tick, svars
<1>14. ASSUME NEW r \in Requests, DropHandle(r) PROVE BufferInv'
  <2>1. /\ handle[r] = "held" /\ handle' = [handle EXCEPT ![r] = "dropped"]
        /\ UNCHANGED <<owned, state, pinned>>
    BY <1>14 DEF DropHandle, qvars
  <2>2. Destruct(owned', handle', state', pinned')
    BY <1>14, <2>1 DEF DropHandle, Destruct
  <2>3. /\ handle' \in [Requests -> {"unborn", "held", "dropped"}]
        /\ \A s \in Requests : handle'[s] = "unborn" <=> handle[s] = "unborn"
    BY <2>1 DEF BufferInv
  <2> QED BY <1>0, <2>1, <2>2, <2>3, DestructStep
<1> QED
  BY <1>1, <1>2, <1>3, <1>4, <1>5, <1>6, <1>7, <1>8, <1>9, <1>10, <1>11, <1>12, <1>13,
     <1>14, StepCases

\* The buffers follow the life of their requests.
LEMMA BufferInvariance == SSpec => [](IInv /\ BufferInv)
<1>1. SInit => BufferInv
  BY DEF SInit, QInit, BufferInv, NoDmaLeak, Alive
<1>2. IInv /\ IInv' /\ BufferInv /\ [SNext]_<<qvars, svars>> => BufferInv'
  BY BufferStep
<1>3. SSpec => []IInv
  BY ImplementsContract, Invariance, PTL DEF QueueContract
<1> QED BY <1>1, <1>2, <1>3, PTL DEF SSpec

\* No buffer the hardware can still access is released.
THEOREM BuffersSafe == SSpec => []DmaSafe
<1>1. IInv /\ BufferInv => DmaSafe
  BY DEF IInv, QTypeOK, HardwareRetained, BufferInv, DmaSafe
<1> QED BY <1>1, BufferInvariance, PTL

\* No buffer is lost.
THEOREM BuffersNotLost == SSpec => []NoDmaLeak
  BY BufferInvariance, PTL DEF BufferInv

-----------------------------------------------------------------------------
(* Target states and sense buffers: the inductive invariant                *)

\* Types of the shared objects and of the requests' references to them.
ObjectTypes ==
    /\ nexus \in [Requests -> Nexuses] /\ origin \in [Requests -> Origins]
    /\ target_state \in [Requests -> Objects] /\ cached_sense \in [Requests -> Objects]
    /\ sense_of \in [Requests -> Objects] /\ answered \in [Requests -> Objects]
    /\ tagged \in [Requests -> BOOLEAN] /\ valid \in [Requests -> BOOLEAN]
    /\ sent_tagged \in [Requests -> BOOLEAN]

\* The shared objects are those of submissions that have happened, there is one
\* target state per nexus and one sense buffer per client and nexus in the
\* vectors, and a live request refers to its own.
ObjectsInv ==
    /\ targets \subseteq Requests /\ sense_cache \subseteq Requests
    /\ \A i \in targets \cup sense_cache : handle[i] # "unborn"
    /\ \A i, j \in targets : nexus[i] = nexus[j] => i = j
    /\ \A i, j \in sense_cache : nexus[i] = nexus[j] /\ origin[i] = origin[j] => i = j
    /\ \A r \in Requests : Alive(r) =>
          /\ target_state[r] \in targets
          /\ nexus[target_state[r]] = nexus[r]
          /\ cached_sense[r] \in sense_cache
          /\ nexus[cached_sense[r]] = nexus[r]
          /\ origin[cached_sense[r]] = origin[r]

\* A logical unit is not marked as queueing while an untagged command is out.
TaggingInv ==
    /\ UntaggedExclusive
    /\ \A r \in Requests :
          state[r] = "Active" /\ tagged[target_state[r]] => sent_tagged[r]

\* x is a failed command of the client and the nexus of r, and will stay so.
FailedOf(x, r) ==
    /\ x \in Requests
    /\ handle[x] # "unborn" /\ state[x] = "Completed" /\ status[x] = "Failed"
    /\ nexus[x] = nexus[r] /\ origin[x] = origin[r]

\* Valid sense data is that of a failed command, of which no other buffer and no
\* client has the sense data.
SenseInv ==
    /\ \A i \in Requests : valid[i] =>
          /\ i \in sense_cache
          /\ FailedOf(sense_of[i], i)
          /\ \A j \in Requests : valid[j] /\ sense_of[j] = sense_of[i] => j = i
          /\ \A r \in Requests : answered[r] # sense_of[i]
    /\ \A r \in Requests : answered[r] # NoObject =>
          /\ handle[r] # "unborn"
          /\ FailedOf(answered[r], r)
          /\ \A s \in Requests : answered[s] = answered[r] => s = r

\* The inductive invariant of nexuses, tags and sense data.
SharedInv == ObjectTypes /\ ObjectsInv /\ TaggingInv /\ SenseInv

-----------------------------------------------------------------------------
(* What keeps each part                                                    *)

\* A submission that has happened stays so, with its nexus and client.
BornKept ==
    \A r \in Requests : handle[r] # "unborn" =>
        handle'[r] # "unborn" /\ nexus'[r] = nexus[r] /\ origin'[r] = origin[r]

\* Completed requests stay as they are.
FinalKept ==
    \A r \in Requests : state[r] = "Completed" =>
        state'[r] = "Completed" /\ status'[r] = status[r]

\* A request that has not been submitted has no owner and no object.
LEMMA UnbornIsNew ==
    ASSUME BufferInv, ObjectsInv, NEW r \in Requests, handle[r] = "unborn"
    PROVE  ~Alive(r) /\ r \notin targets /\ r \notin sense_cache
  BY DEF BufferInv, ObjectsInv, Alive

\* The purge keeps what live requests refer to, and valid sense data.
LEMMA PurgeKeeps ==
    ASSUME ObjectsInv
    PROVE  /\ KeptTargets \subseteq targets /\ KeptSenses \subseteq sense_cache
           /\ \A r \in Requests : Alive(r) =>
                 target_state[r] \in KeptTargets /\ cached_sense[r] \in KeptSenses
           /\ \A i \in sense_cache : valid[i] => i \in KeptSenses
  BY DEF ObjectsInv, KeptTargets, KeptSenses

\* The objects, when no submission happens.
LEMMA ObjectsKept ==
    ASSUME ObjectsInv, BornKept,
           UNCHANGED <<targets, sense_cache, target_state, cached_sense>>,
           \A r \in Requests : Alive(r)' => Alive(r),
           \A r \in Requests : Alive(r) => handle[r] # "unborn"
    PROVE  ObjectsInv'
<1>1. \A i \in targets \cup sense_cache :
         /\ i \in Requests /\ handle'[i] # "unborn"
         /\ nexus'[i] = nexus[i] /\ origin'[i] = origin[i]
  BY DEF ObjectsInv, BornKept
<1>2. ASSUME NEW r \in Requests, Alive(r)'
      PROVE  /\ target_state[r] \in targets /\ nexus'[target_state[r]] = nexus'[r]
             /\ cached_sense[r] \in sense_cache /\ nexus'[cached_sense[r]] = nexus'[r]
             /\ origin'[cached_sense[r]] = origin'[r]
  BY <1>1, <1>2 DEF ObjectsInv, BornKept
<1> QED BY <1>1, <1>2 DEF ObjectsInv

\* The tagging, when no request is started.
LEMMA TaggingKept ==
    ASSUME TaggingInv, sent_tagged' = sent_tagged,
           \A r \in Requests : state'[r] = "Active" =>
               /\ state[r] = "Active" /\ nexus'[r] = nexus[r]
               /\ target_state'[r] = target_state[r]
               /\ tagged'[target_state[r]] = tagged[target_state[r]]
    PROVE  TaggingInv'
  BY DEF TaggingInv, UntaggedExclusive

\* FailedOf in the next state, of an x and an r of this state.
FailedNext(x, r) ==
    /\ x \in Requests
    /\ handle'[x] # "unborn" /\ state'[x] = "Completed" /\ status'[x] = "Failed"
    /\ nexus'[x] = nexus'[r] /\ origin'[x] = origin'[r]

\* A failed command stays one.
LEMMA FailedKept ==
    ASSUME BornKept, FinalKept, NEW x, NEW r \in Requests, handle[r] # "unborn", FailedOf(x, r)
    PROVE  FailedNext(x, r)
  BY DEF FailedOf, FailedNext, BornKept, FinalKept

\* The sense data, when none is produced or reported.
LEMMA SenseKept ==
    ASSUME SenseInv, ObjectsInv, BornKept, FinalKept, UNCHANGED <<valid, sense_of, answered>>,
           \A i \in sense_cache : valid[i] => i \in sense_cache'
    PROVE  SenseInv'
<1>1. ASSUME NEW i \in Requests, valid[i]
      PROVE  i \in sense_cache' /\ FailedNext(sense_of[i], i)
  BY <1>1, FailedKept DEF SenseInv, ObjectsInv
<1>2. ASSUME NEW r \in Requests, answered[r] # NoObject
      PROVE  handle'[r] # "unborn" /\ FailedNext(answered[r], r)
  BY <1>2, FailedKept DEF SenseInv, BornKept
<1> QED BY <1>1, <1>2 DEF SenseInv, FailedOf, FailedNext

\* A live request has been submitted.
LEMMA AliveIsBorn ==
    ASSUME BufferInv PROVE \A r \in Requests : Alive(r) => handle[r] # "unborn"
  BY DEF BufferInv, Alive

\* A pending request is in the queue.
LEMMA ActiveIsAlive ==
    ASSUME IInv PROVE \A r \in Requests : state[r] = "Active" => owned[r] /\ Alive(r)
  BY DEF IInv, PinsAndOwnership, IsPending, Alive

\* Steps that start nothing, produce no sense data and touch no object: they can
\* only end the life of requests.
LEMMA QuietStep ==
    ASSUME BufferInv, SharedInv, FinalKept,
           UNCHANGED <<nexus, origin, targetVars, senseVars, sent_tagged>>,
           \A r \in Requests : Alive(r)' => Alive(r),
           \A r \in Requests : handle[r] # "unborn" => handle'[r] # "unborn",
           \A r \in Requests : state'[r] = "Active" => state[r] = "Active"
    PROVE  SharedInv'
<1>1. BornKept
  BY DEF BornKept
<1>2. ObjectTypes'
  BY DEF SharedInv, ObjectTypes, targetVars, senseVars
<1>3. ObjectsInv'
  BY <1>1, ObjectsKept, AliveIsBorn DEF SharedInv, targetVars, senseVars
<1>4. TaggingInv'
  BY TaggingKept DEF SharedInv, targetVars
<1>5. SenseInv'
  BY <1>1, SenseKept DEF SharedInv, senseVars
<1> QED BY <1>2, <1>3, <1>4, <1>5 DEF SharedInv

-----------------------------------------------------------------------------
(* The steps                                                               *)

\* A submission adds an object only if the vector has none for it.
LEMMA SubmitObjects ==
    ASSUME IInv, BufferInv, SharedInv, FinalKept,
           NEW r \in Requests, NEW n \in Nexuses, NEW op \in Opcodes,
           NEW t \in TimeoutArgs, NEW o \in Origins, Submit(r, n, op, t, o)
    PROVE  SharedInv'
<1>0. handle[r] = "unborn" /\ ~Alive(r) /\ r \notin targets /\ r \notin sense_cache
  BY UnbornIsNew DEF Submit, SharedInv
<1>1. PICK i \in (IF TargetMatches(n) = {} THEN {r} ELSE TargetMatches(n)) :
         /\ target_state' = [target_state EXCEPT ![r] = i]
         /\ targets' = KeptTargets \cup {i}
         /\ tagged' = IF i = r THEN [tagged EXCEPT ![r] = FALSE] ELSE tagged
  BY DEF Submit
<1>2. PICK k \in (IF SenseMatches(n, o) = {} THEN {r} ELSE SenseMatches(n, o)) :
         /\ cached_sense' = [cached_sense EXCEPT ![r] = k]
         /\ sense_cache' = KeptSenses \cup {k}
  BY DEF Submit
<1>3. /\ nexus' = [nexus EXCEPT ![r] = n] /\ origin' = [origin EXCEPT ![r] = o]
      /\ handle' = [handle EXCEPT ![r] = "held"]
      /\ owned' = [owned EXCEPT ![r] = TRUE]
      /\ state' = [state EXCEPT ![r] = "Queued"]
      /\ UNCHANGED <<valid, sense_of, answered, sent_tagged>>
  BY DEF Submit, Enqueue
<1>4. /\ KeptTargets \subseteq targets /\ KeptSenses \subseteq sense_cache
      /\ \A q \in Requests : Alive(q) =>
            target_state[q] \in KeptTargets /\ cached_sense[q] \in KeptSenses
      /\ \A j \in sense_cache : valid[j] => j \in KeptSenses
  BY PurgeKeeps DEF SharedInv
<1>5. \/ i = r /\ \A j \in KeptTargets : nexus[j] # n
      \/ i \in KeptTargets /\ nexus[i] = n /\ i # r
  BY <1>0, <1>1, <1>4 DEF TargetMatches
<1>6. \/ k = r /\ \A j \in KeptSenses : ~(nexus[j] = n /\ origin[j] = o)
      \/ k \in KeptSenses /\ nexus[k] = n /\ origin[k] = o /\ k # r
  BY <1>0, <1>2, <1>4 DEF SenseMatches
<1>7. targets \subseteq Requests \ {r} /\ sense_cache \subseteq Requests \ {r}
  BY <1>0 DEF SharedInv, ObjectsInv
<1>8. BornKept
  BY <1>0, <1>3 DEF BornKept, BufferInv, SharedInv, ObjectTypes
<1>9. ObjectTypes'
  <2>1. i \in Objects /\ k \in Objects
    BY <1>4, <1>5, <1>6, <1>7 DEF Objects
  <2> QED BY <1>1, <1>2, <1>3, <2>1 DEF SharedInv, ObjectTypes
<1>10. ObjectsInv'
  <2>1. /\ \A j \in Requests \ {r} : nexus'[j] = nexus[j] /\ origin'[j] = origin[j]
        /\ nexus'[r] = n /\ origin'[r] = o
    BY <1>3 DEF SharedInv, ObjectTypes
  <2>2. targets' \subseteq Requests /\ sense_cache' \subseteq Requests
    BY <1>1, <1>2, <1>4, <1>5, <1>6, <1>7
  <2>3. \A j \in targets' \cup sense_cache' : handle'[j] # "unborn"
    <3>1. \A j \in Requests : handle[j] # "unborn" => handle'[j] # "unborn"
      BY <1>8 DEF BornKept
    <3>2. handle'[r] # "unborn"
      BY <1>3 DEF BufferInv
    <3>3. \A j \in targets \cup sense_cache : j \in Requests /\ handle[j] # "unborn"
      BY DEF SharedInv, ObjectsInv
    <3> QED BY <1>1, <1>2, <1>4, <1>5, <1>6, <3>1, <3>2, <3>3
  <2>4. ASSUME NEW j \in targets', NEW l \in targets', nexus'[j] = nexus'[l] PROVE j = l
    <3>1. \A x, y \in targets : nexus[x] = nexus[y] => x = y
      BY DEF SharedInv, ObjectsInv
    <3> QED BY <1>1, <1>4, <1>5, <1>7, <2>1, <2>4, <3>1
  <2>5. ASSUME NEW j \in sense_cache', NEW l \in sense_cache',
               nexus'[j] = nexus'[l], origin'[j] = origin'[l]
        PROVE  j = l
    <3>1. \A x, y \in sense_cache : nexus[x] = nexus[y] /\ origin[x] = origin[y] => x = y
      BY DEF SharedInv, ObjectsInv
    <3> QED BY <1>2, <1>4, <1>6, <1>7, <2>1, <2>5, <3>1
  <2>6. ASSUME NEW q \in Requests, Alive(q)'
        PROVE  /\ target_state'[q] \in targets' /\ nexus'[target_state'[q]] = nexus'[q]
               /\ cached_sense'[q] \in sense_cache' /\ nexus'[cached_sense'[q]] = nexus'[q]
               /\ origin'[cached_sense'[q]] = origin'[q]
    <3>1. CASE q = r
      <4>1. target_state'[q] = i /\ cached_sense'[q] = k
        BY <1>1, <1>2, <3>1 DEF SharedInv, ObjectTypes
      <4> QED BY <1>1, <1>2, <1>4, <1>5, <1>6, <1>7, <2>1, <3>1, <4>1
    <3>2. CASE q # r
      <4>1. Alive(q)
        BY <1>3, <2>6, <3>2 DEF Alive, BufferInv, IInv, QTypeOK
      <4>2. target_state'[q] = target_state[q] /\ cached_sense'[q] = cached_sense[q]
        BY <1>1, <1>2, <3>2 DEF SharedInv, ObjectTypes
      <4>3. target_state[q] \in KeptTargets /\ cached_sense[q] \in KeptSenses
        BY <1>4, <4>1
      <4>4. /\ nexus[target_state[q]] = nexus[q] /\ nexus[cached_sense[q]] = nexus[q]
            /\ origin[cached_sense[q]] = origin[q]
        BY <4>1 DEF SharedInv, ObjectsInv
      <4> QED BY <1>1, <1>2, <1>4, <1>7, <2>1, <3>2, <4>2, <4>3, <4>4
    <3> QED BY <3>1, <3>2
  <2> QED BY <2>2, <2>3, <2>4, <2>5, <2>6 DEF ObjectsInv
<1>11. TaggingInv'
  <2> SUFFICES ASSUME NEW q \in Requests, state'[q] = "Active"
               PROVE  /\ state[q] = "Active" /\ nexus'[q] = nexus[q]
                      /\ target_state'[q] = target_state[q]
                      /\ tagged'[target_state[q]] = tagged[target_state[q]]
    BY <1>3, TaggingKept DEF SharedInv
  <2>1. q # r /\ state[q] = "Active"
    BY <1>3 DEF IInv, QTypeOK
  <2>2. target_state[q] \in Requests \ {r}
    BY <1>7, <2>1, ActiveIsAlive DEF SharedInv, ObjectsInv
  <2> QED BY <1>1, <1>3, <2>1, <2>2 DEF SharedInv, ObjectTypes
<1>12. SenseInv'
  BY <1>2, <1>3, <1>4, <1>8, SenseKept DEF SharedInv
<1> QED BY <1>9, <1>10, <1>11, <1>12 DEF SharedInv

\* A submission that fails leaves at most objects nobody refers to, one per nexus.
LEMMA SubmitFailsObjects ==
    ASSUME IInv, BufferInv, SharedInv, FinalKept,
           NEW r \in Requests, NEW n \in Nexuses, NEW o \in Origins,
           NEW p \in FailurePoints, SubmitFails(r, n, o, p)
    PROVE  SharedInv'
<1>0. handle[r] = "unborn" /\ ~Alive(r) /\ r \notin targets /\ r \notin sense_cache
  BY UnbornIsNew DEF SubmitFails, SharedInv
<1> DEFINE newT == TargetMatches(n) = {} /\ p # "target"
           newS == SenseMatches(n, o) = {} /\ p = "dma"
<1>1. /\ targets' = KeptTargets \cup (IF newT THEN {r} ELSE {})
      /\ sense_cache' = KeptSenses \cup (IF newS THEN {r} ELSE {})
      /\ tagged' = [tagged EXCEPT ![r] = FALSE]
      /\ nexus' = [nexus EXCEPT ![r] = n] /\ origin' = [origin EXCEPT ![r] = o]
      /\ handle' = [handle EXCEPT ![r] = "dropped"]
      /\ UNCHANGED <<owned, state, target_state, cached_sense, valid, sense_of, answered,
                     sent_tagged>>
  BY DEF SubmitFails, qvars
<1>2. /\ KeptTargets \subseteq targets /\ KeptSenses \subseteq sense_cache
      /\ \A q \in Requests : Alive(q) =>
            target_state[q] \in KeptTargets /\ cached_sense[q] \in KeptSenses
      /\ \A j \in sense_cache : valid[j] => j \in KeptSenses
  BY PurgeKeeps DEF SharedInv
<1>3. newT => \A j \in KeptTargets : nexus[j] # n
  BY DEF TargetMatches
<1>4. newS => \A j \in KeptSenses : ~(nexus[j] = n /\ origin[j] = o)
  BY DEF SenseMatches
<1> HIDE DEF newT, newS
<1>5. targets \subseteq Requests \ {r} /\ sense_cache \subseteq Requests \ {r}
  BY <1>0 DEF SharedInv, ObjectsInv
<1>6. BornKept
  BY <1>0, <1>1 DEF BornKept, BufferInv, SharedInv, ObjectTypes
<1>7. ObjectTypes'
  BY <1>1 DEF SharedInv, ObjectTypes
<1>8. ObjectsInv'
  <2>1. /\ \A j \in Requests \ {r} : nexus'[j] = nexus[j] /\ origin'[j] = origin[j]
        /\ nexus'[r] = n /\ origin'[r] = o
    BY <1>1 DEF SharedInv, ObjectTypes
  <2>2. targets' \subseteq Requests /\ sense_cache' \subseteq Requests
    BY <1>1, <1>2, <1>5
  <2>3. \A j \in targets' \cup sense_cache' : handle'[j] # "unborn"
    <3>1. \A j \in Requests : handle[j] # "unborn" => handle'[j] # "unborn"
      BY <1>6 DEF BornKept
    <3>2. handle'[r] # "unborn"
      BY <1>1 DEF BufferInv
    <3>3. \A j \in targets \cup sense_cache : j \in Requests /\ handle[j] # "unborn"
      BY DEF SharedInv, ObjectsInv
    <3> QED BY <1>1, <1>2, <3>1, <3>2, <3>3
  <2>4. ASSUME NEW j \in targets', NEW l \in targets', nexus'[j] = nexus'[l] PROVE j = l
    <3>1. \A x, y \in targets : nexus[x] = nexus[y] => x = y
      BY DEF SharedInv, ObjectsInv
    <3> QED BY <1>1, <1>2, <1>3, <1>5, <2>1, <2>4, <3>1
  <2>5. ASSUME NEW j \in sense_cache', NEW l \in sense_cache',
               nexus'[j] = nexus'[l], origin'[j] = origin'[l]
        PROVE  j = l
    <3>1. \A x, y \in sense_cache : nexus[x] = nexus[y] /\ origin[x] = origin[y] => x = y
      BY DEF SharedInv, ObjectsInv
    <3> QED BY <1>1, <1>2, <1>4, <1>5, <2>1, <2>5, <3>1
  <2>6. ASSUME NEW q \in Requests, Alive(q)'
        PROVE  /\ target_state'[q] \in targets' /\ nexus'[target_state'[q]] = nexus'[q]
               /\ cached_sense'[q] \in sense_cache' /\ nexus'[cached_sense'[q]] = nexus'[q]
               /\ origin'[cached_sense'[q]] = origin'[q]
    <3>1. q # r /\ Alive(q)
      BY <1>0, <1>1, <2>6 DEF Alive, BufferInv
    <3>2. target_state[q] \in KeptTargets /\ cached_sense[q] \in KeptSenses
      BY <1>2, <3>1
    <3>3. /\ nexus[target_state[q]] = nexus[q] /\ nexus[cached_sense[q]] = nexus[q]
          /\ origin[cached_sense[q]] = origin[q]
      BY <3>1 DEF SharedInv, ObjectsInv
    <3> QED BY <1>1, <1>2, <1>5, <2>1, <3>1, <3>2, <3>3
  <2> QED BY <2>2, <2>3, <2>4, <2>5, <2>6 DEF ObjectsInv
<1>9. TaggingInv'
  <2> SUFFICES ASSUME NEW q \in Requests, state[q] = "Active"
               PROVE  /\ nexus'[q] = nexus[q]
                      /\ tagged'[target_state[q]] = tagged[target_state[q]]
    BY <1>1, TaggingKept DEF SharedInv
  <2>1. Alive(q) /\ q # r
    BY <1>0, ActiveIsAlive
  <2>2. target_state[q] \in Requests \ {r}
    BY <1>5, <2>1 DEF SharedInv, ObjectsInv
  <2> QED BY <1>1, <2>1, <2>2 DEF SharedInv, ObjectTypes
<1>10. SenseInv'
  BY <1>1, <1>2, <1>6, SenseKept DEF SharedInv
<1> QED BY <1>7, <1>8, <1>9, <1>10 DEF SharedInv

\* An answer changes the state of one request, which becomes completed.
LEMMA AnswerEffect ==
    ASSUME IInv, NEW r \in Requests, NEW st \in Statuses, Answer(r, st)
    PROVE  /\ owned[r] /\ Alive(r) /\ state[r] # "Completed" /\ UNCHANGED owned
           /\ state' = [state EXCEPT ![r] = "Completed"]
           /\ status' = [status EXCEPT ![r] = st]
<1>1. owned[r] /\ state[r] # "Completed" /\ CompleteAll({r}, st, TRUE)
  BY DEF Answer, IsPending
<1> QED BY <1>1 DEF CompleteAll, IInv, QTypeOK, Alive

\* A REQUEST SENSE answered by the cache takes the sense data out of it.
LEMMA AnswerObjects ==
    ASSUME IInv, BufferInv, SharedInv, FinalKept, EnqueuedTyped, AnswerFromCache
    PROVE  SharedInv'
<1> DEFINE e == enqueued
           c == cached_sense[e]
<1>1. e \in Requests /\ valid[c] /\ Answer(e, "Success")
  BY DEF AnswerFromCache, EnqueuedTyped, Objects
<1>2. /\ answered' = [answered EXCEPT ![e] = sense_of[c]]
      /\ valid' = [valid EXCEPT ![c] = FALSE]
      /\ UNCHANGED <<handle, nexus, origin, targetVars, sense_cache, sense_of, cached_sense,
                     sent_tagged>>
  BY DEF AnswerFromCache, addrVars
<1>3. /\ owned[e] /\ Alive(e) /\ UNCHANGED owned
      /\ state' = [state EXCEPT ![e] = "Completed"]
  BY <1>1, AnswerEffect DEF Statuses
<1>4. c \in Requests /\ c \in sense_cache /\ nexus[c] = nexus[e] /\ origin[c] = origin[e]
  BY <1>1, <1>3 DEF SharedInv, ObjectsInv
<1> HIDE DEF e, c
<1>5. BornKept
  BY <1>2 DEF BornKept
<1>6. FailedOf(sense_of[c], c) /\ sense_of[c] \in Requests
  BY <1>1, <1>4 DEF SharedInv, SenseInv, FailedOf
<1>7. ObjectTypes'
  BY <1>2, <1>6 DEF SharedInv, ObjectTypes, targetVars, Objects
<1>8. ObjectsInv'
  <2>1. \A r \in Requests : Alive(r)' => Alive(r)
    BY <1>2, <1>3 DEF Alive
  <2> QED BY <1>2, <1>5, <2>1, ObjectsKept, AliveIsBorn DEF SharedInv, targetVars
<1>9. TaggingInv'
  <2>1. \A r \in Requests : state'[r] = "Active" => state[r] = "Active"
    BY <1>3 DEF IInv, QTypeOK
  <2> QED BY <1>2, <2>1, TaggingKept DEF SharedInv, targetVars
<1>10. SenseInv'
  <2>1. ASSUME NEW x, NEW r \in Requests, handle[r] # "unborn", FailedOf(x, r)
        PROVE  FailedNext(x, r)
    BY <1>5, <2>1, FailedKept
  <2>2. \A i \in Requests : valid'[i] => valid[i] /\ i # c
    BY <1>2, <1>4 DEF SharedInv, ObjectTypes
  <2>3. \A r \in Requests : answered'[r] = IF r = e THEN sense_of[c] ELSE answered[r]
    BY <1>2 DEF SharedInv, ObjectTypes
  <2>4. \A r \in Requests : answered[r] # sense_of[c]
    BY <1>1, <1>4 DEF SharedInv, SenseInv
  <2>5. ASSUME NEW i \in Requests, valid'[i]
        PROVE  /\ i \in sense_cache' /\ FailedNext(sense_of'[i], i)
               /\ \A j \in Requests : valid'[j] /\ sense_of'[j] = sense_of'[i] => j = i
               /\ \A r \in Requests : answered'[r] # sense_of'[i]
    <3>1. /\ valid[i] /\ i # c /\ i \in sense_cache /\ handle[i] # "unborn"
          /\ FailedOf(sense_of[i], i)
      BY <2>2, <2>5 DEF SharedInv, SenseInv, ObjectsInv
    <3>2. sense_of[c] # sense_of[i]
      BY <1>1, <1>4, <3>1 DEF SharedInv, SenseInv
    <3>3. /\ \A j \in Requests : valid[j] /\ sense_of[j] = sense_of[i] => j = i
          /\ \A r \in Requests : answered[r] # sense_of[i]
      BY <3>1 DEF SharedInv, SenseInv
    <3>4. FailedNext(sense_of[i], i)
      BY <2>1, <3>1
    <3> QED BY <1>2, <2>2, <2>3, <3>1, <3>2, <3>3, <3>4
  <2>6. ASSUME NEW r \in Requests, answered'[r] # NoObject
        PROVE  /\ handle'[r] # "unborn" /\ FailedNext(answered'[r], r)
               /\ \A s \in Requests : answered'[s] = answered'[r] => s = r
    <3>1. CASE r = e
      <4>1. handle[r] # "unborn" /\ FailedOf(sense_of[c], r)
        BY <1>3, <1>4, <1>6, <3>1, AliveIsBorn DEF FailedOf
      <4>2. FailedNext(sense_of[c], r)
        BY <2>1, <4>1
      <4> QED BY <1>2, <2>3, <2>4, <3>1, <4>1, <4>2
    <3>2. CASE r # e
      <4>1. /\ answered'[r] = answered[r] /\ handle[r] # "unborn" /\ FailedOf(answered[r], r)
            /\ \A s \in Requests : answered[s] = answered[r] => s = r
        BY <2>3, <2>6, <3>2 DEF SharedInv, SenseInv
      <4>2. FailedNext(answered[r], r)
        BY <2>1, <4>1
      <4> QED BY <1>2, <2>3, <2>4, <3>2, <4>1, <4>2
    <3> QED BY <3>1, <3>2
  <2> QED BY <2>5, <2>6 DEF SenseInv, FailedOf, FailedNext
<1> QED BY <1>7, <1>8, <1>9, <1>10 DEF SharedInv

\* Any other command only makes sense data invalid.
LEMMA InvalidateObjects ==
    ASSUME IInv, BufferInv, SharedInv, FinalKept, InvalidateSense
    PROVE  SharedInv'
<1>1. /\ valid' = [valid EXCEPT ![cached_sense[enqueued]] = FALSE]
      /\ UNCHANGED <<handle, owned, state, status, nexus, origin, targetVars, sense_cache,
                     sense_of, cached_sense, answered, sent_tagged>>
  BY DEF InvalidateSense, addrVars, qvars
<1>2. \A i \in Requests : valid'[i] => valid[i]
  BY <1>1 DEF SharedInv, ObjectTypes
<1>3. BornKept
  BY <1>1 DEF BornKept
<1>4. ObjectTypes'
  BY <1>1 DEF SharedInv, ObjectTypes, targetVars
<1>5. ObjectsInv'
  BY <1>1, <1>3, ObjectsKept, AliveIsBorn DEF SharedInv, targetVars, Alive
<1>6. TaggingInv'
  BY <1>1, TaggingKept DEF SharedInv, targetVars
<1>7. SenseInv'
  BY <1>1, <1>2 DEF SharedInv, SenseInv, FailedOf
<1> QED BY <1>4, <1>5, <1>6, <1>7 DEF SharedInv

\* Starting a request: tagged if the logical unit queues commands, and alone if
\* it does not.
LEMMA StartObjects ==
    ASSUME IInv, BufferInv, SharedInv, FinalKept, NEW r \in Requests, StartCommand(r)
    PROVE  SharedInv'
<1>1. /\ state' = [state EXCEPT ![r] = "Active"] /\ owned[r] /\ state[r] = "Queued"
      /\ sent_tagged' = [sent_tagged EXCEPT ![r] = tagged[target_state[r]]]
      /\ UNCHANGED <<owned, status, handle, nexus, origin, targetVars, senseVars>>
  BY DEF StartCommand, StartActive, addrVars
<1>2. Alive(r)
  BY <1>1 DEF Alive
<1>3. BornKept
  BY <1>1 DEF BornKept
<1>4. target_state[r] \in Requests /\ nexus[target_state[r]] = nexus[r]
  BY <1>2 DEF SharedInv, ObjectsInv
<1>5. ObjectTypes'
  BY <1>1, <1>4 DEF SharedInv, ObjectTypes, targetVars, senseVars
<1>6. ObjectsInv'
  BY <1>1, <1>3, ObjectsKept, AliveIsBorn DEF SharedInv, targetVars, senseVars, Alive
<1>7. SenseInv'
  BY <1>1, <1>3, SenseKept DEF SharedInv, senseVars
<1>8. TaggingInv'
  <2>1. \A q \in Requests \ {r} :
           /\ state'[q] = state[q] /\ sent_tagged'[q] = sent_tagged[q]
           /\ nexus'[q] = nexus[q] /\ target_state'[q] = target_state[q]
    BY <1>1 DEF SharedInv, ObjectTypes, IInv, QTypeOK, targetVars
  <2>2. sent_tagged'[r] = tagged[target_state[r]] /\ target_state'[r] = target_state[r]
        /\ tagged' = tagged /\ nexus'[r] = nexus[r]
    BY <1>1 DEF SharedInv, ObjectTypes, targetVars
  <2>3. ASSUME NEW q \in Requests \ {r}, state[q] = "Active", nexus[q] = nexus[r]
        PROVE  sent_tagged[q] /\ tagged[target_state[r]]
    <3>1. Alive(q) /\ owned[q]
      BY <2>3, ActiveIsAlive
    <3>2. target_state[q] = target_state[r]
      BY <1>2, <1>4, <2>3, <3>1 DEF SharedInv, ObjectsInv
    <3>3. tagged[target_state[r]]
      BY <2>3, <3>1, <3>2 DEF StartCommand, CanStart, Queue
    <3> QED BY <2>3, <3>2, <3>3 DEF SharedInv, TaggingInv
  <2>4. \A p, q \in Requests : p # q /\ state[p] = "Active" /\ state[q] = "Active"
                                 /\ nexus[p] = nexus[q] => sent_tagged[p] /\ sent_tagged[q]
    BY DEF SharedInv, TaggingInv, UntaggedExclusive
  <2>5. UntaggedExclusive'
    BY <2>1, <2>2, <2>3, <2>4 DEF UntaggedExclusive
  <2>6. \A q \in Requests : state'[q] = "Active" /\ tagged'[target_state'[q]] => sent_tagged'[q]
    BY <2>1, <2>2 DEF SharedInv, TaggingInv
  <2> QED BY <2>5, <2>6 DEF TaggingInv
<1> QED BY <1>5, <1>6, <1>7, <1>8 DEF SharedInv

\* An answer: sense data of a command nobody else's buffer holds, and tagging that
\* changes only when the answered command is alone or everything out is tagged.
LEMMA CompleteObjects ==
    ASSUME IInv, BufferInv, SharedInv, FinalKept,
           NEW r \in Requests, NEW out \in Outcomes, state[r] = "Active",
           CompleteCommand(r, out)
    PROVE  SharedInv'
<1> DEFINE c == cached_sense[r]
           st == IF out \in {"error", "sense"} THEN "Failed" ELSE "Success"
<1>1. st \in Statuses /\ Answer(r, st)
  BY DEF CompleteCommand, Statuses
<1>2. /\ owned[r] /\ Alive(r) /\ UNCHANGED owned
      /\ state' = [state EXCEPT ![r] = "Completed"] /\ status' = [status EXCEPT ![r] = st]
  BY <1>1, AnswerEffect
<1>3. /\ valid' = IF out = "sense" THEN [valid EXCEPT ![c] = TRUE] ELSE valid
      /\ sense_of' = IF out = "sense" THEN [sense_of EXCEPT ![c] = r] ELSE sense_of
      /\ tagged' = IF out \in {"queueing", "nonqueueing"}
                   THEN [tagged EXCEPT ![target_state[r]] = (out = "queueing")] ELSE tagged
      /\ UNCHANGED <<handle, nexus, origin, targets, target_state, sense_cache, cached_sense,
                     answered, sent_tagged>>
  BY DEF CompleteCommand, addrVars
<1>4. /\ c \in Requests /\ c \in sense_cache /\ nexus[c] = nexus[r] /\ origin[c] = origin[r]
      /\ target_state[r] \in Requests /\ nexus[target_state[r]] = nexus[r]
      /\ handle[r] # "unborn" /\ handle[c] # "unborn"
  BY <1>2, AliveIsBorn DEF SharedInv, ObjectsInv
<1>5. out = "sense" => st = "Failed"
  OBVIOUS
<1> HIDE DEF c, st
<1>6. BornKept
  BY <1>3 DEF BornKept
<1>7. ObjectTypes'
  <2>1. tagged' \in [Requests -> BOOLEAN] /\ valid' \in [Requests -> BOOLEAN]
    BY <1>3, <1>4 DEF SharedInv, ObjectTypes
  <2>2. sense_of' \in [Requests -> Objects]
    BY <1>3, <1>4 DEF SharedInv, ObjectTypes, Objects
  <2> QED BY <1>3, <2>1, <2>2 DEF SharedInv, ObjectTypes
<1>8. ObjectsInv'
  BY <1>2, <1>3, <1>6, ObjectsKept, AliveIsBorn DEF SharedInv, Alive
<1>9. TaggingInv'
  <2>1. \A q \in Requests : state'[q] = "Active" => state[q] = "Active" /\ q # r
    BY <1>2 DEF IInv, QTypeOK
  <2>2. UntaggedExclusive'
    BY <1>3, <2>1 DEF SharedInv, TaggingInv, UntaggedExclusive
  <2>3. ASSUME NEW q \in Requests, state'[q] = "Active", tagged'[target_state[q]]
        PROVE  sent_tagged[q]
    <3>1. state[q] = "Active" /\ q # r /\ Alive(q)
      BY <2>1, <2>3, ActiveIsAlive
    <3>2. CASE tagged[target_state[q]]
      BY <3>1, <3>2 DEF SharedInv, TaggingInv
    <3>3. CASE ~tagged[target_state[q]]
      <4>1. target_state[q] \in Requests /\ nexus[target_state[q]] = nexus[q]
        BY <3>1 DEF SharedInv, ObjectsInv
      <4>2. target_state[q] = target_state[r]
        BY <1>3, <1>4, <2>3, <3>3, <4>1 DEF SharedInv, ObjectTypes
      <4>3. nexus[q] = nexus[r]
        BY <1>4, <4>1, <4>2
      <4> QED BY <3>1, <4>3 DEF SharedInv, TaggingInv, UntaggedExclusive
    <3> QED BY <3>2, <3>3
  <2> QED BY <1>3, <2>2, <2>3 DEF TaggingInv
<1>10. SenseInv'
  <2>1. CASE out # "sense"
    BY <1>3, <1>6, <2>1, SenseKept DEF SharedInv
  <2>2. CASE out = "sense"
    <3>1. ASSUME NEW x, NEW q \in Requests, handle[q] # "unborn", FailedOf(x, q)
          PROVE  FailedNext(x, q)
      BY <1>6, <3>1, FailedKept
    <3>2. /\ \A i \in Requests \ {c} : valid'[i] = valid[i] /\ sense_of'[i] = sense_of[i]
          /\ sense_of'[c] = r
      BY <1>3, <1>4, <2>2 DEF SharedInv, ObjectTypes
    <3>3. FailedNext(r, c)
      BY <1>2, <1>3, <1>4, <1>5, <2>2 DEF FailedNext, IInv, QTypeOK
    <3>4. \A i \in Requests : valid[i] => sense_of[i] # r
      BY DEF SharedInv, SenseInv, FailedOf
    <3>5. \A q \in Requests : answered[q] # r
      BY ScsiAssumption DEF SharedInv, SenseInv, FailedOf
    <3>6. ASSUME NEW i \in Requests, valid'[i]
          PROVE  /\ i \in sense_cache' /\ FailedNext(sense_of'[i], i)
                 /\ \A j \in Requests : valid'[j] /\ sense_of'[j] = sense_of'[i] => j = i
                 /\ \A q \in Requests : answered'[q] # sense_of'[i]
      <4>1. CASE i = c
        <5>1. \A j \in Requests : valid'[j] /\ sense_of'[j] = sense_of'[i] => j = i
          BY <3>2, <3>4, <4>1
        <5> QED BY <1>3, <1>4, <3>2, <3>3, <3>5, <4>1, <5>1
      <4>2. CASE i # c
        <5>1. /\ valid[i] /\ i \in sense_cache /\ handle[i] # "unborn"
              /\ FailedOf(sense_of[i], i)
              /\ \A j \in Requests : valid[j] /\ sense_of[j] = sense_of[i] => j = i
              /\ \A q \in Requests : answered[q] # sense_of[i]
          BY <3>2, <3>6, <4>2 DEF SharedInv, SenseInv, ObjectsInv
        <5>2. FailedNext(sense_of[i], i)
          BY <3>1, <5>1
        <5>3. \A j \in Requests : valid'[j] /\ sense_of'[j] = sense_of'[i] => j = i
          BY <3>2, <3>4, <4>2, <5>1
        <5> QED BY <1>3, <3>2, <4>2, <5>1, <5>2, <5>3
      <4> QED BY <4>1, <4>2
    <3>7. ASSUME NEW q \in Requests, answered'[q] # NoObject
          PROVE  /\ handle'[q] # "unborn" /\ FailedNext(answered'[q], q)
                 /\ \A s \in Requests : answered'[s] = answered'[q] => s = q
      <4>1. /\ handle[q] # "unborn" /\ FailedOf(answered[q], q)
            /\ \A s \in Requests : answered[s] = answered[q] => s = q
        BY <1>3, <3>7 DEF SharedInv, SenseInv
      <4>2. FailedNext(answered[q], q)
        BY <3>1, <4>1
      <4> QED BY <1>3, <4>1, <4>2
    <3> QED BY <3>6, <3>7 DEF SenseInv, FailedOf, FailedNext
  <2> QED BY <2>1, <2>2
<1> QED BY <1>7, <1>8, <1>9, <1>10 DEF SharedInv

\* Every step keeps the invariant of the shared objects.
LEMMA SharedStep ==
    ASSUME IInv, BufferInv, EnqueuedTyped, SharedInv, [SNext]_<<qvars, svars>>
    PROVE  SharedInv'
<1>0. FinalKept
  BY StepRefinement, FinalStep DEF FinalKept
<1>1. ASSUME UNCHANGED <<handle, owned, addrVars, targetVars, senseVars, sent_tagged>>,
             \A r \in Requests : state'[r] = "Active" => state[r] = "Active"
      PROVE  SharedInv'
  BY <1>0, <1>1, QuietStep DEF addrVars, Alive
<1>2. ASSUME UNCHANGED <<handle, addrVars, targetVars, senseVars, sent_tagged>>,
             \A r \in Requests : owned'[r] => owned[r],
             \A r \in Requests : state'[r] = "Active" => state[r] = "Active"
      PROVE  SharedInv'
  BY <1>0, <1>2, QuietStep DEF addrVars, Alive
<1>3. ASSUME NEW S, NEW st, CompleteAll(S, st, TRUE), UNCHANGED svars PROVE SharedInv'
  BY <1>1, <1>3 DEF CompleteAll, svars
<1>4. CASE UNCHANGED <<qvars, svars>>
  BY <1>1, <1>4 DEF qvars, svars
<1>5. ASSUME NEW r \in Requests, DropHandle(r) PROVE SharedInv'
  <2>1. /\ handle' = [handle EXCEPT ![r] = "dropped"]
        /\ UNCHANGED <<owned, state, addrVars, targetVars, senseVars, sent_tagged>>
    BY <1>5 DEF DropHandle, qvars
  <2> QED BY <1>0, <2>1, QuietStep DEF BufferInv, Alive, addrVars
<1>6. PruneQueue => SharedInv'
  BY <1>2 DEF PruneQueue, Prune
<1>7. ASSUME NEW q \in BOOLEAN, FailQueue(q) PROVE SharedInv'
  BY <1>2, <1>7 DEF FailQueue, FailAll, FailedState
<1>8. ASSUME NEW r \in Requests, StartCommandExpired(r) PROVE SharedInv'
  BY <1>3, <1>8 DEF StartCommandExpired, StartExpired
<1>9. ExpireQueued /\ UNCHANGED svars => SharedInv'
  BY <1>3 DEF ExpireQueued
<1>10. ASSUME NEW r \in Requests, HardwareDone(r), UNCHANGED svars PROVE SharedInv'
  BY <1>1, <1>10 DEF HardwareDone, svars
<1>11. HardwareStop /\ UNCHANGED svars => SharedInv'
  BY <1>1 DEF HardwareStop, svars
<1>12. Tick /\ UNCHANGED svars => SharedInv'
  BY <1>1 DEF Tick, svars
<1>13. AnswerFromCache \/ InvalidateSense => SharedInv'
  BY <1>0, AnswerObjects, InvalidateObjects
<1>14. ASSUME NEW r \in Requests, NEW n \in Nexuses, NEW op \in Opcodes,
              NEW t \in TimeoutArgs, NEW o \in Origins, Submit(r, n, op, t, o)
       PROVE  SharedInv'
  BY <1>0, <1>14, SubmitObjects
<1>15. ASSUME NEW r \in Requests, NEW n \in Nexuses, NEW o \in Origins,
              NEW p \in FailurePoints, SubmitFails(r, n, o, p)
       PROVE  SharedInv'
  BY <1>0, <1>15, SubmitFailsObjects
<1>16. ASSUME NEW r \in Requests, StartCommand(r) PROVE SharedInv'
  BY <1>0, <1>16, StartObjects
<1>17. ASSUME NEW r \in Requests, NEW out \in Outcomes, state[r] = "Active",
              CompleteCommand(r, out)
       PROVE  SharedInv'
  BY <1>0, <1>17, CompleteObjects
<1> QED
  BY <1>4, <1>5, <1>6, <1>7, <1>8, <1>9, <1>10, <1>11, <1>12, <1>13, <1>14, <1>15, <1>16,
     <1>17, StepCases

\* The shared objects in every reachable state.
LEMMA SharedInvariance == SSpec => []SharedInv
<1>1. SInit => SharedInv /\ EnqueuedTyped
  <2> SUFFICES ASSUME SInit PROVE SharedInv /\ EnqueuedTyped
    OBVIOUS
  <2>1. ObjectTypes
    BY ScsiAssumption DEF SInit, ObjectTypes, Objects
  <2>2. ObjectsInv
    BY DEF SInit, QInit, ObjectsInv, Alive
  <2>3. TaggingInv /\ SenseInv /\ EnqueuedTyped
    BY DEF SInit, QInit, TaggingInv, UntaggedExclusive, SenseInv, EnqueuedTyped, Objects
  <2> QED BY <2>1, <2>2, <2>3 DEF SharedInv
<1>2. /\ IInv /\ BufferInv /\ EnqueuedTyped /\ SharedInv /\ [SNext]_<<qvars, svars>>
         => SharedInv'
      /\ EnqueuedTyped /\ [SNext]_<<qvars, svars>> => EnqueuedTyped'
  BY SharedStep, EnqueuedStep
<1> QED BY <1>1, <1>2, BufferInvariance, PTL DEF SSpec

-----------------------------------------------------------------------------
(* What it implies                                                         *)

\* Comparing the pointers of two live requests is comparing their nexuses, and
\* their clients for the sense buffer: the purge never splits a nexus in two.
THEOREM NexusesNotSplit == SSpec => []OneObjectPerNexus
<1>1. SharedInv => OneObjectPerNexus
  BY DEF SharedInv, ObjectsInv, OneObjectPerNexus
<1> QED BY <1>1, SharedInvariance, PTL

\* An untagged command is alone on its logical unit.
THEOREM UntaggedIsAlone == SSpec => []UntaggedExclusive
  BY SharedInvariance, PTL DEF SharedInv, TaggingInv

\* Sense data answers at most one REQUEST SENSE, of the client whose command failed.
THEOREM SenseIsReportedOnce == SSpec => []SenseReportedOnce
<1>1. SharedInv => SenseReportedOnce
  BY DEF SharedInv, SenseInv, FailedOf, SenseReportedOnce
<1> QED BY <1>1, SharedInvariance, PTL

-----------------------------------------------------------------------------
(* Facts about single steps that the adapters' proofs use                  *)

\* The request whose submission is in Enqueue has not been started.
EnqueuedWaits == enqueued # NoObject => state[enqueued] = "Queued"

\* The step starts and ends no command.
SameActive == \A r \in Requests : state'[r] = "Active" <=> state[r] = "Active"

\* The request in Enqueue stays out of the hands of the driver until Enqueue is done.
LEMMA EnqueuedWaitsStep ==
    ASSUME IInv, EnqueuedTyped, EnqueuedWaits, [SNext]_<<qvars, svars>>
    PROVE  EnqueuedWaits'
<1>1. ASSUME enqueued # NoObject, UNCHANGED <<state, enqueued>> PROVE EnqueuedWaits'
  BY <1>1 DEF EnqueuedWaits
<1>2. ASSUME NEW r \in Requests, NEW n \in Nexuses, NEW op \in Opcodes,
             NEW t \in TimeoutArgs, NEW o \in Origins, Submit(r, n, op, t, o)
      PROVE  EnqueuedWaits'
  BY <1>2 DEF Submit, Enqueue, EnqueuedWaits, IInv, QTypeOK
<1>3. CASE UNCHANGED <<qvars, svars>>
  BY <1>3 DEF qvars, svars, EnqueuedWaits
<1>4. CASE enqueued # NoObject
  <2>1. CASE AnswerFromCache \/ InvalidateSense
    BY <2>1 DEF AnswerFromCache, InvalidateSense, EnqueuedWaits
  <2>2. CASE HardwareStep \/ (Tick /\ UNCHANGED svars)
    BY <1>1, <1>4, <2>2 DEF HardwareStep, HardwareDone, HardwareStop, Tick, svars
  <2>3. CASE \E r \in Requests : DropHandle(r)
    BY <1>1, <1>4, <2>3 DEF DropHandle, qvars
  <2>4. HostStep => AnswerFromCache \/ InvalidateSense
    BY <1>4 DEF HostStep, Submit, SubmitFails
  <2> QED BY <1>3, <2>1, <2>2, <2>3, <2>4 DEF SNext
<1>5. CASE enqueued = NoObject
  <2>1. ASSUME enqueued' # NoObject, SNext
        PROVE  \E r \in Requests, n \in Nexuses, op \in Opcodes, t \in TimeoutArgs,
                  o \in Origins : Submit(r, n, op, t, o)
    <3> DEFINE P == \E r \in Requests, n \in Nexuses, op \in Opcodes, t \in TimeoutArgs,
                       o \in Origins : Submit(r, n, op, t, o)
    <3>1. UNCHANGED enqueued => P
      BY <1>5, <2>1
    <3>2. AnswerFromCache \/ InvalidateSense => P
      BY <2>1 DEF AnswerFromCache, InvalidateSense
    <3>3. ASSUME NEW r \in Requests, StartCommand(r) \/ StartCommandExpired(r) PROVE P
      BY <3>1, <3>3 DEF StartCommand, StartCommandExpired, svars
    <3>4. ASSUME NEW r \in Requests, NEW out \in Outcomes, CompleteCommand(r, out) PROVE P
      BY <3>1, <3>4 DEF CompleteCommand
    <3>5. UNCHANGED svars => P
      BY <3>1 DEF svars
    <3>6. PruneQueue \/ FailQueue(TRUE) \/ FailQueue(FALSE) => P
      BY <3>1 DEF PruneQueue, FailQueue
    <3>7. ASSUME NEW r \in Requests, DropHandle(r) PROVE P
      BY <3>1, <3>7 DEF DropHandle
    <3>8. ASSUME NEW r \in Requests, NEW n \in Nexuses, NEW o \in Origins,
                 NEW p \in FailurePoints, SubmitFails(r, n, o, p)
          PROVE  P
      BY <3>1, <3>8 DEF SubmitFails
    <3>9. ASSUME NEW r \in Requests, NEW n \in Nexuses, NEW op \in Opcodes,
                 NEW t \in TimeoutArgs, NEW o \in Origins, Submit(r, n, op, t, o)
          PROVE  P
      BY <3>9
    <3> HIDE DEF P
    <3>10. P
      BY <2>1, <3>2, <3>3, <3>4, <3>5, <3>6, <3>7, <3>8, <3>9, StepCases
    <3> QED BY <3>10 DEF P
  <2> QED BY <1>2, <1>3, <2>1 DEF EnqueuedWaits
<1> QED BY <1>4, <1>5

\* The SCSI queue's invariants together.
LEMMA QueueInvariance == SSpec => [](IInv /\ BufferInv /\ EnqueuedTyped /\ EnqueuedWaits)
<1>1. SInit => EnqueuedTyped /\ EnqueuedWaits
  BY DEF SInit, EnqueuedTyped, EnqueuedWaits, Objects
<1>2. /\ EnqueuedTyped /\ [SNext]_<<qvars, svars>> => EnqueuedTyped'
      /\ IInv /\ EnqueuedTyped /\ EnqueuedWaits /\ [SNext]_<<qvars, svars>> => EnqueuedWaits'
  BY EnqueuedStep, EnqueuedWaitsStep
<1> QED BY <1>1, <1>2, BufferInvariance, PTL DEF SSpec

\* The end of a submission, expiry and pruning leave the started commands alone.
LEMMA EnqueueKeepsActive ==
    ASSUME IInv, EnqueuedTyped, EnqueuedWaits, AnswerFromCache \/ InvalidateSense
    PROVE  SameActive /\ UNCHANGED device
<1>1. CASE InvalidateSense
  BY <1>1 DEF InvalidateSense, qvars, SameActive
<1>2. CASE AnswerFromCache
  <2>1. enqueued \in Requests /\ state[enqueued] = "Queued" /\ Answer(enqueued, "Success")
    BY <1>2 DEF AnswerFromCache, EnqueuedTyped, EnqueuedWaits, Objects
  <2>2. state' = [state EXCEPT ![enqueued] = "Completed"]
    BY <2>1, AnswerEffect DEF Statuses
  <2>3. UNCHANGED device
    BY <2>1 DEF Answer, CompleteAll
  <2> QED BY <2>1, <2>2, <2>3 DEF SameActive, IInv, QTypeOK
<1> QED BY <1>1, <1>2

\* An expiry of the queue starts and ends no command of the device.
LEMMA ExpiryKeepsActive ==
    ASSUME IInv, ExpireQueued \/ \E r \in Requests : StartExpired(r)
    PROVE  SameActive /\ UNCHANGED device
  BY DEF ExpireQueued, StartExpired, CompleteAll, SameActive, IInv, QTypeOK

\* A submission starts no command, and its request is new.
LEMMA SubmitKeepsActive ==
    ASSUME IInv, NEW r \in Requests, NEW n \in Nexuses, NEW op \in Opcodes,
           NEW t \in TimeoutArgs, NEW o \in Origins, Submit(r, n, op, t, o)
    PROVE  SameActive /\ UNCHANGED device /\ state[r] = "Created"
  BY DEF Submit, Enqueue, Acceptable, SameActive, IInv, QTypeOK

\* After FailAll nothing is started.
LEMMA FailAllEndsActive ==
    ASSUME IInv, NEW q \in BOOLEAN, FailQueue(q)
    PROVE  UNCHANGED device /\ \A r \in Requests : state'[r] # "Active"
<1>1. state' = FailedState /\ UNCHANGED device
  BY DEF FailQueue, FailAll
<1>2. \A r \in Requests : state[r] = "Active" => owned[r]
  BY ActiveIsAlive
<1> QED BY <1>1, <1>2 DEF FailedState

\* After FailAll no request is pending, and what is left in the queue is pinned.
LEMMA FailAllFinishes ==
    ASSUME IInv, NEW q \in BOOLEAN, FailQueue(q)
    PROVE  \A r \in Requests : /\ owned'[r] => state'[r] = "Completed" /\ pinned'[r]
                               /\ state'[r] \notin {"Queued", "Active"}
<1>1. /\ state' = FailedState /\ pinned' = FailedPinned(q)
      /\ owned' = [r \in Requests |->
                     owned[r] /\ r \notin Prunable(FailedState, FailedPinned(q))]
  BY DEF FailQueue, FailAll
<1>2. \A r \in Requests : state[r] \in {"Queued", "Active"} => owned[r]
  BY DEF IInv, PinsAndOwnership, IsPending
<1> SUFFICES ASSUME NEW r \in Requests
             PROVE  /\ owned'[r] => state'[r] = "Completed" /\ pinned'[r]
                    /\ state'[r] \notin {"Queued", "Active"}
  OBVIOUS
<1>3. state'[r] \notin {"Queued", "Active"}
  BY <1>1, <1>2 DEF FailedState
<1>4. ASSUME owned'[r] PROVE state'[r] = "Completed" /\ pinned'[r]
  <2>1. owned[r] /\ r \notin Prunable(FailedState, FailedPinned(q))
    BY <1>1, <1>4
  <2>2. FailedState[r] = "Completed"
    BY <2>1 DEF FailedState
  <2>3. FailedPinned(q)[r]
    BY <2>1, <2>2 DEF Prunable, Queue
  <2> QED BY <1>1, <2>2, <2>3
<1> QED BY <1>3, <1>4

=============================================================================
