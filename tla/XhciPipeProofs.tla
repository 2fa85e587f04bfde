---------------------------- MODULE XhciPipeProofs ----------------------------
(***************************************************************************)
(* XhciBulk implements BulkPipe: whatever late events and failures occur,  *)
(* and whatever the class driver does, a step of the driver or the         *)
(* controller is a step of the interface or is not seen through it, for    *)
(* every ring size, number of endpoints and length of a transfer.          *)
(*                                                                         *)
(* The invariant of XhciBulkProofs says nothing of an endpoint a recovery  *)
(* of which failed, but the class driver goes on using it.  PipeInv is     *)
(* what is left to rely on: how transfer, phase, command and events belong *)
(* together, with stale TRBs in the ring or not.                           *)
(***************************************************************************)
EXTENDS XhciBulkProofs, FiniteSetTheorems, WellFoundedInduction

-----------------------------------------------------------------------------
(* Control requests: counting places                                       *)

\* How many members of a set are at most k.
Count(S, k) == Cardinality({j \in S : j <= k})

\* A set of naturals that is not empty has a least element.
LEMMA LeastNatural ==
    ASSUME NEW S \in SUBSET Nat, S # {}
    PROVE  \E m \in S : \A n \in S : m <= n
  <1> DEFINE R == OpToRel(<, Nat)
  <1>1. IsWellFoundedOn(R, Nat)
    BY NatLessThanWellFounded
  <1>2. ASSUME NEW x \in Nat, NEW y \in Nat, x < y PROVE <<x, y>> \in R
    BY <1>2 DEF OpToRel
  <1> HIDE DEF R
  <1>3. PICK m \in S : \A n \in S : ~(<<n, m>> \in R)
    BY <1>1, WFMin
  <1>4. m \in Nat /\ \A n \in S : n \in Nat /\ ~(n < m)
    BY <1>2, <1>3
  <1> QED BY <1>4

\* A count is at most the number of all members.
LEMMA CountTyped ==
    ASSUME NEW S \in SUBSET Nat, IsFiniteSet(S), NEW k \in Nat
    PROVE  IsFiniteSet({j \in S : j <= k}) /\ Count(S, k) \in 0 .. Cardinality(S)
  <1>1. {j \in S : j <= k} \in SUBSET S
    OBVIOUS
  <1>2. IsFiniteSet({j \in S : j <= k}) /\ Cardinality({j \in S : j <= k}) <= Cardinality(S)
    BY <1>1, FS_Subset
  <1>3. Cardinality({j \in S : j <= k}) \in Nat /\ Cardinality(S) \in Nat
    BY <1>2, FS_CardinalityType
  <1> QED BY <1>2, <1>3 DEF Count

\* Every number adds itself, if it is a member.
LEMMA CountStep ==
    ASSUME NEW S \in SUBSET Nat, IsFiniteSet(S), NEW k \in Nat
    PROVE  Count(S, k + 1) = IF k + 1 \in S THEN Count(S, k) + 1 ELSE Count(S, k)
  <1> DEFINE A == {j \in S : j <= k}
             B == {j \in S : j <= k + 1}
  <1>1. IsFiniteSet(A) /\ k + 1 \notin A
    BY CountTyped
  <1>2. \A j \in S : (j <= k + 1) <=> (j <= k \/ j = k + 1)
    OBVIOUS
  <1>3. CASE k + 1 \in S
    <2>1. B = A \cup {k + 1}
      BY <1>2, <1>3, Zenon
    <2>2. Cardinality(A \cup {k + 1}) = Cardinality(A) + 1
      BY <1>1, FS_AddElement
    <2> QED BY <1>3, <2>1, <2>2 DEF Count
  <1>4. CASE k + 1 \notin S
    <2>1. B = A
      BY <1>2, <1>4, Zenon
    <2> QED BY <1>4, <2>1 DEF Count
  <1> QED BY <1>3, <1>4

\* A member counts itself.
LEMMA CountGrows ==
    ASSUME NEW S \in SUBSET Nat, IsFiniteSet(S), NEW k \in Nat, NEW l \in S, k < l
    PROVE  Count(S, k) < Count(S, l)
  <1> DEFINE A == {j \in S : j <= k}
             B == {j \in S : j <= l}
  <1>1. l \in Nat /\ IsFiniteSet(A) /\ IsFiniteSet(B)
    BY CountTyped
  <1>2. A \in SUBSET B /\ l \in B /\ l \notin A
    <2>1. l <= l /\ ~(l <= k) /\ \A j \in S : j <= k => j <= l
      BY <1>1
    <2> QED BY <2>1, Zenon
  <1>3. Cardinality(A) <= Cardinality(B) /\ Cardinality(B) # Cardinality(A)
    BY <1>1, <1>2, FS_Subset
  <1>4. Cardinality(A) \in Nat /\ Cardinality(B) \in Nat
    BY <1>1, FS_CardinalityType
  <1> HIDE DEF A, B
  <1>5. Cardinality(A) < Cardinality(B)
    BY <1>3, <1>4
  <1> QED BY <1>5 DEF Count, A, B

\* The i-th member is the one with count i.
LEMMA NthIs ==
    ASSUME NEW S \in SUBSET Nat, IsFiniteSet(S), NEW k \in S
    PROVE  Nth(S, Count(S, k)) = k
  <1> DEFINE l == Nth(S, Count(S, k))
  <1>1. l \in S /\ Count(S, l) = Count(S, k)
    BY DEF Nth, Count
  <1> HIDE DEF l
  <1>2. l \in Nat /\ k \in Nat /\ Count(S, l) \in Nat /\ Count(S, k) \in Nat
    <2>1. l \in Nat /\ k \in Nat
      BY <1>1
    <2>2. Count(S, l) \in 0 .. Cardinality(S) /\ Count(S, k) \in 0 .. Cardinality(S)
      BY <2>1, CountTyped
    <2>3. Cardinality(S) \in Nat
      BY FS_CardinalityType
    <2> QED BY <2>1, <2>2, <2>3
  <1>3. ~(k < l)
    BY <1>1, <1>2, CountGrows
  <1>4. ~(l < k)
    BY <1>1, <1>2, CountGrows
  <1>5. l = k
    BY <1>2, <1>3, <1>4
  <1> QED BY <1>5 DEF l

\* There is an i-th member: the first number with count i.
LEMMA NthExists ==
    ASSUME NEW n \in Nat, NEW S \in SUBSET (1 .. n), IsFiniteSet(S), NEW i \in 1 .. Cardinality(S)
    PROVE  Nth(S, i) \in S /\ Count(S, Nth(S, i)) = i
  <1> DEFINE T == {m \in Nat : Count(S, m) >= i}
  <1>1. S \in SUBSET Nat /\ Cardinality(S) \in Nat
    BY FS_CardinalityType
  <1>2. n \in T
    <2>1. \A j \in S : j <= n
      OBVIOUS
    <2>2. {j \in S : j <= n} = S
      BY <2>1, Zenon
    <2> QED BY <1>1, <2>2 DEF Count
  <1>3. PICK m \in T : \A x \in T : m <= x
    BY <1>2, LeastNatural
  <1>4. m \in Nat /\ Count(S, m) >= i
    BY <1>3
  <1>5. m # 0
    <2>1. \A j \in S : ~(j <= 0)
      OBVIOUS
    <2>2. {j \in S : j <= 0} = {}
      BY <2>1, Zenon
    <2>3. Count(S, 0) = 0
      BY <2>2, FS_EmptySet DEF Count
    <2> QED BY <1>1, <1>4, <2>3
  <1>6. m - 1 \in Nat /\ m - 1 + 1 = m
    BY <1>4, <1>5
  <1>7. ~(Count(S, m - 1) >= i)
    BY <1>3, <1>4, <1>6
  <1>8. Count(S, m) = IF m \in S THEN Count(S, m - 1) + 1 ELSE Count(S, m - 1)
    BY <1>1, <1>6, CountStep
  <1>9. Count(S, m - 1) \in 0 .. Cardinality(S)
    BY <1>1, <1>6, CountTyped
  <1> HIDE DEF T
  <1>10. m \in S /\ Count(S, m) = i
    BY <1>1, <1>4, <1>7, <1>8, <1>9
  <1> QED BY <1>1, <1>10, NthIs

\* Moving a set down by one moves its counts.
LEMMA CountShift ==
    ASSUME NEW n \in Nat, NEW S \in SUBSET (1 .. n), IsFiniteSet(S)
    PROVE  LET D == {j - 1 : j \in S}
           IN  /\ D \in SUBSET Nat /\ IsFiniteSet(D) /\ Cardinality(D) = Cardinality(S)
               /\ \A k \in Nat : Count(D, k) = Count(S, k + 1)
  <1> DEFINE D(T) == {j - 1 : j \in T}
  <1>1. ASSUME NEW T \in SUBSET S
        PROVE  IsFiniteSet(D(T)) /\ Cardinality(D(T)) = Cardinality(T)
    <2> DEFINE f == [j \in T |-> j - 1]
    <2>1. IsFiniteSet(T)
      BY FS_Subset
    <2>2. f \in [T -> D(T)]
      OBVIOUS
    <2>3. \A a, b \in T : f[a] = f[b] => a = b
      OBVIOUS
    <2>4. \A t \in D(T) : \E a \in T : f[a] = t
      OBVIOUS
    <2> HIDE DEF f
    <2>5. f \in Bijection(T, D(T))
      BY <2>2, <2>3, <2>4 DEF Bijection, Injection, Surjection, IsInjective
    <2>6. ExistsBijection(T, D(T))
      BY <2>5 DEF ExistsBijection
    <2> QED BY <2>1, <2>6, FS_Bijection
  <1>2. ASSUME NEW k \in Nat PROVE Count(D(S), k) = Count(S, k + 1)
    <2>1. {j \in D(S) : j <= k} = D({j \in S : j <= k + 1})
      OBVIOUS
    <2>2. {j \in S : j <= k + 1} \in SUBSET S
      OBVIOUS
    <2>3. Cardinality(D({j \in S : j <= k + 1})) = Cardinality({j \in S : j <= k + 1})
      BY <1>1, <2>2
    <2> QED BY <2>1, <2>3 DEF Count
  <1>3. D(S) \in SUBSET Nat
    OBVIOUS
  <1>4. IsFiniteSet(D(S)) /\ Cardinality(D(S)) = Cardinality(S)
    BY <1>1
  <1> QED BY <1>2, <1>3, <1>4

-----------------------------------------------------------------------------
(* Control requests: what the driver waits for                             *)

\* The places are finitely many.
LEMMA PlacesTyped ==
    ASSUME NEW s \in Seq(EventType)
    PROVE  /\ Places(s) \in SUBSET (1 .. Len(s)) /\ Places(s) \in SUBSET Nat
           /\ IsFiniteSet(Places(s)) /\ Cardinality(Places(s)) \in Nat /\ Len(s) \in Nat
  <1>1. Len(s) \in Nat /\ DOMAIN s = 1 .. Len(s)
    OBVIOUS
  <1>2. Places(s) \in SUBSET (1 .. Len(s)) /\ Places(s) \in SUBSET Nat
    BY <1>1 DEF Places
  <1>3. IsFiniteSet(1 .. Len(s))
    BY <1>1, FS_Interval
  <1>4. IsFiniteSet(Places(s))
    BY <1>2, <1>3, FS_Subset
  <1> QED BY <1>1, <1>2, <1>4, FS_CardinalityType

\* A control event answers a request.
LEMMA ControlEvent ==
    ASSUME NEW ev \in EventType, ev.kind = "control"
    PROVE  ev.req = "ClearHalt" /\ ev.ep \in Endpoints
  BY DEF EventType, Commands

\* The requests that were answered, as a sequence.
LEMMA AskedTyped ==
    ASSUME NEW s \in Seq(EventType)
    PROVE  Asked(s) \in Seq(RequestType) /\ Len(Asked(s)) = Cardinality(Places(s))
  <1> DEFINE N == Cardinality(Places(s))
  <1>1. N \in Nat
    BY PlacesTyped
  <1>2. ASSUME NEW i \in 1 .. N
        PROVE  [req |-> s[Nth(Places(s), i)].req, ep |-> s[Nth(Places(s), i)].ep] \in RequestType
    <2>1. Nth(Places(s), i) \in Places(s)
      BY PlacesTyped, NthExists
    <2>2. s[Nth(Places(s), i)] \in EventType /\ s[Nth(Places(s), i)].kind = "control"
      BY <2>1 DEF Places
    <2> QED BY <2>2, ControlEvent DEF RequestType
  <1> HIDE DEF N
  <1>3. Asked(s) \in [1 .. N -> RequestType]
    BY <1>2 DEF Asked, N
  <1> QED BY <1>1, <1>3 DEF N

\* Posting another event answers no control request.
LEMMA PlacesPost ==
    ASSUME NEW s \in Seq(EventType), NEW ev \in EventType, ev.kind # "control"
    PROVE  Places(Append(s, ev)) = Places(s)
  <1> DEFINE t == Append(s, ev)
  <1>1. /\ DOMAIN s = 1 .. Len(s) /\ DOMAIN t = 1 .. Len(s) + 1 /\ Len(s) \in Nat
        /\ \A k \in 1 .. Len(s) : t[k] = s[k]
        /\ t[Len(s) + 1] = ev
    BY PostedEvents
  <1> HIDE DEF t
  <1>2. Places(t) = Places(s)
    BY <1>1 DEF Places
  <1> QED BY <1>2 DEF t

\* An event of another kind does not matter to the control requests.
LEMMA AskedPost ==
    ASSUME NEW s \in Seq(EventType), NEW ev \in EventType, ev.kind # "control"
    PROVE  Asked(Append(s, ev)) = Asked(s)
  <1> DEFINE t == Append(s, ev)
  <1>1. /\ DOMAIN s = 1 .. Len(s) /\ DOMAIN t = 1 .. Len(s) + 1 /\ Len(s) \in Nat
        /\ \A k \in 1 .. Len(s) : t[k] = s[k]
        /\ t[Len(s) + 1] = ev
    BY PostedEvents
  <1>2. Places(t) = Places(s)
    BY PlacesPost
  <1> HIDE DEF t
  <1>3. ASSUME NEW i \in 1 .. Cardinality(Places(s)) PROVE t[Nth(Places(s), i)] = s[Nth(Places(s), i)]
    <2>1. Nth(Places(s), i) \in 1 .. Len(s)
      BY PlacesTyped, NthExists
    <2> QED BY <1>1, <2>1
  <1>4. Asked(t) = Asked(s)
    BY <1>2, <1>3 DEF Asked
  <1> QED BY <1>4 DEF t

\* A control event answers one request more.
LEMMA AskedAnswer ==
    ASSUME NEW s \in Seq(EventType), NEW ev \in EventType, ev.kind = "control"
    PROVE  Asked(Append(s, ev)) = Append(Asked(s), [req |-> ev.req, ep |-> ev.ep])
  <1> DEFINE t == Append(s, ev)
             n == Len(s) + 1
             S == Places(s)
             T == Places(t)
  <1>1. /\ DOMAIN s = 1 .. Len(s) /\ DOMAIN t = 1 .. n /\ Len(s) \in Nat
        /\ \A k \in 1 .. Len(s) : t[k] = s[k]
        /\ t[n] = ev /\ t \in Seq(EventType)
    BY PostedEvents
  <1>2. S \in SUBSET (1 .. Len(s)) /\ S \in SUBSET Nat /\ IsFiniteSet(S) /\ Cardinality(S) \in Nat
    BY PlacesTyped
  <1>3. T \in SUBSET Nat /\ IsFiniteSet(T)
    BY <1>1, PlacesTyped
  <1> HIDE DEF t
  <1>4. T = S \cup {n} /\ n \notin S
    BY <1>1, <1>2 DEF Places
  <1> HIDE DEF S, T
  <1>5. Cardinality(T) = Cardinality(S) + 1
    BY <1>2, <1>4, FS_AddElement
  <1>6. ASSUME NEW i \in 1 .. Cardinality(S)
        PROVE  Nth(T, i) = Nth(S, i) /\ Nth(S, i) \in 1 .. Len(s)
    <2> DEFINE k == Nth(S, i)
    <2>1. k \in S /\ Count(S, k) = i
      BY <1>1, <1>2, NthExists
    <2> HIDE DEF k
    <2>2. ~(n <= k) /\ k \in T
      BY <1>1, <1>2, <1>4, <2>1
    <2>3. {j \in T : j <= k} = {j \in S : j <= k}
      BY <1>4, <2>2, Zenon
    <2>4. Count(T, k) = i
      BY <2>1, <2>3 DEF Count
    <2>5. Nth(T, i) = k
      BY <1>3, <2>2, <2>4, NthIs
    <2> QED BY <1>2, <2>1, <2>5 DEF k
  <1>7. Nth(T, Cardinality(S) + 1) = n
    <2>1. \A j \in T : j <= n
      BY <1>1, <1>2, <1>4
    <2>2. {j \in T : j <= n} = T
      BY <2>1, Zenon
    <2>3. Count(T, n) = Cardinality(S) + 1
      BY <1>5, <2>2 DEF Count
    <2> QED BY <1>3, <1>4, <2>3, NthIs
  <1>8. Asked(t) = [i \in 1 .. Cardinality(S) + 1 |-> [req |-> t[Nth(T, i)].req, ep |-> t[Nth(T, i)].ep]]
    BY <1>5 DEF Asked, T
  <1>9. Asked(s) = [i \in 1 .. Cardinality(S) |-> [req |-> s[Nth(S, i)].req, ep |-> s[Nth(S, i)].ep]]
    BY DEF Asked, S
  <1>10. Asked(s) \in Seq(RequestType) /\ Len(Asked(s)) = Cardinality(S)
    BY AskedTyped DEF S
  <1>11. [req |-> ev.req, ep |-> ev.ep] \in RequestType
    BY ControlEvent DEF RequestType
  <1> DEFINE q == Append(Asked(s), [req |-> ev.req, ep |-> ev.ep])
  <1>12. /\ q \in Seq(RequestType) /\ Len(q) = Cardinality(S) + 1
         /\ \A i \in 1 .. Cardinality(S) : q[i] = Asked(s)[i]
         /\ q[Cardinality(S) + 1] = [req |-> ev.req, ep |-> ev.ep]
    BY <1>2, <1>10, <1>11
  <1> HIDE DEF q
  <1>13. q = [i \in 1 .. Cardinality(S) + 1 |-> q[i]]
    BY <1>12
  <1>14. ASSUME NEW i \in 1 .. Cardinality(S) + 1
         PROVE  q[i] = [req |-> t[Nth(T, i)].req, ep |-> t[Nth(T, i)].ep]
    <2>1. CASE i \in 1 .. Cardinality(S)
      BY <1>1, <1>6, <1>9, <1>12, <2>1
    <2>2. CASE i = Cardinality(S) + 1
      BY <1>1, <1>7, <1>12, <2>2
    <2> QED BY <1>2, <2>1, <2>2
  <1>15. Asked(t) = q
    BY <1>8, <1>13, <1>14
  <1> QED BY <1>15 DEF t, q

\* The places after the first event is taken: one less, without the first.
LEMMA PlacesTail ==
    ASSUME NEW s \in Seq(EventType), s # <<>>
    PROVE  Places(Tail(s)) = {j - 1 : j \in Places(s) \ {1}}
  <1> DEFINE t == Tail(s)
  <1>1. /\ Len(s) \in Nat /\ Len(s) >= 1 /\ DOMAIN s = 1 .. Len(s) /\ DOMAIN t = 1 .. Len(s) - 1
        /\ \A k \in 1 .. Len(s) - 1 : t[k] = s[k + 1]
    BY TakenEvents
  <1> HIDE DEF t
  <1>2. ASSUME NEW k \in Places(t) PROVE k \in {j - 1 : j \in Places(s) \ {1}}
    <2>1. k \in 1 .. Len(s) - 1 /\ s[k + 1].kind = "control"
      BY <1>1 DEF Places
    <2>2. k + 1 \in Places(s) \ {1} /\ k = k + 1 - 1
      BY <1>1, <2>1 DEF Places
    <2>3. \E j \in Places(s) \ {1} : k = j - 1
      BY <1>1, <2>1, <2>2
    <2> QED BY <2>3, Zenon
  <1>3. ASSUME NEW j \in Places(s) \ {1} PROVE j - 1 \in Places(t)
    <2>1. j \in 1 .. Len(s) /\ s[j].kind = "control" /\ j # 1
      BY <1>1 DEF Places
    <2>2. j - 1 \in 1 .. Len(s) - 1 /\ j - 1 + 1 = j
      BY <1>1, <2>1
    <2>3. t[j - 1] = s[j]
      BY <1>1, <2>2
    <2> QED BY <1>1, <2>1, <2>2, <2>3 DEF Places
  <1> QED BY <1>2, <1>3 DEF t

\* Taking another event leaves it open whether a control request is answered.
LEMMA PlacesTake ==
    ASSUME NEW s \in Seq(EventType), s # <<>>, Head(s).kind # "control"
    PROVE  Places(Tail(s)) = {} <=> Places(s) = {}
  <1>1. 1 \notin Places(s)
    BY TakenEvents DEF Places
  <1>2. Places(Tail(s)) = {j - 1 : j \in Places(s) \ {1}}
    BY PlacesTail
  <1> QED BY <1>1, <1>2

\* What the driver waits for does not change when it takes another event.
LEMMA AskedTake ==
    ASSUME NEW s \in Seq(EventType), s # <<>>, Head(s).kind # "control"
    PROVE  Asked(Tail(s)) = Asked(s)
  <1> DEFINE t == Tail(s)
             S == Places(s)
             D == {j - 1 : j \in S}
  <1>1. /\ Len(s) \in Nat /\ Len(s) >= 1 /\ Head(s) = s[1] /\ t \in Seq(EventType)
        /\ \A k \in 1 .. Len(s) - 1 : t[k] = s[k + 1]
    BY TakenEvents
  <1>2. S \in SUBSET (1 .. Len(s)) /\ IsFiniteSet(S) /\ S \in SUBSET Nat
    BY PlacesTyped
  <1>3. 1 \notin S
    BY <1>1 DEF Places
  <1>4. S \ {1} = S
    BY <1>3
  <1>5. Places(t) = D
    BY <1>4, PlacesTail
  <1> HIDE DEF t, S
  <1>6. /\ D \in SUBSET Nat /\ IsFiniteSet(D) /\ Cardinality(D) = Cardinality(S)
        /\ \A k \in Nat : Count(D, k) = Count(S, k + 1)
    BY <1>1, <1>2, CountShift
  <1>7. ASSUME NEW i \in 1 .. Cardinality(S) PROVE t[Nth(D, i)] = s[Nth(S, i)]
    <2> DEFINE k == Nth(S, i)
    <2>1. k \in S /\ Count(S, k) = i
      BY <1>1, <1>2, NthExists
    <2> HIDE DEF k
    <2>2. k \in 1 .. Len(s) /\ k # 1
      BY <1>2, <1>3, <2>1
    <2>3. k - 1 \in D /\ k - 1 \in Nat /\ k - 1 + 1 = k /\ k - 1 \in 1 .. Len(s) - 1
      BY <1>1, <2>1, <2>2
    <2> HIDE DEF D
    <2>4. Count(D, k - 1) = i
      BY <1>6, <2>1, <2>3
    <2>5. Nth(D, i) = k - 1
      BY <1>6, <2>3, <2>4, NthIs
    <2> QED BY <1>1, <2>3, <2>5 DEF k
  <1> HIDE DEF D
  <1>8. Asked(t) = Asked(s)
    BY <1>5, <1>6, <1>7 DEF Asked, S
  <1> QED BY <1>8 DEF t

\* No control event, no answer.
LEMMA NothingAsked ==
    ASSUME NEW s \in Seq(EventType), Places(s) = {}
    PROVE  Asked(s) = <<>>
  <1>1. Len(Asked(s)) = 0 /\ Asked(s) \in Seq(RequestType)
    BY AskedTyped, FS_EmptySet
  <1> QED BY <1>1, EmptySeq

\* A control event answers the oldest request the driver waits for.
LEMMA AskedSeen ==
    ASSUME NEW s \in Seq(EventType), s # <<>>, Head(s).kind = "control"
    PROVE  /\ Len(Asked(s)) > 0 /\ Asked(s)[1] = [req |-> Head(s).req, ep |-> Head(s).ep]
           /\ Len(Asked(Tail(s))) = Len(Asked(s)) - 1
           /\ \A i \in 1 .. Len(Asked(s)) - 1 : Asked(Tail(s))[i] = Asked(s)[i + 1]
  <1> DEFINE t == Tail(s)
             S == Places(s)
             R == S \ {1}
             D == {j - 1 : j \in R}
  <1>1. /\ Len(s) \in Nat /\ Len(s) >= 1 /\ Head(s) = s[1] /\ t \in Seq(EventType)
        /\ DOMAIN s = 1 .. Len(s)
        /\ \A k \in 1 .. Len(s) - 1 : t[k] = s[k + 1]
    BY TakenEvents
  <1>2. /\ S \in SUBSET (1 .. Len(s)) /\ IsFiniteSet(S) /\ S \in SUBSET Nat
        /\ Cardinality(S) \in Nat
    BY PlacesTyped
  <1>3. 1 \in S
    BY <1>1 DEF Places
  <1>4. Places(t) = D
    BY PlacesTail
  <1>5. Len(Asked(s)) = Cardinality(S) /\ Len(Asked(t)) = Cardinality(D)
    BY <1>1, <1>4, AskedTyped
  <1> HIDE DEF t, S
  <1>6. /\ R \in SUBSET (1 .. Len(s)) /\ R \in SUBSET Nat /\ IsFiniteSet(R)
        /\ Cardinality(R) = Cardinality(S) - 1
    BY <1>2, <1>3, FS_RemoveElement
  <1>7. Cardinality(R) \in Nat
    BY <1>6, FS_CardinalityType
  <1>8. /\ D \in SUBSET Nat /\ IsFiniteSet(D) /\ Cardinality(D) = Cardinality(R)
        /\ \A k \in Nat : Count(D, k) = Count(R, k + 1)
    <2> HIDE DEF R
    <2> QED BY <1>1, <1>6, CountShift
  <1>9. ASSUME NEW k \in S PROVE Count(R, k) = Count(S, k) - 1
    <2>1. k \in Nat /\ 1 <= k
      BY <1>1, <1>2
    <2>2. IsFiniteSet({j \in S : j <= k}) /\ 1 \in {j \in S : j <= k}
      BY <1>2, <1>3, <2>1, CountTyped
    <2>3. {j \in R : j <= k} = {j \in S : j <= k} \ {1}
      OBVIOUS
    <2> QED BY <2>2, <2>3, FS_RemoveElement DEF Count
  <1>10. Nth(S, 1) = 1
    <2>1. {j \in S : j <= 1} = {1}
      <3>1. \A j \in S : (j <= 1) <=> (j = 1)
        BY <1>2
      <3> QED BY <1>3, <3>1, Zenon
    <2>2. Count(S, 1) = 1
      BY <2>1, FS_Singleton DEF Count
    <2> QED BY <1>2, <1>3, <2>2, NthIs
  <1>11. ASSUME NEW i \in 1 .. Cardinality(S) - 1 PROVE t[Nth(D, i)] = s[Nth(S, i + 1)]
    <2> DEFINE k == Nth(S, i + 1)
    <2>1. k \in S /\ Count(S, k) = i + 1
      <3>1. i + 1 \in 1 .. Cardinality(S)
        BY <1>2
      <3> QED BY <1>1, <1>2, <3>1, NthExists
    <2>2. k # 1
      <3>1. Count(S, 1) = 1
        <4>1. {j \in S : j <= 1} = {1}
          <5>1. \A j \in S : (j <= 1) <=> (j = 1)
            BY <1>2
          <5> QED BY <1>3, <5>1, Zenon
        <4> QED BY <4>1, FS_Singleton DEF Count
      <3> HIDE DEF k
      <3> QED BY <2>1, <3>1
    <2> HIDE DEF k
    <2>3. k - 1 \in D /\ k - 1 \in Nat /\ k - 1 + 1 = k /\ k - 1 \in 1 .. Len(s) - 1
      BY <1>1, <1>2, <2>1, <2>2
    <2>4. Count(R, k) = i
      <3>1. i \in Nat
        BY <1>2
      <3>2. Count(R, k) = i + 1 - 1
        <4> HIDE DEF R
        <4>1. Count(R, k) = Count(S, k) - 1
          BY <1>9, <2>1
        <4> QED BY <2>1, <4>1
      <3> QED BY <3>1, <3>2
    <2> HIDE DEF D, R
    <2>5. Count(D, k - 1) = i
      BY <1>8, <2>3, <2>4
    <2>6. Nth(D, i) = k - 1
      BY <1>8, <2>3, <2>5, NthIs
    <2> QED BY <1>1, <2>3, <2>6 DEF k
  <1> HIDE DEF D, R
  <1>12. Cardinality(D) = Cardinality(S) - 1 /\ Cardinality(S) > 0
    BY <1>2, <1>6, <1>7, <1>8
  <1>13. Asked(s)[1] = [req |-> s[1].req, ep |-> s[1].ep]
    BY <1>2, <1>10, <1>12 DEF Asked, S
  <1>14. ASSUME NEW i \in 1 .. Cardinality(S) - 1 PROVE Asked(t)[i] = Asked(s)[i + 1]
    <2>1. i \in 1 .. Cardinality(D) /\ i + 1 \in 1 .. Cardinality(S)
      BY <1>2, <1>12
    <2>2. Asked(t)[i] = [req |-> t[Nth(D, i)].req, ep |-> t[Nth(D, i)].ep]
      BY <1>4, <2>1 DEF Asked
    <2>3. Asked(s)[i + 1] = [req |-> s[Nth(S, i + 1)].req, ep |-> s[Nth(S, i + 1)].ep]
      BY <2>1 DEF Asked, S
    <2> QED BY <1>11, <2>2, <2>3
  <1> QED BY <1>1, <1>5, <1>12, <1>13, <1>14 DEF t

\* The driver waits for the answered requests, then for the others.
LEMMA ControlsTyped ==
    ASSUME NEW es \in Seq(EventType), NEW cs \in Seq(RequestType)
    PROVE  /\ Asked(es) \in Seq(RequestType) /\ Asked(es) \o cs \in Seq(RequestType)
           /\ Len(Asked(es) \o cs) = Len(Asked(es)) + Len(cs)
  BY AskedTyped

-----------------------------------------------------------------------------
(* What a class driver may rely on after a failed recovery too             *)

\* The TRBs of a transfer follow each other in the ring, up to the enqueue pointer.
TrackOK(r, p, n) ==
    /\ n <= p.count
    /\ ~p.active => n = 0 /\ p.phase = "None"
    /\ p.active => p.count >= 1
    /\ p.active /\ n < p.count => r.write_index = SlotAfter(p.first, p.count - n)
    /\ p.active /\ n = 0 => p.last = SlotAfter(p.first, p.count - 1)

\* A recovery keeps the controller off the ring; once the endpoint is reset it is
\* stopped.  A command under way is that of the phase.
PhaseOK(p, n, c) ==
    /\ p.phase # "None" => p.active /\ n = 0 /\ c.state \in {"halted", "stopped"}
    /\ p.phase \notin {"None", "ResetEndpoint"} => c.state = "stopped"
    /\ c.cmd # "none" => c.cmd = p.phase

\* Only a receiving endpoint ends a transfer short.
ShortOK(e, p, c) ==
    /\ c.skip => e \in InEndpoints
    /\ p.short_seen => e \in InEndpoints /\ p.short_len \in 0 .. TrbLen * p.count

\* One endpoint; while no recovery failed, a halted controller is at a TRB.
StateOK(e, r, p, n, c, a) ==
    /\ TrackOK(r, p, n)
    /\ PhaseOK(p, n, c)
    /\ ShortOK(e, p, c)
    /\ ~a /\ c.state = "halted" => Occupancy(r, c) > 0

\* An event belongs to the phase of its endpoint.
AnswerOK(p, c, ev) ==
    /\ ev.kind = "transfer" => p.phase = "None" /\ (ev.code = "Error" => c.state = "halted")
    /\ ev.kind \in Commands => p.phase = ev.kind /\ c.cmd = "none"
    /\ ev.kind = "ResetEndpoint" /\ ev.ok => c.state = "stopped"

\* What an event says is left of a TRB.
ResidualOK(ev) ==
    ev.kind = "transfer" =>
        /\ ev.residual \in 0 .. TrbLen
        /\ ev.ep \notin InEndpoints => ev.residual = 0 /\ ev.code # "Short"

\* Two events of an endpoint, a before b.
SeriesOK(a, b) ==
    /\ ~(a.kind \in Commands /\ b.kind \in Commands)
    /\ a.kind = "transfer" /\ b.kind = "transfer" => a.code # "Error"

\* Every endpoint.
StatesInv == \A e \in Endpoints :
    StateOK(e, ring[e], pending[e], todo[e], ctl[e], abandoned[e])

\* Every event.
AnswersInv == \A k \in 1 .. Len(events) :
    ResidualOK(events[k]) /\ AnswerOK(pending[events[k].ep], ctl[events[k].ep], events[k])

\* The events of an endpoint.
SeriesInv == \A j, k \in 1 .. Len(events) :
    j < k /\ events[j].ep = events[k].ep => SeriesOK(events[j], events[k])

\* A recovery waits for the class driver in the callback it goes on from.
WaitInv == call.fn \in {"ResetDone", "ClearHaltDone"} =>
    pending[call.ep].phase = "ClearEndpointHalt"

\* The inductive invariant, together with BulkInv.
PipeInv == StatesInv /\ AnswersInv /\ SeriesInv /\ WaitInv

\* A control request that failed was the last to be answered, and has halted the
\* default pipe: the driver hears of the failure only by its event.
FailInv == \A k \in Places(events) :
    ~events[k].ok => ep0 /\ \A j \in Places(events) : j <= k

\* What a step that changes endpoint e has to keep of it, and of its events.
Keeps(e) == StateOK(e, ring'[e], pending'[e], todo'[e], ctl'[e], abandoned'[e])
Fits(e, ev) == AnswerOK(pending[e], ctl[e], ev)
FitsNext(e, ev) == AnswerOK(pending'[e], ctl'[e], ev)

\* The event ring's events are events of endpoints.
LEMMA EventAt ==
    ASSUME BulkInv, NEW k \in 1 .. Len(events)
    PROVE  events[k] \in EventType /\ events[k].ep \in Endpoints
  <1>1. events[k] \in EventType
    BY DEF BulkInv, TypeInv
  <1> QED BY <1>1 DEF EventType

\* A step of one endpoint that leaves the event ring alone.
LEMMA QuietPipe ==
    ASSUME BulkInv, PipeInv, NEW e \in Endpoints, Only(e), events' = events, Keeps(e),
           \A ev : Fits(e, ev) => FitsNext(e, ev)
    PROVE  StatesInv' /\ AnswersInv' /\ SeriesInv'
  <1>1. StatesInv'
    BY DEF PipeInv, StatesInv, Only, Keeps
  <1>2. AnswersInv'
    <2> SUFFICES ASSUME NEW k \in 1 .. Len(events)
                 PROVE  /\ ResidualOK(events[k])
                        /\ AnswerOK(pending'[events[k].ep], ctl'[events[k].ep], events[k])
      BY DEF AnswersInv
    <2>1. events[k].ep \in Endpoints
      BY EventAt
    <2> QED BY <2>1 DEF PipeInv, AnswersInv, Only, Fits, FitsNext
  <1>3. SeriesInv'
    BY DEF PipeInv, SeriesInv
  <1> QED BY <1>1, <1>2, <1>3

\* A step that posts an event of endpoint e.
LEMMA PostPipe ==
    ASSUME BulkInv, PipeInv, NEW e \in Endpoints, Only(e), Keeps(e),
           NEW new \in EventType, new.ep = e, events' = Append(events, new),
           ResidualOK(new), FitsNext(e, new),
           \A ev : Fits(e, ev) => FitsNext(e, ev) /\ SeriesOK(ev, new)
    PROVE  StatesInv' /\ AnswersInv' /\ SeriesInv'
  <1>1. StatesInv'
    BY DEF PipeInv, StatesInv, Only, Keeps
  <1>2. /\ Len(events') = Len(events) + 1 /\ Len(events) \in Nat
        /\ \A k \in 1 .. Len(events) : events'[k] = events[k]
        /\ events'[Len(events) + 1] = new
    BY PostedEvents DEF BulkInv, TypeInv
  <1>3. AnswersInv'
    <2> SUFFICES ASSUME NEW k \in 1 .. Len(events')
                 PROVE  /\ ResidualOK(events'[k])
                        /\ AnswerOK(pending'[events'[k].ep], ctl'[events'[k].ep], events'[k])
      BY DEF AnswersInv
    <2>1. CASE k \in 1 .. Len(events)
      <3>1. events[k].ep \in Endpoints
        BY <2>1, EventAt
      <3> QED BY <1>2, <2>1, <3>1 DEF PipeInv, AnswersInv, Only, Fits, FitsNext
    <2>2. CASE k = Len(events) + 1
      BY <1>2, <2>2 DEF FitsNext
    <2> QED BY <1>2, <2>1, <2>2
  <1>4. SeriesInv'
    <2> SUFFICES ASSUME NEW j \in 1 .. Len(events'), NEW k \in 1 .. Len(events'), j < k,
                        events'[j].ep = events'[k].ep
                 PROVE  SeriesOK(events'[j], events'[k])
      BY DEF SeriesInv
    <2>1. j \in 1 .. Len(events) /\ events'[j] = events[j]
      BY <1>2
    <2>2. CASE k \in 1 .. Len(events)
      BY <1>2, <2>1, <2>2 DEF PipeInv, SeriesInv
    <2>3. CASE k = Len(events) + 1
      <3>1. Fits(e, events[j])
        BY <1>2, <2>1, <2>3 DEF PipeInv, AnswersInv, Fits
      <3> QED BY <1>2, <2>1, <2>3, <3>1
    <2> QED BY <1>2, <2>2, <2>3
  <1> QED BY <1>1, <1>3, <1>4

\* A handler that takes an event of endpoint e.
LEMMA TakePipe ==
    ASSUME BulkInv, PipeInv, NEW e \in Endpoints, Only(e), Keeps(e),
           events # <<>>, Head(events).ep = e, events' = Tail(events),
           \A ev : Fits(e, ev) /\ SeriesOK(Head(events), ev) => FitsNext(e, ev)
    PROVE  StatesInv' /\ AnswersInv' /\ SeriesInv'
  <1>1. StatesInv'
    BY DEF PipeInv, StatesInv, Only, Keeps
  <1>2. /\ Len(events) \in Nat /\ Len(events) >= 1 /\ Len(events') = Len(events) - 1
        /\ \A k \in 1 .. Len(events) - 1 : events'[k] = events[k + 1]
        /\ Head(events) = events[1]
    BY TakenEvents DEF BulkInv, TypeInv
  <1>3. AnswersInv'
    <2> SUFFICES ASSUME NEW k \in 1 .. Len(events')
                 PROVE  /\ ResidualOK(events'[k])
                        /\ AnswerOK(pending'[events'[k].ep], ctl'[events'[k].ep], events'[k])
      BY DEF AnswersInv
    <2>1. /\ k + 1 \in 1 .. Len(events) /\ events'[k] = events[k + 1] /\ 1 < k + 1
          /\ 1 \in 1 .. Len(events)
      BY <1>2
    <2>2. events[k + 1].ep \in Endpoints
      BY <2>1, EventAt
    <2>3. /\ ResidualOK(events[k + 1])
          /\ AnswerOK(pending[events[k + 1].ep], ctl[events[k + 1].ep], events[k + 1])
      BY <2>1 DEF PipeInv, AnswersInv
    <2>4. events[k + 1].ep = e => SeriesOK(Head(events), events[k + 1])
      BY <1>2, <2>1 DEF PipeInv, SeriesInv
    <2> QED BY <2>1, <2>2, <2>3, <2>4 DEF Only, Fits, FitsNext
  <1>4. SeriesInv'
    <2> SUFFICES ASSUME NEW j \in 1 .. Len(events'), NEW k \in 1 .. Len(events'), j < k,
                        events'[j].ep = events'[k].ep
                 PROVE  SeriesOK(events'[j], events'[k])
      BY DEF SeriesInv
    <2>1. /\ j + 1 \in 1 .. Len(events) /\ k + 1 \in 1 .. Len(events) /\ j + 1 < k + 1
          /\ events'[j] = events[j + 1] /\ events'[k] = events[k + 1]
      BY <1>2
    <2> QED BY <2>1 DEF PipeInv, SeriesInv
  <1> QED BY <1>1, <1>3, <1>4

\* The call of a waiting recovery stays with it.
LEMMA WaitKept ==
    ASSUME BulkInv, PipeInv, call' = call,
           \A e \in Endpoints : pending[e].phase = "ClearEndpointHalt" =>
                                pending'[e].phase = pending[e].phase
    PROVE  WaitInv'
  <1>1. call.fn \in {"ResetDone", "ClearHaltDone"} => call.ep \in Endpoints
    BY DEF BulkInv, TypeInv, CallType, NoCall
  <1> QED BY <1>1 DEF PipeInv, WaitInv

-----------------------------------------------------------------------------
(* Steps of the pipe                                                       *)

\* A step of the pipe, or none.
PipeStep == [Pipe!PipeNext]_<<Transfers, Controls, Halted, call, abandoned>>

\* The view of one endpoint, before and after a step.
LEMMA ViewAt ==
    ASSUME NEW e \in Endpoints
    PROVE  /\ Transfers[e] = ViewOf(ring[e], pending[e], todo[e], ctl[e], abandoned[e])
           /\ Transfers'[e] = ViewOf(ring'[e], pending'[e], todo'[e], ctl'[e], abandoned'[e])
  BY DEF Transfers

\* A step of endpoint e changes the view of no other.
LEMMA ViewOnly ==
    ASSUME NEW e \in Endpoints, Only(e)
    PROVE  Transfers' = [Transfers EXCEPT ![e] =
               ViewOf(ring'[e], pending'[e], todo'[e], ctl'[e], abandoned'[e])]
  <1> DEFINE v == ViewOf(ring'[e], pending'[e], todo'[e], ctl'[e], abandoned'[e])
  <1>1. Transfers'[e] = v
    BY ViewAt
  <1>2. \A f \in Endpoints : f # e => Transfers'[f] = Transfers[f]
    BY ViewAt DEF Only
  <1> HIDE DEF v
  <1>3. Transfers' = [f \in Endpoints |-> Transfers'[f]] /\ Transfers = [f \in Endpoints |-> Transfers[f]]
    BY DEF Transfers
  <1> QED BY <1>1, <1>2, <1>3 DEF v

\* A step that changes the view of no endpoint.
LEMMA ViewStill ==
    ASSUME \A e \in Endpoints : Transfers'[e] = Transfers[e]
    PROVE  Transfers' = Transfers
  <1>1. Transfers' = [f \in Endpoints |-> Transfers'[f]] /\ Transfers = [f \in Endpoints |-> Transfers[f]]
    BY DEF Transfers
  <1> QED BY <1>1

\* Posting or taking any other event changes no control request.
LEMMA ControlsKept ==
    ASSUME BulkInv, control' = control, ep0' = ep0,
           \/ events' = events
           \/ \E ev \in EventType : ev.kind # "control" /\ events' = Append(events, ev)
           \/ events # <<>> /\ Head(events).kind # "control" /\ events' = Tail(events)
    PROVE  Controls' = Controls /\ Halted' = Halted
  <1>1. events \in Seq(EventType)
    BY DEF BulkInv, TypeInv
  <1>2. Asked(events') = Asked(events)
    BY <1>1, AskedPost, AskedTake
  <1>3. Places(events') = {} <=> Places(events) = {}
    BY <1>1, PlacesPost, PlacesTake
  <1>4. Halted' = Halted
    BY <1>3 DEF Halted
  <1> QED BY <1>2, <1>4 DEF Controls

\* A step that the class driver does not see.
LEMMA PipeStutter ==
    ASSUME NEW e \in Endpoints, Only(e), Controls' = Controls, Halted' = Halted, call' = call,
           abandoned' = abandoned,
           ViewOf(ring'[e], pending'[e], todo'[e], ctl'[e], abandoned[e])
               = ViewOf(ring[e], pending[e], todo[e], ctl[e], abandoned[e])
    PROVE  PipeStep
  <1>1. \A f \in Endpoints : Transfers'[f] = Transfers[f]
    BY ViewAt DEF Only
  <1>2. Transfers' = Transfers
    BY <1>1, ViewStill
  <1> QED BY <1>2 DEF PipeStep

\* What a class driver sees of a transfer that is under way or in recovery.
Stage(p) ==
    CASE p.phase = "None" -> "active"
      [] p.phase = "ResetEndpoint" -> "reset"
      [] p.phase = "ClearEndpointHalt" -> "clear"
      [] OTHER -> "resume"

\* Whether the device is done with a transfer.
Served(r, p, n, c, a) == p.phase = "None" /\ n = 0 /\ ~a /\ Contents(r, c) = <<>>

\* The view of an endpoint by what its transfer is up to.
LEMMA IdleView ==
    ASSUME NEW r, NEW p, NEW n, NEW c, NEW a, ~p.active
    PROVE  ViewOf(r, p, n, c, a) = Pipe!NoXfer
  BY DEF ViewOf, Pipe!NoXfer

\* A transfer the device is not done with.
LEMMA UnservedView ==
    ASSUME NEW r, NEW p, NEW n, NEW c, NEW a, p.active, ~Served(r, p, n, c, a)
    PROVE  ViewOf(r, p, n, c, a) = [phase |-> Stage(p), item |-> p.item,
                                    size |-> TrbLen * p.count, served |-> FALSE]
  BY Zenon DEF ViewOf, Stage, Served

\* A transfer of which every TRB was taken.
LEMMA ServedView ==
    ASSUME NEW r, NEW p, NEW n, NEW c, NEW a, p.active, Served(r, p, n, c, a)
    PROVE  ViewOf(r, p, n, c, a) = [phase |-> "active", item |-> p.item,
                                    size |-> TrbLen * p.count, served |-> TRUE]
  BY Zenon DEF ViewOf, Served

\* A ring is empty when its occupancy is zero.
LEMMA ContentsOccupancy ==
    ASSUME NEW r, RingOK(r), NEW c, PositionOK(r, c)
    PROVE  Occupancy(r, c) > 0 <=> Contents(r, c) # <<>>
  <1>1. Contents(r, c) \in Seq(BlockType) /\ Len(Contents(r, c)) = Occupancy(r, c)
    BY ContentsSeq
  <1>2. Occupancy(r, c) \in Nat
    BY OccupancyBounds, RingAssumption DEF UsableSize
  <1>3. Contents(r, c) = <<>> <=> Len(Contents(r, c)) = 0
    BY <1>1, EmptySeq
  <1> QED BY <1>1, <1>2, <1>3

-----------------------------------------------------------------------------
(* The steps of driver and controller                                      *)

\* A TRB is pushed: the ring holds one more.
LEMMA PushOccupancy ==
    ASSUME NEW r, RingOK(r), NEW c, PositionOK(r, c), Occupancy(r, c) < UsableSize,
           NEW item \in Items \cup {NoItem}, NEW last \in BOOLEAN
    PROVE  /\ PositionOK(Push(r, item, last), c)
           /\ Occupancy(Push(r, item, last), c) = Occupancy(r, c) + 1
  BY PushPosition, Zenon

\* One turn of QueueBulkTransfer's loop: a transfer is not served while TRBs are
\* still to be pushed, nor right after the last push.
LEMMA PushView ==
    ASSUME NEW e, NEW r, RingOK(r), NEW p \in PendingType, NEW q \in PendingType,
           NEW n \in 1 .. UsableSize, NEW c \in ContextType, NEW d \in ContextType,
           NEW a \in BOOLEAN, StateOK(e, r, p, n, c, a), ~a => EndpointOK(r, p, n, c),
           q.active = p.active, q.item = p.item, q.count = p.count, q.phase = p.phase,
           q.short_seen = p.short_seen, q.short_len = p.short_len,
           q.first = IF n = p.count THEN r.write_index ELSE p.first,
           NEW l \in BOOLEAN, NEW s, s = Push(r, p.item, l), n = 1 => q.last = r.write_index,
           d.deq = c.deq, d.ccs = c.ccs, d.cmd = c.cmd, d.skip = c.skip,
           c.state = "halted" <=> d.state = "halted"
    PROVE  /\ StateOK(e, s, q, n - 1, d, a)
           /\ \A ev : AnswerOK(p, c, ev) => AnswerOK(q, d, ev)
           /\ p.active /\ ~Served(r, p, n, c, a) /\ ~Served(s, q, n - 1, d, a)
  <1>1. /\ p.count \in 0 .. UsableSize /\ p.first \in Slots /\ p.active \in BOOLEAN
        /\ p.item \in Items \cup {NoItem} /\ UsableSize \in Nat
        /\ r.write_index \in Slots /\ n \in Int /\ q.first \in Slots
    BY RingAssumption DEF PendingType, RingOK, RingType, UsableSize
  <1>2. n <= p.count /\ p.active /\ p.phase = "None" /\ c.cmd = "none"
    BY <1>1 DEF StateOK, TrackOK, PhaseOK, ContextType
  <1>3. n < p.count => r.write_index = SlotAfter(p.first, p.count - n)
    BY <1>2 DEF StateOK, TrackOK
  <1>4. s.write_index = SlotAfter(r.write_index, 1) /\ RingOK(s)
    <2>1. p.item \in Items \cup {NoItem}
      BY <1>1
    <2>2. /\ Push(r, p.item, l).write_index = SlotAfter(r.write_index, 1)
          /\ RingOK(Push(r, p.item, l))
      BY <2>1, PushRing
    <2> QED BY <2>2
  <1>5. s.write_index = SlotAfter(q.first, q.count - (n - 1))
    BY <1>1, <1>2, <1>3, <1>4, RingAssumption DEF SlotAfter, Slots, UsableSize
  <1>6. n = 1 => q.last = SlotAfter(q.first, q.count - 1)
    BY <1>1, <1>2, <1>3, RingAssumption DEF SlotAfter, Slots, UsableSize
  <1>7. n - 1 <= q.count /\ q.count >= 1 /\ (n - 1 = 0 => n = 1)
    BY <1>1, <1>2
  <1>8. TrackOK(s, q, n - 1)
    BY <1>2, <1>5, <1>6, <1>7 DEF TrackOK
  <1>9. PhaseOK(q, n - 1, d)
    BY <1>2 DEF PhaseOK
  <1>10. ShortOK(e, q, d)
    BY DEF StateOK, ShortOK
  <1>11. ASSUME ~a
         PROVE  Occupancy(s, d) > 0 /\ Contents(s, d) # <<>>
    <2>1. PositionOK(r, c) /\ Occupancy(r, c) + n <= p.count
      BY <1>11 DEF EndpointOK
    <2>2. Occupancy(r, c) \in 0 .. UsableSize
      BY <2>1, OccupancyBounds
    <2>3. Occupancy(r, c) < UsableSize
      BY <1>1, <2>1, <2>2
    <2>4. PositionOK(s, c) /\ Occupancy(s, c) = Occupancy(r, c) + 1
      <3>1. p.item \in Items \cup {NoItem}
        BY <1>1
      <3> DEFINE it == p.item
      <3> HIDE DEF it
      <3>2. PositionOK(Push(r, it, l), c) /\ Occupancy(Push(r, it, l), c) = Occupancy(r, c) + 1
        BY <2>1, <2>3, <3>1, PushOccupancy, Zenon DEF it
      <3> QED BY <3>2 DEF it
    <2>5. HeadSlot(d) = HeadSlot(c) /\ HeadCycle(d) = HeadCycle(c)
      BY DEF HeadSlot, HeadCycle
    <2>6. PositionOK(s, d) /\ Occupancy(s, d) = Occupancy(s, c)
      BY <2>4, <2>5, SamePosition DEF ContextType
    <2>7. Occupancy(s, d) > 0
      BY <2>2, <2>4, <2>6
    <2> QED BY <1>4, <2>6, <2>7, ContentsOccupancy
  <1>12. StateOK(e, s, q, n - 1, d, a)
    BY <1>8, <1>9, <1>10, <1>11 DEF StateOK
  <1>13. ASSUME NEW ev, AnswerOK(p, c, ev) PROVE AnswerOK(q, d, ev)
    BY <1>2, <1>13 DEF AnswerOK, Commands
  <1>14. ~Served(r, p, n, c, a)
    BY DEF Served
  <1>15. ~Served(s, q, n - 1, d, a)
    BY <1>11 DEF Served
  <1> QED BY <1>2, <1>12, <1>13, <1>14, <1>15

\* QueueBulkTransfer pushes a TRB: the class driver sees nothing of it.
LEMMA PushTrbPipe ==
    ASSUME BulkInv, PipeInv, NEW e \in Endpoints, PushTrb(e)
    PROVE  PipeInv' /\ PipeStep
  <1> DEFINE r == ring[e]
             p == pending[e]
             n == todo[e]
             c == ctl[e]
             a == abandoned[e]
             l == (todo[e] = 1)
             s == Push(r, p.item, l)
             q == [p EXCEPT !.first = IF n = p.count THEN r.write_index ELSE @,
                            !.last = IF l THEN r.write_index ELSE @,
                            !.next = IF l THEN s.write_index ELSE @,
                            !.next_cycle = IF l THEN s.cycle_bit ELSE @]
             d == IF l THEN Doorbell(c) ELSE c
  <1>1. /\ RingOK(r) /\ p \in PendingType /\ n \in 0 .. UsableSize /\ c \in ContextType
        /\ a \in BOOLEAN
        /\ ~a => EndpointOK(r, p, n, c)
    BY Parts
  <1>2. /\ n > 0 /\ n \in 1 .. UsableSize /\ l \in BOOLEAN
        /\ p.item \in Items \cup {NoItem} /\ r.write_index \in Slots
    BY <1>1, RingAssumption DEF PushTrb, UsableSize, PendingType, RingOK, RingType
  <1>3. /\ ring \in [Endpoints -> RingType] /\ pending \in [Endpoints -> PendingType]
        /\ todo \in [Endpoints -> 0 .. UsableSize] /\ ctl \in [Endpoints -> ContextType]
    BY DEF BulkInv, TypeInv, BulkTypeOK
  <1>4. /\ ring' = [ring EXCEPT ![e] = s] /\ todo' = [todo EXCEPT ![e] = @ - 1]
        /\ events' = events /\ control' = control /\ ep0' = ep0 /\ call' = call
        /\ abandoned' = abandoned
    BY DEF PushTrb
  <1>5. pending' = [pending EXCEPT ![e] = q]
    BY <1>3 DEF PushTrb
  <1>6. ctl' = [ctl EXCEPT ![e] = d]
    BY <1>3 DEF PushTrb
  <1>7. RingOK(s)
    <2>1. p.item \in Items \cup {NoItem} /\ l \in BOOLEAN
      BY <1>2
    <2> HIDE DEF r, p, l
    <2> QED BY <1>1, <2>1, PushRing
  <1>8. s.write_index \in Slots /\ s.cycle_bit \in BOOLEAN
    BY <1>7 DEF RingOK, RingType
  <1>9. /\ q \in PendingType /\ q.active = p.active /\ q.item = p.item /\ q.count = p.count
        /\ q.phase = p.phase /\ q.short_seen = p.short_seen /\ q.short_len = p.short_len
        /\ q.first = (IF n = p.count THEN r.write_index ELSE p.first)
        /\ n = 1 => q.last = r.write_index
    <2>1. n = 1 => l
      OBVIOUS
    <2> HIDE DEF r, p, n, c, l, s
    <2> QED BY <1>1, <1>2, <1>8, <2>1 DEF PendingType
  <1>10. /\ d \in ContextType /\ d.deq = c.deq /\ d.ccs = c.ccs /\ d.cmd = c.cmd
         /\ d.skip = c.skip /\ (c.state = "halted" <=> d.state = "halted")
    <2> HIDE DEF c, l
    <2> QED BY <1>1 DEF Doorbell, ContextType
  <1>11. s = Push(r, p.item, l)
    OBVIOUS
  <1>12. StateOK(e, r, p, n, c, a)
    BY DEF PipeInv, StatesInv
  <1> HIDE DEF q, d, s
  <1>13. /\ ring'[e] = s /\ pending'[e] = q /\ todo'[e] = n - 1 /\ ctl'[e] = d /\ abandoned'[e] = a
         /\ Only(e)
    BY <1>3, <1>4, <1>5, <1>6 DEF Only
  <1>14. /\ StateOK(e, s, q, n - 1, d, a)
         /\ \A ev : AnswerOK(p, c, ev) => AnswerOK(q, d, ev)
         /\ p.active /\ ~Served(r, p, n, c, a) /\ ~Served(s, q, n - 1, d, a)
    <2> HIDE DEF r, p, n, c, a, l
    <2> QED BY <1>1, <1>2, <1>9, <1>10, <1>11, <1>12, PushView
  <1>15. StatesInv' /\ AnswersInv' /\ SeriesInv'
    BY <1>4, <1>13, <1>14, QuietPipe DEF Keeps, Fits, FitsNext
  <1>16. WaitInv'
    <2>1. \A f \in Endpoints : pending'[f].phase = pending[f].phase
      BY <1>9, <1>13 DEF Only
    <2> QED BY <1>4, <2>1, WaitKept
  <1>17. PipeStep
    <2>1. Controls' = Controls /\ Halted' = Halted
      BY <1>4, ControlsKept
    <2>2. ViewOf(ring'[e], pending'[e], todo'[e], ctl'[e], abandoned[e])
               = ViewOf(ring[e], pending[e], todo[e], ctl[e], abandoned[e])
      <3> DEFINE m == n - 1
      <3>1. /\ p.active /\ ~Served(r, p, n, c, a) /\ ~Served(s, q, m, d, a)
            /\ q.active = p.active /\ q.item = p.item /\ q.count = p.count /\ q.phase = p.phase
        BY <1>9, <1>14
      <3> HIDE DEF r, p, n, c, a, m
      <3>2. ViewOf(s, q, m, d, a) = ViewOf(r, p, n, c, a)
        <4>1. ViewOf(r, p, n, c, a) = [phase |-> Stage(p), item |-> p.item,
                                       size |-> TrbLen * p.count, served |-> FALSE]
          BY <3>1, UnservedView
        <4>2. ViewOf(s, q, m, d, a) = [phase |-> Stage(q), item |-> q.item,
                                       size |-> TrbLen * q.count, served |-> FALSE]
          BY <3>1, UnservedView
        <4>3. Stage(q) = Stage(p)
          BY <3>1 DEF Stage
        <4> QED BY <3>1, <4>1, <4>2, <4>3
      <3> QED BY <1>13, <3>2 DEF r, p, n, c, a, m
    <2> QED BY <1>4, <1>13, <2>1, <2>2, PipeStutter
  <1> QED BY <1>15, <1>16, <1>17 DEF PipeInv

\* The controller stays where it is: the class driver sees nothing of it.
LEMMA StillPipe ==
    ASSUME BulkInv, PipeInv, NEW e \in Endpoints, NEW d, ctl' = [ctl EXCEPT ![e] = d],
           UNCHANGED <<ring, pending, todo, control, ep0, call, abandoned>>,
           HeadSlot(d) = HeadSlot(ctl[e]), HeadCycle(d) = HeadCycle(ctl[e])
    PROVE  /\ Only(e) /\ ctl'[e] = d /\ WaitInv'
           /\ Occupancy(ring[e], d) = Occupancy(ring[e], ctl[e])
           /\ Controls' = Controls /\ Halted' = Halted => PipeStep
  <1>1. ctl'[e] = d /\ Only(e)
    BY DEF Only, BulkInv, TypeInv, BulkTypeOK
  <1>2. Occupancy(ring[e], d) = Occupancy(ring[e], ctl[e])
    BY DEF Occupancy
  <1>3. Contents(ring[e], d) = Contents(ring[e], ctl[e])
    BY <1>2 DEF Contents
  <1>4. ViewOf(ring[e], pending[e], todo[e], d, abandoned[e])
            = ViewOf(ring[e], pending[e], todo[e], ctl[e], abandoned[e])
    BY <1>3, Zenon DEF ViewOf
  <1>5. Controls' = Controls /\ Halted' = Halted => PipeStep
    BY <1>1, <1>4, PipeStutter
  <1>6. WaitInv'
    BY WaitKept
  <1> QED BY <1>1, <1>2, <1>5, <1>6

\* The controller follows the Link TRB, or finds nothing to do.
LEMMA MovePipe ==
    ASSUME BulkInv, PipeInv, NEW e \in Endpoints, FollowLink(e) \/ RunDry(e)
    PROVE  PipeInv' /\ PipeStep
  <1> DEFINE c == ctl[e]
  <1>1. c \in ContextType /\ ctl \in [Endpoints -> ContextType]
    BY DEF BulkInv, TypeInv, BulkTypeOK
  <1>2. /\ c.state = "running" /\ events' = events
        /\ UNCHANGED <<ring, pending, todo, control, ep0, call, abandoned>>
    BY DEF FollowLink, RunDry
  <1>3. PICK d : /\ ctl' = [ctl EXCEPT ![e] = d] /\ d.skip = c.skip /\ d.cmd = c.cmd
                 /\ d.state \in {"running", "idle"}
                 /\ HeadSlot(d) = HeadSlot(c) /\ HeadCycle(d) = HeadCycle(c)
    <2>1. CASE FollowLink(e)
      <3>1. ctl' = [ctl EXCEPT ![e] = Linked(c)] /\ c.deq = LinkSlot
        BY <2>1 DEF FollowLink
      <3>2. Linked(c).skip = c.skip /\ Linked(c).state = c.state /\ Linked(c).cmd = c.cmd
        BY <1>1 DEF Linked, ContextType
      <3> HIDE DEF c
      <3> QED BY <1>1, <1>2, <3>1, <3>2, LinkedPosition
    <2>2. CASE RunDry(e)
      <3> DEFINE d == [c EXCEPT !.state = "idle"]
      <3>1. ctl' = [ctl EXCEPT ![e] = d]
        BY <1>1, <2>2 DEF RunDry
      <3>2. /\ d.skip = c.skip /\ d.deq = c.deq /\ d.ccs = c.ccs /\ d.state = "idle"
            /\ d.cmd = c.cmd
        BY <1>1 DEF ContextType
      <3> HIDE DEF d
      <3> QED BY <3>1, <3>2 DEF HeadSlot, HeadCycle
    <2> QED BY <2>1, <2>2
  <1>4. /\ Only(e) /\ ctl'[e] = d /\ WaitInv'
        /\ Controls' = Controls /\ Halted' = Halted => PipeStep
    BY <1>2, <1>3, StillPipe
  <1>5. StateOK(e, ring[e], pending[e], todo[e], c, abandoned[e])
    BY DEF PipeInv, StatesInv
  <1>6. pending[e].phase = "None"
    BY <1>2, <1>5 DEF StateOK, PhaseOK
  <1>7. Keeps(e)
    BY <1>2, <1>3, <1>4, <1>5, <1>6 DEF Keeps, StateOK, PhaseOK, ShortOK
  <1>8. \A ev : Fits(e, ev) => FitsNext(e, ev)
    BY <1>2, <1>3, <1>4, <1>6 DEF Fits, FitsNext, AnswerOK, Commands
  <1>9. StatesInv' /\ AnswersInv' /\ SeriesInv'
    BY <1>2, <1>4, <1>7, <1>8, QuietPipe
  <1>10. Controls' = Controls /\ Halted' = Halted
    BY <1>2, ControlsKept
  <1> QED BY <1>4, <1>9, <1>10 DEF PipeInv

\* The controller takes a TRB: the device may be done with the transfer.
LEMMA TakeView ==
    ASSUME NEW r, RingOK(r), NEW p \in PendingType, NEW n \in 0 .. UsableSize,
           NEW c \in ContextType, NEW a \in BOOLEAN, ~a => EndpointOK(r, p, n, c),
           c.state = "running", c.deq # LinkSlot, Owned(r, c),
           NEW d, d.deq = c.deq + 1, d.ccs = c.ccs
    PROVE  LET v == ViewOf(r, p, n, c, a)
               w == ViewOf(r, p, n, d, a)
           IN  w = v \/ (v.phase = "active" /\ ~v.served /\ w = [v EXCEPT !.served = TRUE])
  <1> DEFINE v == ViewOf(r, p, n, c, a)
             w == ViewOf(r, p, n, d, a)
  <1>1. CASE a
    <2>1. w = v
      BY <1>1, Zenon DEF ViewOf
    <2> QED BY <2>1
  <1>2. CASE ~a
    <2>1. EndpointOK(r, p, n, c) /\ PositionOK(r, c)
      BY <1>2 DEF EndpointOK
    <2>2. Contents(r, c) # <<>>
      BY <2>1, ContentsTake
    <2>3. Occupancy(r, c) > 0
      BY <2>1, <2>2, ContentsOccupancy
    <2>4. p.active /\ p.phase = "None"
      BY <2>1, <2>3, HeadIndex, RunningEndpoint
    <2>5. ~Served(r, p, n, c, a) /\ Stage(p) = "active"
      BY <2>2, <2>4 DEF Served, Stage
    <2>6. v = [phase |-> "active", item |-> p.item, size |-> TrbLen * p.count, served |-> FALSE]
      BY <2>4, <2>5, UnservedView
    <2>7. CASE Served(r, p, n, d, a)
      <3>1. w = [phase |-> "active", item |-> p.item, size |-> TrbLen * p.count, served |-> TRUE]
        BY <2>4, <2>7, ServedView
      <3> DEFINE z == TrbLen * p.count
                 no == FALSE
                 yes == TRUE
      <3>2. /\ v = [phase |-> "active", item |-> p.item, size |-> z, served |-> no]
            /\ w = [phase |-> "active", item |-> p.item, size |-> z, served |-> yes]
        BY <2>6, <3>1
      <3> HIDE DEF v, w, z, no, yes
      <3>3. v.phase = "active" /\ v.served = no /\ w = [v EXCEPT !.served = yes]
        BY <3>2
      <3>4. v.phase = "active" /\ ~v.served /\ w = [v EXCEPT !.served = TRUE]
        BY <3>3 DEF no, yes
      <3> QED BY <3>4 DEF v, w
    <2>8. CASE ~Served(r, p, n, d, a)
      <3>1. w = [phase |-> "active", item |-> p.item, size |-> TrbLen * p.count, served |-> FALSE]
        BY <2>4, <2>5, <2>8, UnservedView
      <3> QED BY <2>6, <3>1
    <2> QED BY <2>7, <2>8
  <1> QED BY <1>1, <1>2

\* Such a step is one of the pipe.
LEMMA ServePipe ==
    ASSUME NEW e \in Endpoints, Only(e), Controls' = Controls, Halted' = Halted, call' = call,
           abandoned' = abandoned,
           NEW v, v = ViewOf(ring[e], pending[e], todo[e], ctl[e], abandoned[e]),
           NEW w, w = ViewOf(ring'[e], pending'[e], todo'[e], ctl'[e], abandoned'[e]),
           w = v \/ (v.phase = "active" /\ ~v.served /\ w = [v EXCEPT !.served = TRUE])
    PROVE  PipeStep
  <1>1. CASE w = v
    BY <1>1, PipeStutter
  <1>2. CASE v.phase = "active" /\ ~v.served /\ w = [v EXCEPT !.served = TRUE]
    <2>1. Transfers' = [Transfers EXCEPT ![e] = w] /\ Transfers[e] = v
      BY ViewOnly, ViewAt
    <2>2. Pipe!Serve(e)
      BY <1>2, <2>1 DEF Pipe!Serve
    <2> QED BY <2>2 DEF PipeStep, Pipe!PipeNext
  <1> QED BY <1>1, <1>2

\* The controller finishes a TRB, and may report it.
LEMMA TakenPipe ==
    ASSUME BulkInv, PipeInv, NEW e \in Endpoints, ctl[e].state = "running",
           ctl[e].deq # LinkSlot, Owned(ring[e], ctl[e]), NEW skip \in BOOLEAN,
           skip => e \in InEndpoints,
           ctl' = [ctl EXCEPT ![e].deq = @ + 1, ![e].skip = skip],
           UNCHANGED <<ring, pending, todo, control, ep0, call, abandoned>>,
           \/ events' = events
           \/ \E code \in {"Success", "Short"}, left \in 0 .. TrbLen :
                 /\ events' = Append(events, TransferEvent(e, ctl[e].deq, code, left))
                 /\ e \notin InEndpoints => left = 0 /\ code # "Short"
    PROVE  PipeInv' /\ PipeStep
  <1> DEFINE r == ring[e]
             p == pending[e]
             n == todo[e]
             c == ctl[e]
             a == abandoned[e]
             d == [c EXCEPT !.deq = c.deq + 1, !.skip = skip]
  <1>1. /\ RingOK(r) /\ p \in PendingType /\ n \in 0 .. UsableSize /\ c \in ContextType
        /\ a \in BOOLEAN
        /\ ~a => EndpointOK(r, p, n, c)
    BY Parts
  <1>2. c.deq \in Slots
    BY <1>1, RingAssumption DEF ContextType, Slots, LinkSlot
  <1>3. /\ d.deq = c.deq + 1 /\ d.ccs = c.ccs /\ d.cmd = c.cmd /\ d.skip = skip
        /\ d.state = "running"
    <2> HIDE DEF c
    <2>1. c \in ContextType /\ c.state = "running"
      BY <1>1 DEF c
    <2> QED BY <2>1 DEF ContextType
  <1>4. ctl' = [ctl EXCEPT ![e] = d]
    BY DEF BulkInv, TypeInv, BulkTypeOK
  <1> HIDE DEF d
  <1>5. ctl'[e] = d /\ Only(e)
    BY <1>4 DEF Only, BulkInv, TypeInv, BulkTypeOK
  <1>6. StateOK(e, r, p, n, c, a) /\ p.phase = "None"
    <2>1. StateOK(e, r, p, n, c, a)
      BY DEF PipeInv, StatesInv
    <2> QED BY <2>1 DEF StateOK, PhaseOK
  <1>7. Keeps(e)
    BY <1>3, <1>5, <1>6 DEF Keeps, StateOK, PhaseOK, ShortOK
  <1>8. \A ev : Fits(e, ev) => FitsNext(e, ev)
    BY <1>6, <1>5 DEF Fits, FitsNext, AnswerOK, Commands
  <1>9. WaitInv'
    BY WaitKept
  <1>10. ASSUME Controls' = Controls /\ Halted' = Halted PROVE PipeStep
    <2> DEFINE v == ViewOf(r, p, n, c, a)
               w == ViewOf(r, p, n, d, a)
    <2>1. w = v \/ (v.phase = "active" /\ ~v.served /\ w = [v EXCEPT !.served = TRUE])
      <3>1. c.state = "running" /\ c.deq # LinkSlot /\ Owned(r, c)
        OBVIOUS
      <3> HIDE DEF r, p, n, c, a
      <3> QED BY <1>1, <1>3, <3>1, TakeView
    <2>2. w = ViewOf(ring'[e], pending'[e], todo'[e], ctl'[e], abandoned'[e])
      BY <1>5
    <2> HIDE DEF w
    <2>3. v = ViewOf(ring[e], pending[e], todo[e], ctl[e], abandoned[e])
      OBVIOUS
    <2> HIDE DEF v
    <2> QED BY <1>5, <1>10, <2>1, <2>2, <2>3, ServePipe
  <1>11. CASE events' = events
    <2>1. StatesInv' /\ AnswersInv' /\ SeriesInv'
      BY <1>5, <1>7, <1>8, <1>11, QuietPipe
    <2>2. Controls' = Controls /\ Halted' = Halted
      BY <1>11, ControlsKept
    <2> QED BY <1>9, <1>10, <2>1, <2>2 DEF PipeInv
  <1>12. ASSUME NEW code \in {"Success", "Short"}, NEW left \in 0 .. TrbLen,
                events' = Append(events, TransferEvent(e, c.deq, code, left)),
                e \notin InEndpoints => left = 0 /\ code # "Short"
         PROVE  PipeInv' /\ PipeStep
    <2> DEFINE new == TransferEvent(e, c.deq, code, left)
    <2>1. /\ new \in EventType /\ new.ep = e /\ new.kind = "transfer" /\ new.code = code
          /\ new.residual = left
      BY <1>2, BulkAssumption DEF TransferEvent, EventType
    <2>2. events' = Append(events, new)
      BY <1>12
    <2> HIDE DEF new
    <2>3. ResidualOK(new)
      BY <1>12, <2>1 DEF ResidualOK
    <2>4. FitsNext(e, new)
      BY <1>6, <2>1 DEF FitsNext, AnswerOK, Commands
    <2>5. \A ev : Fits(e, ev) => SeriesOK(ev, new)
      BY <2>1 DEF Fits, AnswerOK, SeriesOK, Commands
    <2>6. StatesInv' /\ AnswersInv' /\ SeriesInv'
      BY <1>5, <1>7, <1>8, <2>1, <2>2, <2>3, <2>4, <2>5, PostPipe
    <2>7. Controls' = Controls /\ Halted' = Halted
      BY <2>1, <2>2, ControlsKept
    <2> QED BY <1>9, <1>10, <2>6, <2>7 DEF PipeInv
  <1> QED BY <1>11, <1>12

\* The controller fails to execute a TRB: the class driver sees it later.
LEMMA HaltPipe ==
    ASSUME BulkInv, PipeInv, NEW e \in Endpoints, ctl[e].state = "running",
           ctl[e].deq # LinkSlot, Owned(ring[e], ctl[e]),
           ctl' = [ctl EXCEPT ![e].state = "halted"],
           UNCHANGED <<ring, pending, todo, control, ep0, call, abandoned>>,
           events' = Append(events, TransferEvent(e, ctl[e].deq, "Error", 0))
    PROVE  PipeInv' /\ PipeStep
  <1> DEFINE r == ring[e]
             p == pending[e]
             n == todo[e]
             c == ctl[e]
             a == abandoned[e]
             d == [c EXCEPT !.state = "halted"]
             new == TransferEvent(e, ctl[e].deq, "Error", 0)
  <1>1. /\ RingOK(r) /\ p \in PendingType /\ c \in ContextType
        /\ ~a => EndpointOK(r, p, n, c)
    BY Parts
  <1>2. c.deq \in Slots
    BY <1>1, RingAssumption DEF ContextType, Slots, LinkSlot
  <1>3. /\ d.deq = c.deq /\ d.ccs = c.ccs /\ d.cmd = c.cmd /\ d.skip = c.skip
        /\ d.state = "halted"
    <2> HIDE DEF c
    <2> QED BY <1>1 DEF ContextType
  <1>4. ctl' = [ctl EXCEPT ![e] = d]
    BY DEF BulkInv, TypeInv, BulkTypeOK
  <1>5. /\ new \in EventType /\ new.ep = e /\ new.kind = "transfer" /\ new.code = "Error"
        /\ new.residual = 0
    BY <1>2 DEF TransferEvent, EventType
  <1>6. events' = Append(events, new)
    OBVIOUS
  <1> HIDE DEF d, new
  <1>7. HeadSlot(d) = HeadSlot(c) /\ HeadCycle(d) = HeadCycle(c)
    BY <1>3 DEF HeadSlot, HeadCycle
  <1>8. /\ Only(e) /\ ctl'[e] = d /\ WaitInv' /\ Occupancy(r, d) = Occupancy(r, c)
        /\ Controls' = Controls /\ Halted' = Halted => PipeStep
    BY <1>4, <1>7, StillPipe
  <1>9. StateOK(e, r, p, n, c, a) /\ p.phase = "None"
    <2>1. StateOK(e, r, p, n, c, a)
      BY DEF PipeInv, StatesInv
    <2> QED BY <2>1 DEF StateOK, PhaseOK
  <1>10. ~a => Occupancy(r, d) > 0
    <2>1. ASSUME ~a PROVE Occupancy(r, c) > 0
      <3> DEFINE t == [c EXCEPT !.deq = c.deq + 1]
      <3>1. t.deq = c.deq + 1 /\ t.ccs = c.ccs
        BY <1>1 DEF ContextType
      <3>2. PositionOK(r, c)
        BY <1>1, <2>1 DEF EndpointOK
      <3> HIDE DEF t
      <3> QED BY <1>1, <3>1, <3>2, TakePosition
    <2> QED BY <1>8, <2>1
  <1>11. Keeps(e)
    BY <1>3, <1>8, <1>9, <1>10 DEF Keeps, StateOK, PhaseOK, ShortOK
  <1>12. \A ev : Fits(e, ev) => FitsNext(e, ev) /\ SeriesOK(ev, new)
    BY <1>5, <1>8, <1>9 DEF Fits, FitsNext, AnswerOK, SeriesOK, Commands
  <1>13. ResidualOK(new) /\ FitsNext(e, new)
    BY <1>3, <1>5, <1>8, <1>9, BulkAssumption DEF ResidualOK, FitsNext, AnswerOK, Commands
  <1>14. StatesInv' /\ AnswersInv' /\ SeriesInv'
    BY <1>5, <1>6, <1>8, <1>11, <1>12, <1>13, PostPipe
  <1>15. Controls' = Controls /\ Halted' = Halted
    BY <1>5, <1>6, ControlsKept
  <1> QED BY <1>8, <1>14, <1>15 DEF PipeInv

\* Whatever the controller does with a TRB.
LEMMA ExecuteTrbPipe ==
    ASSUME BulkInv, PipeInv, NEW e \in Endpoints, ExecuteTrb(e)
    PROVE  PipeInv' /\ PipeStep
  <1> DEFINE c == ctl[e]
             t == ring[e].buf[c.deq]
  <1>1. /\ c.state = "running" /\ c.deq # LinkSlot /\ Owned(ring[e], c)
        /\ UNCHANGED <<ring, pending, todo, control, ep0, call, abandoned>>
    BY DEF ExecuteTrb
  <1>2. c.skip => e \in InEndpoints
    BY DEF PipeInv, StatesInv, StateOK, ShortOK
  <1>3. t.last \in BOOLEAN /\ (~t.last) \in BOOLEAN
    BY <1>1, Parts, RingAssumption DEF RingType, ContextType, Slots, LinkSlot
  <1>4. 0 \in 0 .. TrbLen /\ \A left \in 1 .. TrbLen : left \in 0 .. TrbLen
    BY BulkAssumption
  <1>5. CASE /\ ctl' = [ctl EXCEPT ![e].deq = @ + 1, ![e].skip = FALSE]
             /\ IF t.last THEN Post(TransferEvent(e, c.deq, "Success", 0)) ELSE UNCHANGED events
    <2>1. \/ events' = events
          \/ \E code \in {"Success", "Short"}, left \in 0 .. TrbLen :
                 /\ events' = Append(events, TransferEvent(e, c.deq, code, left))
                 /\ e \notin InEndpoints => left = 0 /\ code # "Short"
      BY <1>4, <1>5 DEF Post
    <2> QED BY <1>1, <1>5, <2>1, TakenPipe
  <1>6. ASSUME e \in InEndpoints, NEW left \in 1 .. TrbLen,
               ctl' = [ctl EXCEPT ![e].deq = @ + 1, ![e].skip = ~t.last],
               Post(TransferEvent(e, c.deq, "Short", left))
        PROVE  PipeInv' /\ PipeStep
    <2>1. \E code \in {"Success", "Short"}, k \in 0 .. TrbLen :
                 /\ events' = Append(events, TransferEvent(e, c.deq, code, k))
                 /\ e \notin InEndpoints => k = 0 /\ code # "Short"
      BY <1>4, <1>6 DEF Post
    <2> QED BY <1>1, <1>3, <1>6, <2>1, TakenPipe
  <1>7. CASE /\ c.skip
             /\ ctl' = [ctl EXCEPT ![e].deq = @ + 1, ![e].skip = ~t.last]
             /\ IF t.last
                THEN \E code \in {"Success", "Short"}, left \in 0 .. TrbLen :
                        Post(TransferEvent(e, c.deq, code, left))
                ELSE UNCHANGED events
    <2>1. \/ events' = events
          \/ \E code \in {"Success", "Short"}, left \in 0 .. TrbLen :
                 /\ events' = Append(events, TransferEvent(e, c.deq, code, left))
                 /\ e \notin InEndpoints => left = 0 /\ code # "Short"
      BY <1>2, <1>7 DEF Post
    <2> QED BY <1>1, <1>2, <1>3, <1>7, <2>1, TakenPipe
  <1>8. CASE /\ ctl' = [ctl EXCEPT ![e].state = "halted"]
             /\ Post(TransferEvent(e, c.deq, "Error", 0))
    BY <1>1, <1>8, HaltPipe DEF Post
  <1> QED BY <1>5, <1>6, <1>7, <1>8 DEF ExecuteTrb

\* The controller answers a command: the class driver sees nothing of it.
LEMMA ExecuteCommandPipe ==
    ASSUME BulkInv, PipeInv, NEW e \in Endpoints, ExecuteCommand(e)
    PROVE  PipeInv' /\ PipeStep
  <1> DEFINE r == ring[e]
             p == pending[e]
             n == todo[e]
             c == ctl[e]
             a == abandoned[e]
             d == ctl'[e]
  <1>1. c \in ContextType /\ ctl \in [Endpoints -> ContextType] /\ p \in PendingType
    BY Parts DEF BulkInv, TypeInv, BulkTypeOK
  <1>2. /\ c.cmd # "none" /\ c.cmd \in Commands
        /\ UNCHANGED <<ring, pending, todo, control, ep0, call, abandoned>>
    BY <1>1 DEF ExecuteCommand, Commands, ContextType
  <1>3. PICK ok \in BOOLEAN :
          /\ events' = Append(events, CompletionEvent(c.cmd, e, ok))
          /\ ctl' = [ctl EXCEPT ![e] =
                CASE ok /\ @.cmd = "ResetEndpoint" ->
                        [@ EXCEPT !.cmd = "none", !.state = "stopped"]
                  [] ok /\ @.cmd = "SetDequeuePointer" ->
                        [@ EXCEPT !.cmd = "none", !.skip = FALSE,
                                  !.deq = pending[e].next, !.ccs = pending[e].next_cycle]
                  [] OTHER -> [@ EXCEPT !.cmd = "none"]]
    BY DEF ExecuteCommand, Post
  <1> DEFINE new == CompletionEvent(c.cmd, e, ok)
  <1>4. /\ new \in EventType /\ new.ep = e /\ new.kind = c.cmd /\ new.ok = ok
        /\ new.kind # "transfer" /\ new.kind # "control"
    BY <1>2 DEF CompletionEvent, EventType, Commands
  <1>5. events' = Append(events, new)
    BY <1>3
  <1>6. /\ d.cmd = "none" /\ (d.skip => c.skip)
        /\ d.state = IF ok /\ c.cmd = "ResetEndpoint" THEN "stopped" ELSE c.state
        /\ ~(ok /\ c.cmd = "SetDequeuePointer") => d.deq = c.deq /\ d.ccs = c.ccs
    <2>1. CASE ok /\ c.cmd = "ResetEndpoint"
      <3>1. d = [c EXCEPT !.cmd = "none", !.state = "stopped"]
        BY <1>1, <1>3, <2>1
      <3> HIDE DEF c, d
      <3> QED BY <1>1, <2>1, <3>1 DEF ContextType
    <2>2. CASE ok /\ c.cmd = "SetDequeuePointer"
      <3>1. d = [c EXCEPT !.cmd = "none", !.skip = FALSE, !.deq = p.next, !.ccs = p.next_cycle]
        BY <1>1, <1>3, <2>2
      <3> HIDE DEF c, d, p
      <3> QED BY <1>1, <2>2, <3>1 DEF ContextType
    <2>3. CASE ~ok \/ c.cmd \notin {"ResetEndpoint", "SetDequeuePointer"}
      <3>1. d = [c EXCEPT !.cmd = "none"]
        BY <1>1, <1>3, <2>3
      <3> HIDE DEF c, d
      <3> QED BY <1>1, <2>3, <3>1 DEF ContextType
    <2> QED BY <2>1, <2>2, <2>3
  <1>7. Only(e)
    BY <1>2, <1>3, <1>1 DEF Only
  <1> HIDE DEF d, new
  <1>8. /\ StateOK(e, r, p, n, c, a) /\ p.phase = c.cmd /\ p.phase # "None"
        /\ p.active /\ n = 0 /\ c.state \in {"halted", "stopped"}
        /\ p.phase # "ResetEndpoint" => c.state = "stopped"
    <2>1. StateOK(e, r, p, n, c, a)
      BY DEF PipeInv, StatesInv
    <2>2. p.phase = c.cmd /\ p.phase # "None"
      BY <1>2, <2>1 DEF StateOK, PhaseOK, Commands
    <2> QED BY <2>1, <2>2 DEF StateOK, PhaseOK
  <1>9. ~a /\ d.state = "halted" => Occupancy(r, d) > 0
    <2> SUFFICES ASSUME ~a, d.state = "halted" PROVE Occupancy(r, d) > 0
      OBVIOUS
    <2>1. c.state = "halted" /\ ~(ok /\ c.cmd = "SetDequeuePointer")
      BY <1>6, <1>8
    <2>2. HeadSlot(d) = HeadSlot(c) /\ HeadCycle(d) = HeadCycle(c)
      BY <1>6, <2>1 DEF HeadSlot, HeadCycle
    <2>3. Occupancy(r, d) = Occupancy(r, c)
      BY <2>2 DEF Occupancy
    <2> QED BY <1>8, <2>1, <2>3 DEF StateOK
  <1>10. Keeps(e)
    <2>1. StateOK(e, r, p, n, d, a)
      BY <1>6, <1>8, <1>9 DEF StateOK, PhaseOK, ShortOK
    <2> QED BY <1>2, <2>1 DEF Keeps, d
  <1>11. \A ev : Fits(e, ev) => FitsNext(e, ev) /\ SeriesOK(ev, new)
    BY <1>2, <1>4, <1>8 DEF Fits, FitsNext, AnswerOK, SeriesOK, Commands
  <1>12. ResidualOK(new) /\ FitsNext(e, new)
    <2>1. AnswerOK(p, d, new)
      BY <1>4, <1>6, <1>8 DEF AnswerOK
    <2> QED BY <1>2, <1>4, <2>1 DEF ResidualOK, FitsNext, d
  <1>13. StatesInv' /\ AnswersInv' /\ SeriesInv'
    BY <1>4, <1>5, <1>7, <1>10, <1>11, <1>12, PostPipe
  <1>14. WaitInv'
    BY <1>2, WaitKept
  <1>15. PipeStep
    <2>1. Controls' = Controls /\ Halted' = Halted
      BY <1>2, <1>4, <1>5, ControlsKept
    <2>2. ViewOf(r, p, n, d, a) = ViewOf(r, p, n, c, a)
      BY <1>8, Zenon DEF ViewOf
    <2> QED BY <1>2, <1>7, <2>1, <2>2, PipeStutter DEF d
  <1> QED BY <1>13, <1>14, <1>15 DEF PipeInv

\* Nothing of the endpoints changes.
LEMMA IdlePipe ==
    ASSUME BulkInv, PipeInv, UNCHANGED <<ring, pending, todo, ctl, events, abandoned>>
    PROVE  /\ StatesInv' /\ AnswersInv' /\ SeriesInv' /\ Transfers' = Transfers
           /\ Asked(events') = Asked(events) /\ (ep0' = ep0 => Halted' = Halted)
  BY DEF PipeInv, StatesInv, AnswersInv, SeriesInv, Transfers, Halted

\* Moving the first element of one sequence to the end of the one before it.
LEMMA MoveHead ==
    ASSUME NEW R, NEW s \in Seq(R), NEW t \in Seq(R), t # <<>>
    PROVE  Append(s, Head(t)) \o Tail(t) = s \o t
  <1>1. /\ Append(s, Head(t)) \o Tail(t) \in Seq(R) /\ s \o t \in Seq(R)
        /\ Len(Append(s, Head(t)) \o Tail(t)) = Len(s \o t)
    OBVIOUS
  <1>2. \A i \in 1 .. Len(s \o t) : (Append(s, Head(t)) \o Tail(t))[i] = (s \o t)[i]
    OBVIOUS
  <1> QED BY <1>1, <1>2, SeqEqual

\* The device answers a control request: the driver waits for it still.
LEMMA AnsweredPipe ==
    ASSUME BulkInv, PipeInv, control # <<>>, ~ep0, control' = Tail(control), NEW ok \in BOOLEAN,
           ep0' = ~ok, UNCHANGED <<ring, pending, todo, ctl, call, abandoned>>,
           events' = Append(events, [kind |-> "control", req |-> Head(control).req,
                                     ep |-> Head(control).ep, ok |-> ok])
    PROVE  PipeInv' /\ PipeStep
  <1>1. control \in Seq(RequestType) /\ events \in Seq(EventType)
    BY DEF BulkInv, TypeInv
  <1>2. /\ Head(control) \in RequestType
        /\ Head(control) = [req |-> Head(control).req, ep |-> Head(control).ep]
    <2>1. Head(control) \in RequestType
      BY <1>1
    <2> QED BY <2>1 DEF RequestType
  <1> DEFINE new == [kind |-> "control", req |-> Head(control).req,
                     ep |-> Head(control).ep, ok |-> ok]
             e == new.ep
  <1>4. /\ new \in EventType /\ new.kind = "control" /\ events' = Append(events, new)
        /\ e \in Endpoints /\ [req |-> new.req, ep |-> new.ep] = Head(control)
    BY <1>2 DEF EventType, RequestType
  <1> HIDE DEF new
  <1>5. Only(e) /\ Keeps(e)
    BY <1>1, <1>4 DEF Only, Keeps, PipeInv, StatesInv
  <1>6. \A ev : Fits(e, ev) => FitsNext(e, ev) /\ SeriesOK(ev, new)
    BY <1>1, <1>4 DEF Fits, FitsNext, SeriesOK, Commands
  <1>7. ResidualOK(new) /\ FitsNext(e, new)
    BY <1>4 DEF ResidualOK, FitsNext, AnswerOK, Commands
  <1>8. StatesInv' /\ AnswersInv' /\ SeriesInv'
    BY <1>4, <1>5, <1>6, <1>7, PostPipe
  <1>9. WaitInv'
    BY <1>1, WaitKept
  <1>10. Controls' = Controls
    <2>1. Asked(events') = Append(Asked(events), Head(control))
      BY <1>1, <1>4, AskedAnswer
    <2>2. Append(Asked(events), Head(control)) \o Tail(control) = Asked(events) \o control
      BY <1>1, ControlsTyped, MoveHead
    <2> QED BY <1>1, <2>1, <2>2 DEF Controls
  <1>11. Halted' = Halted
    <2>1. Len(events) + 1 \in Places(events')
      BY <1>1, <1>4, PostedEvents DEF Places
    <2> QED BY <2>1 DEF Halted
  <1>12. PipeStep
    BY <1>1, <1>4, <1>5, <1>10, <1>11, PipeStutter
  <1> QED BY <1>8, <1>9, <1>12 DEF PipeInv

\* The device answers a control request, or fails it and the driver is not told.
LEMMA ExecuteControlPipe ==
    ASSUME BulkInv, PipeInv, ExecuteControl
    PROVE  PipeInv' /\ PipeStep
  <1>1. control # <<>> /\ ~ep0 /\ UNCHANGED <<ring, pending, todo, ctl, call, abandoned>>
    BY DEF ExecuteControl
  <1>2. CASE \E ok \in BOOLEAN :
                /\ Post([kind |-> "control", req |-> Head(control).req,
                         ep |-> Head(control).ep, ok |-> ok])
                /\ control' = Tail(control) /\ ep0' = ~ok
    BY <1>1, <1>2, AnsweredPipe DEF Post
  <1>3. CASE ep0' = TRUE /\ UNCHANGED <<control, events>>
    <2>1. /\ StatesInv' /\ AnswersInv' /\ SeriesInv' /\ Transfers' = Transfers
          /\ Asked(events') = Asked(events)
      BY <1>1, <1>3, IdlePipe
    <2>2. WaitInv'
      BY <1>1, WaitKept
    <2>3. Controls' = Controls
      BY <1>3, <2>1 DEF Controls
    <2>4. Halted = FALSE /\ Halted' = (Places(events) = {})
      BY <1>1, <1>3 DEF Halted
    <2>5. ASSUME Places(events) # {} PROVE PipeStep
      <3>1. Halted' = Halted
        BY <2>4, <2>5
      <3> QED BY <1>1, <2>1, <2>3, <3>1 DEF PipeStep
    <2>6. ASSUME Places(events) = {} PROVE PipeStep
      <3>1. Asked(events) = <<>>
        BY <2>6, NothingAsked DEF BulkInv, TypeInv
      <3>2. Controls = control
        <4>1. control \in Seq(RequestType)
          BY DEF BulkInv, TypeInv
        <4> QED BY <3>1, <4>1 DEF Controls
      <3>3. Halted' = TRUE
        BY <2>4, <2>6
      <3>4. Controls # <<>> /\ ~Halted
        BY <1>1, <2>4, <3>2
      <3>5. Pipe!FailsInSilence
        BY <1>1, <2>1, <2>3, <3>3, <3>4, Zenon DEF Pipe!FailsInSilence
      <3> QED BY <3>5 DEF PipeStep, Pipe!PipeNext
    <2> QED BY <2>1, <2>2, <2>5, <2>6 DEF PipeInv
  <1> QED BY <1>2, <1>3 DEF ExecuteControl

\* A class driver submits a transfer.
LEMMA SubmitPipe ==
    ASSUME BulkInv, PipeInv, NEW e \in Endpoints, NEW item \in Items, NEW size \in 1 .. MaxTrbs,
           Submit(e, item, size)
    PROVE  PipeInv' /\ PipeStep
  <1> DEFINE r == ring[e]
             p == pending[e]
             c == ctl[e]
             a == abandoned[e]
             q == [NoPending EXCEPT !.active = TRUE, !.item = item, !.count = size]
  <1>1. p \in PendingType /\ c \in ContextType
    BY Parts
  <1>2. /\ ~p.active /\ todo[e] = 0 /\ ~call.done
        /\ pending' = [pending EXCEPT ![e] = q] /\ todo' = [todo EXCEPT ![e] = size]
        /\ UNCHANGED <<ring, ctl, control, ep0, events, call, abandoned>>
    BY DEF Submit, CanSubmit, Accepts, QueueBulkTransfer, hwVars
  <1>3. /\ q.active /\ q.item = item /\ q.count = size /\ q.phase = "None" /\ ~q.short_seen
    BY DEF NoPending
  <1> HIDE DEF q
  <1>4. pending'[e] = q /\ todo'[e] = size /\ Only(e)
    BY <1>2 DEF Only, BulkInv, TypeInv, BulkTypeOK
  <1>5. /\ StateOK(e, r, p, 0, c, a) /\ p.phase = "None" /\ c.cmd = "none"
    <2>1. StateOK(e, r, p, 0, c, a)
      BY <1>2 DEF PipeInv, StatesInv
    <2> QED BY <1>1, <1>2, <2>1 DEF StateOK, TrackOK, PhaseOK, ContextType
  <1>6. size \in Nat /\ size >= 1 /\ size # 0
    BY BulkAssumption
  <1>7. TrackOK(r, q, size)
    BY <1>3, <1>6 DEF TrackOK
  <1>8. Keeps(e)
    BY <1>2, <1>3, <1>4, <1>5, <1>7 DEF Keeps, StateOK, PhaseOK, ShortOK
  <1>9. \A ev : Fits(e, ev) => FitsNext(e, ev)
    BY <1>2, <1>3, <1>4, <1>5 DEF Fits, FitsNext, AnswerOK, Commands
  <1>10. StatesInv' /\ AnswersInv' /\ SeriesInv'
    BY <1>2, <1>4, <1>8, <1>9, QuietPipe
  <1>11. WaitInv'
    <2>1. \A f \in Endpoints : pending[f].phase = "ClearEndpointHalt" =>
                               pending'[f].phase = pending[f].phase
      BY <1>4, <1>5 DEF Only
    <2> QED BY <1>2, <2>1, WaitKept
  <1>12. PipeStep
    <2> DEFINE w == [phase |-> "active", item |-> item, size |-> size * TrbLen, served |-> FALSE]
    <2>1. TrbLen * size = size * TrbLen
      BY <1>6, BulkAssumption
    <2>2. ~Served(r, q, size, c, a) /\ Stage(q) = "active"
      BY <1>3, <1>6 DEF Served, Stage
    <2>3. ViewOf(r, q, size, c, a) = w
      BY <1>3, <2>1, <2>2, UnservedView
    <2>4. ViewOf(r, p, todo[e], c, a) = Pipe!NoXfer
      BY <1>2, IdleView
    <2>5. Transfers[e].phase = "free"
      BY <2>4, ViewAt DEF Pipe!NoXfer
    <2>6. Transfers' = [Transfers EXCEPT ![e] = w]
      BY <1>2, <1>4, <2>3, ViewOnly
    <2>7. Controls' = Controls /\ Halted' = Halted
      BY <1>2, ControlsKept
    <2>8. Pipe!CanSubmit /\ Pipe!Submit(e, item, size * TrbLen)
      BY <1>2, <2>5, <2>6 DEF Pipe!CanSubmit, Pipe!Submit, Pipe!Accepts
    <2>9. size * TrbLen \in {m * TrbLen : m \in 1 .. MaxTrbs}
      OBVIOUS
    <2> QED BY <1>2, <2>7, <2>8, <2>9 DEF PipeStep, Pipe!PipeNext
  <1> QED BY <1>10, <1>11, <1>12 DEF PipeInv

\* A class driver sends a control request, or returns from a call.
LEMMA AnswerPipe ==
    ASSUME BulkInv, PipeInv,
           (\E e \in Endpoints : SendClearHalt(e)) \/ (\E err \in BOOLEAN : Answer(err))
    PROVE  PipeInv' /\ PipeStep
  <1>1. UNCHANGED <<ring, pending, todo, ctl, ep0, events, abandoned>>
    BY DEF SendClearHalt, Answer, hwVars
  <1>2. /\ StatesInv' /\ AnswersInv' /\ SeriesInv' /\ Transfers' = Transfers
        /\ Asked(events') = Asked(events) /\ Halted' = Halted
    BY <1>1, IdlePipe
  <1>3. events \in Seq(EventType) /\ control \in Seq(RequestType)
    BY DEF BulkInv, TypeInv
  <1>4. ASSUME NEW e \in Endpoints, SendClearHalt(e) PROVE PipeInv' /\ PipeStep
    <2> DEFINE q == [req |-> "ClearHalt", ep |-> e]
    <2>1. /\ ~call.done /\ Len(Controls) < MaxControl /\ control' = Append(control, q)
          /\ call' = call /\ ep0' = ep0
      BY <1>4 DEF SendClearHalt, CanSubmit
    <2>2. q \in RequestType
      BY DEF RequestType
    <2> HIDE DEF q
    <2>3. Controls' = Append(Controls, q)
      <3>1. Asked(events) \in Seq(RequestType)
        BY <1>3, ControlsTyped
      <3> DEFINE s == Asked(events)
      <3> HIDE DEF s
      <3>2. s \o Append(control, q) = Append(s \o control, q)
        <4>1. /\ s \o Append(control, q) \in Seq(RequestType)
              /\ Append(s \o control, q) \in Seq(RequestType)
              /\ Len(s \o Append(control, q)) = Len(Append(s \o control, q))
          BY <1>3, <2>2, <3>1 DEF s
        <4>2. \A i \in 1 .. Len(Append(s \o control, q)) :
                 (s \o Append(control, q))[i] = Append(s \o control, q)[i]
          BY <1>3, <2>2, <3>1 DEF s
        <4> QED BY <4>1, <4>2, SeqEqual
      <3> QED BY <1>2, <2>1, <3>2 DEF Controls, s
    <2>4. WaitInv'
      BY <1>1, <2>1, WaitKept
    <2>5. Pipe!CanSubmit /\ Pipe!Send("ClearHalt", e)
      BY <2>1, <2>3 DEF Pipe!CanSubmit, Pipe!Send, q
    <2>6. PipeStep
      BY <1>1, <1>2, <2>1, <2>5 DEF PipeStep, Pipe!PipeNext
    <2> QED BY <1>2, <2>4, <2>6 DEF PipeInv
  <1>5. ASSUME NEW err \in BOOLEAN, Answer(err) PROVE PipeInv' /\ PipeStep
    <2>1. /\ call # NoCall /\ ~call.done /\ control' = control /\ ep0' = ep0
          /\ call' = [call EXCEPT !.done = TRUE, !.err = err]
      BY <1>5 DEF Answer, hwVars
    <2>2. call \in CallType
      BY <2>1 DEF BulkInv, TypeInv
    <2>3. call'.fn = call.fn /\ call'.ep = call.ep
      BY <2>1, <2>2 DEF CallType
    <2>4. WaitInv'
      BY <1>1, <2>3 DEF PipeInv, WaitInv
    <2>5. Controls' = Controls /\ Halted' = Halted
      BY <1>2, <2>1 DEF Controls
    <2>6. call # Pipe!NoCall
      BY <2>1 DEF NoCall, Pipe!NoCall
    <2>7. PipeStep
      BY <1>1, <1>2, <2>1, <2>5, <2>6 DEF PipeStep, Pipe!PipeNext
    <2> QED BY <1>2, <2>4, <2>7 DEF PipeInv
  <1> QED BY <1>4, <1>5

-----------------------------------------------------------------------------
(* The handlers                                                            *)

\* A transfer the device is not done with enters a stage of its recovery.
LEMMA EnterView ==
    ASSUME NEW e \in Endpoints, Only(e), pending[e].active,
           ~Served(ring[e], pending[e], todo[e], ctl[e], abandoned[e]),
           pending'[e].active, pending'[e].phase # "None",
           pending'[e].item = pending[e].item, pending'[e].count = pending[e].count
    PROVE  /\ Transfers[e].phase = Stage(pending[e]) /\ ~Transfers[e].served
           /\ Pipe!Enter(e, Stage(pending'[e]))
           /\ Stage(pending'[e]) = Stage(pending[e]) => Transfers' = Transfers
  <1> DEFINE f == Stage(pending[e])
             g == Stage(pending'[e])
             i == pending[e].item
             z == TrbLen * pending[e].count
             no == FALSE
             v == Transfers[e]
             w == Transfers'[e]
  <1>1. v = [phase |-> f, item |-> i, size |-> z, served |-> FALSE]
    <2> DEFINE r == ring[e]
               p == pending[e]
               n == todo[e]
               c == ctl[e]
               a == abandoned[e]
    <2>1. p.active /\ ~Served(r, p, n, c, a)
      OBVIOUS
    <2> HIDE DEF r, p, n, c, a
    <2>2. ViewOf(r, p, n, c, a)
              = [phase |-> Stage(p), item |-> p.item, size |-> TrbLen * p.count, served |-> FALSE]
      BY <2>1, UnservedView
    <2> QED BY <2>2, ViewAt DEF r, p, n, c, a
  <1>2. ~Served(ring'[e], pending'[e], todo'[e], ctl'[e], abandoned'[e])
    BY DEF Served
  <1> DEFINE s == ring'[e]
             q == pending'[e]
             m == todo'[e]
             d == ctl'[e]
             b == abandoned'[e]
  <1>3. q.active /\ ~Served(s, q, m, d, b)
    BY <1>2
  <1> HIDE DEF s, q, m, d, b
  <1>4. ViewOf(s, q, m, d, b)
            = [phase |-> Stage(q), item |-> q.item, size |-> TrbLen * q.count, served |-> FALSE]
    BY <1>3, UnservedView
  <1>5. w = [phase |-> g, item |-> i, size |-> z, served |-> FALSE]
    BY <1>4, ViewAt DEF s, q, m, d, b
  <1>6. Transfers' = [Transfers EXCEPT ![e] = w]
    BY ViewOnly, ViewAt
  <1>7. v = [phase |-> f, item |-> i, size |-> z, served |-> no]
        /\ w = [phase |-> g, item |-> i, size |-> z, served |-> no]
    BY <1>1, <1>5
  <1> HIDE DEF f, g, i, z, v, no
  <1>8. v.phase = f /\ v.served = no /\ [v EXCEPT !.phase = g]
            = [phase |-> g, item |-> i, size |-> z, served |-> no]
    BY <1>7
  <1>9. Transfers' = [Transfers EXCEPT ![e].phase = g]
    <2>1. w = [v EXCEPT !.phase = g]
      BY <1>7, <1>8
    <2> QED BY <1>6, <2>1 DEF v
  <1>10. g = f => Transfers' = Transfers
    <2>1. g = f => w = v
      BY <1>7
    <2>2. Transfers = [Transfers EXCEPT ![e] = v]
      BY DEF v, Transfers
    <2> QED BY <1>6, <2>1, <2>2
  <1> QED BY <1>8, <1>9, <1>10 DEF Pipe!Enter, v, f, g, no

\* A transfer that is over.
LEMMA FreeView ==
    ASSUME NEW e \in Endpoints, Only(e), ~pending'[e].active
    PROVE  Pipe!Free(e)
  <1> DEFINE s == ring'[e]
             q == pending'[e]
             m == todo'[e]
             d == ctl'[e]
             b == abandoned'[e]
  <1>1. ~q.active
    OBVIOUS
  <1> HIDE DEF s, q, m, d, b
  <1>2. ViewOf(s, q, m, d, b) = Pipe!NoXfer
    BY <1>1, IdleView
  <1> QED BY <1>2, ViewOnly DEF Pipe!Free, s, q, m, d, b

\* A larger factor, a larger product.
LEMMA TimesGrows ==
    ASSUME NEW a \in Nat, NEW x \in Nat, NEW y \in Nat, x <= y
    PROVE  a * x \in Nat /\ a * y \in Nat /\ a * x <= a * y
  <1>1. y - x \in Nat /\ a * (y - x) \in Nat
    OBVIOUS
  <1>2. a * y = a * x + a * (y - x)
    OBVIOUS
  <1> QED BY <1>1, <1>2

\* A reported length is one of the transfer's buffer, and that of the whole buffer
\* when its last TRB is reported with nothing left.
LEMMA LengthBound ==
    ASSUME NEW p \in PendingType, NEW i \in Slots, TrbIndex(p.first, i) < p.count,
           NEW left \in 0 .. TrbLen
    PROVE  LET len == TrbLen * TrbIndex(p.first, i) + TrbLen - left
           IN  /\ len \in 0 .. TrbLen * p.count
               /\ TrbIndex(p.first, i) = p.count - 1 /\ left = 0 => len = TrbLen * p.count
  <1> DEFINE x == TrbIndex(p.first, i)
             y == p.count
  <1>1. x \in Nat /\ y \in Nat /\ TrbLen \in Nat
    BY RingAssumption, BulkAssumption DEF TrbIndex, PendingType, Slots, UsableSize
  <1>2. x < y
    OBVIOUS
  <1> HIDE DEF x, y
  <1>3. x + 1 \in Nat /\ x + 1 <= y
    BY <1>1, <1>2
  <1>4. TrbLen * x \in Int /\ TrbLen * (x + 1) = TrbLen * x + TrbLen
    BY <1>1, OneMore
  <1>5. TrbLen * (x + 1) <= TrbLen * y /\ TrbLen * y \in Nat
    BY <1>1, <1>3, TimesGrows
  <1>6. TrbLen * x \in Nat
    BY <1>1
  <1>7. TrbLen * x + TrbLen - left \in 0 .. TrbLen * y
    BY <1>1, <1>4, <1>5, <1>6
  <1>8. x = y - 1 /\ left = 0 => TrbLen * x + TrbLen - left = TrbLen * y
    <2>1. x = y - 1 => x + 1 = y
      BY <1>1
    <2> QED BY <1>1, <1>4, <1>6, <2>1
  <1> QED BY <1>7, <1>8 DEF x, y

\* What a handler finds of its event's endpoint.
LEMMA HandlerFacts ==
    ASSUME BulkInv, PipeInv, NEW kind, Event(kind)
    PROVE  LET ev == Head(events)
               e == ev.ep
           IN  /\ events # <<>> /\ ev \in EventType /\ ev.kind = kind /\ e \in Endpoints
               /\ call = NoCall /\ todo[e] = 0 /\ events \in Seq(EventType)
               /\ pending[e] \in PendingType /\ ctl[e] \in ContextType /\ abandoned[e] \in BOOLEAN
               /\ RingOK(ring[e])
               /\ StateOK(e, ring[e], pending[e], 0, ctl[e], abandoned[e])
               /\ Fits(e, ev) /\ ResidualOK(ev)
  <1> DEFINE ev == Head(events)
             e == ev.ep
  <1>1. /\ events # <<>> /\ ev \in EventType /\ ev.kind = kind /\ e \in Endpoints
        /\ call = NoCall /\ todo[e] = 0
    BY HeadEvent
  <1>2. events \in Seq(EventType)
    BY DEF BulkInv, TypeInv
  <1>3. ev = events[1] /\ 1 \in 1 .. Len(events)
    BY <1>1, <1>2, TakenEvents
  <1>4. Fits(e, ev) /\ ResidualOK(ev)
    BY <1>3 DEF PipeInv, AnswersInv, Fits
  <1>5. StateOK(e, ring[e], pending[e], 0, ctl[e], abandoned[e])
    BY <1>1 DEF PipeInv, StatesInv
  <1> QED BY <1>1, <1>2, <1>4, <1>5, Parts

\* A handler drops an event: the class driver sees nothing of it.
LEMMA DropPipe ==
    ASSUME BulkInv, PipeInv, NEW kind, Event(kind), kind # "control", events' = Tail(events),
           UNCHANGED <<ring, pending, todo, ctl, control, ep0, call, abandoned>>
    PROVE  PipeInv' /\ PipeStep
  <1> DEFINE e == Head(events).ep
  <1>1. events # <<>> /\ Head(events).kind # "control" /\ e \in Endpoints
    BY HandlerFacts
  <1>2. Only(e) /\ Keeps(e) /\ \A ev : Fits(e, ev) => FitsNext(e, ev)
    BY <1>1 DEF Only, Keeps, Fits, FitsNext, PipeInv, StatesInv
  <1>3. StatesInv' /\ AnswersInv' /\ SeriesInv'
    BY <1>1, <1>2, TakePipe
  <1>4. WaitInv'
    BY WaitKept
  <1>5. Controls' = Controls /\ Halted' = Halted
    BY <1>1, ControlsKept
  <1>6. PipeStep
    BY <1>1, <1>2, <1>5, PipeStutter
  <1> QED BY <1>3, <1>4, <1>6 DEF PipeInv

\* The driver sends a recovery command for an endpoint that is off the ring.
LEMMA SentPipe ==
    ASSUME BulkInv, PipeInv, NEW e \in Endpoints, NEW cmd \in Commands, SendCommand(e, cmd),
           UNCHANGED <<ring, todo, control, ep0, moved, abandoned>>,
           pending[e].active, todo[e] = 0, ctl[e].state \in {"halted", "stopped"},
           cmd # "ResetEndpoint" => ctl[e].state = "stopped"
    PROVE  /\ Only(e) /\ Keeps(e) /\ pending'[e].phase = cmd /\ pending'[e].active
           /\ pending'[e].item = pending[e].item /\ pending'[e].count = pending[e].count
           /\ \A ev : ev.kind # "transfer" /\ ev.kind \notin Commands => FitsNext(e, ev)
  <1> DEFINE p == pending[e]
             c == ctl[e]
             q == [p EXCEPT !.phase = cmd]
             d == [c EXCEPT !.cmd = cmd]
  <1>1. /\ pending \in [Endpoints -> PendingType] /\ ctl \in [Endpoints -> ContextType]
        /\ p \in PendingType /\ c \in ContextType
    BY DEF BulkInv, TypeInv, BulkTypeOK
  <1>2. pending' = [pending EXCEPT ![e] = q] /\ ctl' = [ctl EXCEPT ![e] = d]
    BY <1>1 DEF SendCommand
  <1>3. /\ q.phase = cmd /\ q.active = p.active /\ q.item = p.item /\ q.count = p.count
        /\ q.first = p.first /\ q.last = p.last /\ q.short_seen = p.short_seen
        /\ q.short_len = p.short_len
    <2> HIDE DEF p
    <2> QED BY <1>1 DEF PendingType
  <1>4. /\ d.deq = c.deq /\ d.ccs = c.ccs /\ d.state = c.state /\ d.cmd = cmd /\ d.skip = c.skip
    <2> HIDE DEF c
    <2> QED BY <1>1 DEF ContextType
  <1> HIDE DEF q, d
  <1>5. pending'[e] = q /\ ctl'[e] = d /\ Only(e)
    BY <1>1, <1>2 DEF Only
  <1>6. StateOK(e, ring[e], p, 0, c, abandoned[e])
    BY DEF PipeInv, StatesInv
  <1>7. HeadSlot(d) = HeadSlot(c) /\ HeadCycle(d) = HeadCycle(c)
    BY <1>4 DEF HeadSlot, HeadCycle
  <1>8. Occupancy(ring[e], d) = Occupancy(ring[e], c)
    BY <1>7 DEF Occupancy
  <1>9. cmd # "None"
    BY DEF Commands
  <1>10. TrackOK(ring[e], q, 0) /\ PhaseOK(q, 0, d) /\ ShortOK(e, q, d)
    BY <1>3, <1>4, <1>6, <1>9 DEF StateOK, TrackOK, PhaseOK, ShortOK
  <1>11. Keeps(e)
    BY <1>4, <1>5, <1>6, <1>8, <1>10 DEF Keeps, StateOK
  <1>12. \A ev : ev.kind # "transfer" /\ ev.kind \notin Commands => FitsNext(e, ev)
    BY DEF FitsNext, AnswerOK, Commands
  <1> QED BY <1>3, <1>5, <1>11, <1>12

\* The driver forgets a transfer, whether it is over or its recovery failed.
LEMMA ForgotPipe ==
    ASSUME BulkInv, PipeInv, NEW e \in Endpoints,
           pending' = [pending EXCEPT ![e] = NoPending], UNCHANGED <<ring, todo, ctl>>,
           abandoned' = abandoned \/ abandoned' = [abandoned EXCEPT ![e] = TRUE],
           todo[e] = 0, ctl[e].cmd = "none"
    PROVE  /\ Only(e) /\ Keeps(e) /\ Pipe!Free(e) /\ pending'[e].phase = "None"
           /\ \A ev : Fits(e, ev) /\ ev.kind \notin Commands => FitsNext(e, ev)
  <1>1. /\ pending \in [Endpoints -> PendingType] /\ abandoned \in [Endpoints -> BOOLEAN]
    BY DEF BulkInv, TypeInv, BulkTypeOK
  <1>2. /\ pending'[e] = NoPending /\ Only(e)
        /\ ~abandoned'[e] => ~abandoned[e]
    BY <1>1 DEF Only
  <1>3. /\ ~NoPending.active /\ NoPending.phase = "None" /\ NoPending.count = 0
        /\ ~NoPending.short_seen
    BY DEF NoPending
  <1>4. StateOK(e, ring[e], pending[e], 0, ctl[e], abandoned[e])
    BY DEF PipeInv, StatesInv
  <1>5. TrackOK(ring[e], NoPending, 0) /\ PhaseOK(NoPending, 0, ctl[e])
        /\ ShortOK(e, NoPending, ctl[e])
    BY <1>3, <1>4 DEF StateOK, TrackOK, PhaseOK, ShortOK
  <1>6. Keeps(e)
    BY <1>2, <1>4, <1>5 DEF Keeps, StateOK
  <1>7. \A ev : Fits(e, ev) /\ ev.kind \notin Commands => FitsNext(e, ev)
    BY <1>2, <1>3 DEF Fits, FitsNext, AnswerOK, Commands
  <1>8. Pipe!Free(e)
    BY <1>2, <1>3, FreeView
  <1> QED BY <1>2, <1>3, <1>6, <1>7, <1>8

\* The handler of transfer events: the end of a transfer, its failure, or nothing
\* that the class driver sees.
LEMMA OnTransferEventPipe ==
    ASSUME BulkInv, PipeInv, OnTransferEvent
    PROVE  PipeInv' /\ PipeStep
  <1> DEFINE ev == Head(events)
             e == ev.ep
             r == ring[e]
             p == pending[e]
             c == ctl[e]
             a == abandoned[e]
             len == IF p.short_seen THEN p.short_len
                    ELSE TransferredLength(e, ev.trb, ev.residual)
             size == TrbLen * p.count
  <1>1. Event("transfer")
    BY DEF OnTransferEvent
  <1>2. /\ events # <<>> /\ ev \in EventType /\ ev.kind = "transfer" /\ e \in Endpoints
        /\ call = NoCall /\ todo[e] = 0 /\ events \in Seq(EventType)
        /\ p \in PendingType /\ c \in ContextType /\ a \in BOOLEAN /\ RingOK(r)
        /\ StateOK(e, r, p, 0, c, a) /\ Fits(e, ev) /\ ResidualOK(ev)
    BY <1>1, HandlerFacts
  <1>3. /\ events' = Tail(events)
        /\ UNCHANGED <<ring, todo, control, ep0, moved, abandoned>>
    BY DEF OnTransferEvent
  <1>4. /\ p.phase = "None" /\ c.cmd = "none" /\ (ev.code = "Error" => c.state = "halted")
        /\ ev.residual \in 0 .. TrbLen
        /\ e \notin InEndpoints => ev.residual = 0 /\ ev.code # "Short"
    <2>1. p.phase = "None" /\ (ev.code = "Error" => c.state = "halted")
      BY <1>2 DEF Fits, AnswerOK
    <2>2. c.cmd = "none"
      BY <1>2, <2>1 DEF StateOK, PhaseOK, ContextType
    <2> QED BY <1>2, <2>1, <2>2 DEF ResidualOK
  <1>5. ev.trb \in Slots
    BY <1>2 DEF EventType, Commands
  <1>6. Controls' = Controls /\ Halted' = Halted
    BY <1>2, <1>3, ControlsKept
  <1>7. \A x : Fits(e, x) => x.kind \notin Commands
    BY <1>4 DEF Fits, AnswerOK, Commands
  <1>8. ~a => EndpointOK(r, p, 0, c) /\ EventOK(r, p, 0, c, ev)
    BY <1>1, <1>2, HeadEvent, Parts DEF Holds
  <1>9. ASSUME Matches(e, ev.trb)
        PROVE  /\ p.active /\ len \in 0 .. size
               /\ Final(e, ev) /\ e \notin InEndpoints => len = size
    <2>1. p.active /\ TrbIndex(p.first, ev.trb) < p.count
      BY <1>9 DEF Matches
    <2> DEFINE x == TrbIndex(p.first, ev.trb)
               full == TrbLen * x + TrbLen - ev.residual
    <2>2. full \in 0 .. size /\ (x = p.count - 1 /\ ev.residual = 0 => full = size)
      <3> DEFINE i == ev.trb
                 left == ev.residual
      <3>1. p \in PendingType /\ i \in Slots /\ left \in 0 .. TrbLen /\ TrbIndex(p.first, i) < p.count
        BY <1>2, <1>4, <1>5, <2>1
      <3> HIDE DEF i, left, p
      <3> QED BY <3>1, LengthBound DEF i, left
    <2>3. p.short_seen => e \in InEndpoints /\ p.short_len \in 0 .. size
      BY <1>2 DEF StateOK, ShortOK
    <2>4. TransferredLength(e, ev.trb, ev.residual) = full
      BY DEF TransferredLength
    <2>5. Final(e, ev) => x = p.count - 1
      <3> SUFFICES ASSUME ev.trb = p.last PROVE x = p.count - 1
        BY DEF Final
      <3>1. p.last = SlotAfter(p.first, p.count - 1) /\ p.count >= 1
        BY <1>2, <2>1 DEF StateOK, TrackOK
      <3>2. p.first \in Slots /\ p.count \in 0 .. UsableSize
        BY <1>2 DEF PendingType
      <3> HIDE DEF p, ev
      <3> QED BY <3>1, <3>2, RingAssumption DEF SlotAfter, TrbIndex, Slots, UsableSize
    <2> HIDE DEF full, x, size, p
    <2> QED BY <1>4, <2>1, <2>2, <2>3, <2>4, <2>5
  <1>10. CASE UNCHANGED <<pending, ctl, call>>
    BY <1>1, <1>3, <1>10, DropPipe
  <1>11. CASE Matches(e, ev.trb) /\ ev.code = "Error" /\ SendCommand(e, "ResetEndpoint") /\ UNCHANGED call
    <2>1. "ResetEndpoint" \in Commands
      BY DEF Commands
    <2>2. p.active /\ c.state = "halted"
      BY <1>4, <1>9, <1>11
    <2>3. /\ Only(e) /\ Keeps(e) /\ pending'[e].phase = "ResetEndpoint" /\ pending'[e].active
          /\ pending'[e].item = p.item /\ pending'[e].count = p.count
          /\ \A x : x.kind # "transfer" /\ x.kind \notin Commands => FitsNext(e, x)
      BY <1>2, <1>3, <1>11, <2>1, <2>2, SentPipe
    <2>4. \A x : Fits(e, x) /\ SeriesOK(ev, x) => FitsNext(e, x)
      BY <1>2, <1>7, <1>11, <2>3 DEF SeriesOK
    <2>5. StatesInv' /\ AnswersInv' /\ SeriesInv'
      BY <1>2, <1>3, <2>3, <2>4, TakePipe
    <2>6. WaitInv'
      BY <1>2, <1>11 DEF WaitInv, NoCall
    <2>7. ~Served(r, p, todo[e], c, a)
      <3>1. ASSUME ~a PROVE Contents(r, c) # <<>>
        <4>1. Occupancy(r, c) > 0
          BY <1>2, <2>2, <3>1 DEF StateOK
        <4>2. PositionOK(r, c)
          BY <1>8, <3>1 DEF EndpointOK
        <4> HIDE DEF r, c
        <4> QED BY <1>2, <4>1, <4>2, ContentsOccupancy
      <3> QED BY <3>1 DEF Served
    <2>8. /\ Transfers[e].phase = "active" /\ ~Transfers[e].served /\ Pipe!Enter(e, "reset")
      <3>1. Stage(p) = "active" /\ Stage(pending'[e]) = "reset"
        BY <1>4, <2>3 DEF Stage
      <3> QED BY <1>2, <2>2, <2>3, <2>7, <3>1, EnterView
    <2>9. Pipe!Fail(e)
      BY <1>2, <1>3, <1>6, <1>11, <2>8 DEF Pipe!Fail, NoCall, Pipe!NoCall
    <2> QED BY <1>2, <2>5, <2>6, <2>9 DEF PipeInv, PipeStep, Pipe!PipeNext, Pipe!HostStep
  <1>12. CASE /\ Matches(e, ev.trb) /\ ev.code = "Short"
              /\ pending' = [pending EXCEPT ![e].short_seen = TRUE, ![e].short_len = len]
              /\ UNCHANGED <<ctl, call>>
    <2> DEFINE q == [p EXCEPT !.short_seen = TRUE, !.short_len = len]
    <2>1. pending \in [Endpoints -> PendingType]
      BY DEF BulkInv, TypeInv, BulkTypeOK
    <2>2. pending' = [pending EXCEPT ![e] = q]
      BY <1>12, <2>1
    <2>3. /\ q.active = p.active /\ q.item = p.item /\ q.first = p.first /\ q.last = p.last
          /\ q.count = p.count /\ q.phase = p.phase /\ q.short_len = len
      <3> HIDE DEF p, len
      <3> QED BY <1>2 DEF PendingType
    <2> HIDE DEF q
    <2>4. pending'[e] = q /\ Only(e)
      BY <1>2, <1>3, <1>12, <2>1, <2>2 DEF Only
    <2>5. e \in InEndpoints /\ q.short_len \in 0 .. TrbLen * q.count
      BY <1>4, <1>9, <1>12, <2>3
    <2>6. TrackOK(r, q, 0) /\ PhaseOK(q, 0, c) /\ ShortOK(e, q, c)
      BY <1>2, <2>3, <2>5 DEF StateOK, TrackOK, PhaseOK, ShortOK
    <2>7. Keeps(e)
      BY <1>2, <1>3, <1>12, <2>4, <2>6 DEF Keeps, StateOK
    <2>8. \A x : Fits(e, x) => FitsNext(e, x)
      BY <1>12, <2>3, <2>4 DEF Fits, FitsNext, AnswerOK
    <2>9. StatesInv' /\ AnswersInv' /\ SeriesInv'
      BY <1>2, <1>3, <2>4, <2>7, <2>8, TakePipe
    <2>10. WaitInv'
      BY <1>2, <1>12 DEF WaitInv, NoCall
    <2>11. ViewOf(r, q, 0, c, a) = ViewOf(r, p, 0, c, a)
      BY <2>3, Zenon DEF ViewOf
    <2>12. PipeStep
      BY <1>2, <1>3, <1>6, <1>12, <2>4, <2>11, PipeStutter
    <2> QED BY <2>9, <2>10, <2>12 DEF PipeInv
  <1>13. CASE /\ Matches(e, ev.trb) /\ ev.code # "Error" /\ Final(e, ev)
              /\ pending' = [pending EXCEPT ![e] = NoPending]
              /\ Call("Completed", e, TRUE, p.item, len)
              /\ UNCHANGED ctl
    <2>1. /\ Only(e) /\ Keeps(e) /\ Pipe!Free(e)
          /\ \A x : Fits(e, x) /\ x.kind \notin Commands => FitsNext(e, x)
      BY <1>2, <1>3, <1>4, <1>13, ForgotPipe
    <2>2. StatesInv' /\ AnswersInv' /\ SeriesInv'
      BY <1>2, <1>3, <1>7, <2>1, TakePipe
    <2>3. call' = Pipe!CallOf("Completed", e, TRUE, p.item, len) /\ call'.fn = "Completed"
      BY <1>13 DEF Call, CallOf, Pipe!CallOf
    <2>4. WaitInv'
      BY <2>3 DEF WaitInv
    <2>5. /\ Transfers[e].phase = "active" /\ Transfers[e].item = p.item
          /\ Transfers[e].size = size
          /\ (Transfers[e].served \/ a)
      <3>1. p.active /\ Stage(p) = "active"
        BY <1>4, <1>9, <1>13 DEF Stage
      <3>2. CASE Served(r, p, 0, c, a)
        <4>1. ViewOf(r, p, 0, c, a)
                = [phase |-> "active", item |-> p.item, size |-> size, served |-> TRUE]
          <5> HIDE DEF r, p, c, a
          <5> QED BY <3>1, <3>2, ServedView
        <4> QED BY <1>2, <4>1, ViewAt
      <3>3. CASE ~Served(r, p, 0, c, a)
        <4>1. ViewOf(r, p, 0, c, a)
                = [phase |-> Stage(p), item |-> p.item, size |-> size, served |-> FALSE]
          <5> HIDE DEF r, p, c, a
          <5> QED BY <3>1, <3>3, UnservedView
        <4>2. ASSUME ~a PROVE FALSE
          <5>1. /\ EndpointOK(r, p, 0, c) /\ EventOK(r, p, 0, c, ev) /\ RingOK(r)
                /\ p \in PendingType /\ ev.kind = "transfer" /\ ev.code # "Error"
                /\ ev.trb = p.last
            BY <1>2, <1>8, <1>13, <4>2 DEF Final
          <5> HIDE DEF r, p, c, ev
          <5>2. Occupancy(r, c) = 0
            BY <5>1, LastEvent
          <5>3. Contents(r, c) = <<>>
            BY <5>1, <5>2, ContentsEmpty DEF EndpointOK
          <5> QED BY <1>4, <3>3, <4>2, <5>3 DEF Served
        <4> QED BY <1>2, <3>1, <4>1, <4>2, ViewAt
      <3> QED BY <3>2, <3>3
    <2>6. len \in 0 .. size /\ (e \notin InEndpoints => len = size) /\ len <= size
      <3>1. len \in 0 .. size /\ (e \notin InEndpoints => len = size)
        BY <1>9, <1>13
      <3> HIDE DEF len, size
      <3> QED BY <3>1
    <2> HIDE DEF len, size
    <2>7. Pipe!Complete(e, len)
      <3>1. call = Pipe!NoCall
        BY <1>2 DEF NoCall, Pipe!NoCall
      <3>2. Pipe!Call("Completed", e, TRUE, Transfers[e].item, len)
        BY <2>3, <2>5 DEF Pipe!Call
      <3>3. len <= Transfers[e].size /\ (e \notin InEndpoints => len = Transfers[e].size)
        BY <2>5, <2>6
      <3>4. Transfers[e].served \/ abandoned[e]
        BY <2>5
      <3> QED BY <1>3, <1>6, <2>1, <2>5, <3>1, <3>2, <3>3, <3>4, Zenon DEF Pipe!Complete
    <2>8. PipeStep
      <3>1. len \in 0 .. Transfers[e].size
        BY <2>5, <2>6
      <3> QED BY <1>2, <2>7, <3>1, Zenon DEF PipeStep, Pipe!PipeNext, Pipe!HostStep
    <2> QED BY <2>2, <2>4, <2>8 DEF PipeInv
  <1> QED BY <1>10, <1>11, <1>12, <1>13 DEF OnTransferEvent

\* The stage of a recovery as the class driver sees it.
LEMMA StageView ==
    ASSUME BulkInv, PipeInv, NEW e \in Endpoints
    PROVE  /\ pending[e].phase # "None" => Transfers[e].phase = Stage(pending[e])
           /\ Transfers[e].phase = "clear" <=> pending[e].phase = "ClearEndpointHalt"
  <1> DEFINE r == ring[e]
             p == pending[e]
             n == todo[e]
             c == ctl[e]
             a == abandoned[e]
  <1>1. ~p.active => p.phase = "None"
    BY DEF PipeInv, StatesInv, StateOK, TrackOK
  <1> HIDE DEF r, p, n, c, a
  <1>2. CASE ~p.active
    <2>1. ViewOf(r, p, n, c, a) = Pipe!NoXfer
      BY <1>2, IdleView
    <2>2. ViewOf(r, p, n, c, a).phase = "free"
      BY <2>1 DEF Pipe!NoXfer
    <2> QED BY <1>1, <1>2, <2>2, ViewAt DEF r, p, n, c, a
  <1>3. CASE p.active /\ p.phase = "None"
    <2>1. Stage(p) = "active"
      BY <1>3 DEF Stage
    <2>2. ViewOf(r, p, n, c, a).phase = "active"
      <3>1. CASE Served(r, p, n, c, a)
        <4>1. ViewOf(r, p, n, c, a) = [phase |-> "active", item |-> p.item,
                                       size |-> TrbLen * p.count, served |-> TRUE]
          BY <1>3, <3>1, ServedView
        <4> QED BY <4>1
      <3>2. CASE ~Served(r, p, n, c, a)
        <4>1. ViewOf(r, p, n, c, a) = [phase |-> Stage(p), item |-> p.item,
                                       size |-> TrbLen * p.count, served |-> FALSE]
          BY <1>3, <3>2, UnservedView
        <4> QED BY <2>1, <4>1
      <3> QED BY <3>1, <3>2
    <2> QED BY <1>3, <2>2, ViewAt DEF r, p, n, c, a
  <1>4. CASE p.active /\ p.phase # "None"
    <2>1. ~Served(r, p, n, c, a)
      BY <1>4 DEF Served
    <2>2. ViewOf(r, p, n, c, a) = [phase |-> Stage(p), item |-> p.item,
                                   size |-> TrbLen * p.count, served |-> FALSE]
      BY <1>4, <2>1, UnservedView
    <2>3. ViewOf(r, p, n, c, a).phase = Stage(p)
      BY <2>2
    <2>4. Stage(p) = "clear" <=> p.phase = "ClearEndpointHalt"
      BY <1>4 DEF Stage
    <2> QED BY <1>4, <2>3, <2>4, ViewAt DEF r, p, n, c, a
  <1> QED BY <1>2, <1>3, <1>4

\* What the handler of a command's answer finds: the recovery is in the command's
\* phase, and nothing else of the endpoint is in the event ring but control requests.
LEMMA CommandFacts ==
    ASSUME BulkInv, PipeInv, NEW kind \in Commands, Event(kind)
    PROVE  LET ev == Head(events)
               e == ev.ep
           IN  /\ events # <<>> /\ ev.kind = kind /\ ev.ok \in BOOLEAN /\ e \in Endpoints
               /\ kind # "control" /\ call = NoCall /\ call = Pipe!NoCall /\ todo[e] = 0
               /\ pending[e].active /\ pending[e].phase = kind /\ ctl[e].cmd = "none"
               /\ ctl[e].state \in {"halted", "stopped"}
               /\ kind = "ResetEndpoint" => (ev.ok => ctl[e].state = "stopped")
               /\ kind # "ResetEndpoint" => ctl[e].state = "stopped"
               /\ Transfers[e].phase = Stage(pending[e])
               /\ \A x : Fits(e, x) /\ SeriesOK(ev, x)
                            => x.kind # "transfer" /\ x.kind \notin Commands
  <1> DEFINE ev == Head(events)
             e == ev.ep
             p == pending[e]
             c == ctl[e]
  <1>1. /\ events # <<>> /\ ev \in EventType /\ ev.kind = kind /\ e \in Endpoints
        /\ call = NoCall /\ todo[e] = 0 /\ Fits(e, ev)
        /\ StateOK(e, ring[e], p, 0, c, abandoned[e])
    BY HandlerFacts
  <1>2. p.phase = kind /\ c.cmd = "none" /\ (kind = "ResetEndpoint" => (ev.ok => c.state = "stopped"))
    BY <1>1 DEF Fits, AnswerOK
  <1>3. kind # "None" /\ kind # "control" /\ kind # "transfer"
    BY DEF Commands
  <1>4. /\ p.active /\ c.state \in {"halted", "stopped"}
        /\ kind # "ResetEndpoint" => c.state = "stopped"
    BY <1>1, <1>2, <1>3 DEF StateOK, PhaseOK
  <1>5. Transfers[e].phase = Stage(p)
    BY <1>1, <1>2, <1>3, StageView
  <1>6. \A x : Fits(e, x) /\ SeriesOK(ev, x) => x.kind # "transfer" /\ x.kind \notin Commands
    BY <1>1, <1>2, <1>3 DEF Fits, AnswerOK, SeriesOK
  <1>7. ev.ok \in BOOLEAN
    BY <1>1, <1>3 DEF EventType
  <1> QED BY <1>1, <1>2, <1>3, <1>4, <1>5, <1>6, <1>7 DEF NoCall, Pipe!NoCall

\* The end of a recovery, at the answer to a command: it is reported, the transfer
\* is forgotten.
LEMMA RecoveredPipe ==
    ASSUME BulkInv, PipeInv, NEW kind \in Commands, Event(kind), events' = Tail(events),
           UNCHANGED <<ring, todo, ctl, control, ep0, moved>>,
           pending' = [pending EXCEPT ![Head(events).ep] = NoPending],
           NEW ok \in BOOLEAN, Call("Recovered", Head(events).ep, ok, NoItem, 0),
           IF ok THEN abandoned' = abandoned
                 ELSE abandoned' = [abandoned EXCEPT ![Head(events).ep] = TRUE]
    PROVE  /\ PipeInv' /\ Pipe!Free(Head(events).ep) /\ Controls' = Controls /\ Halted' = Halted
           /\ Pipe!Call("Recovered", Head(events).ep, ok, NoItem, 0)
           /\ IF ok THEN UNCHANGED abandoned ELSE Pipe!Break(Head(events).ep)
  <1> DEFINE e == Head(events).ep
  <1>1. /\ events # <<>> /\ Head(events).kind # "control" /\ e \in Endpoints
        /\ todo[e] = 0 /\ ctl[e].cmd = "none"
        /\ \A x : Fits(e, x) /\ SeriesOK(Head(events), x) => x.kind \notin Commands
    BY CommandFacts
  <1>2. /\ Only(e) /\ Keeps(e) /\ Pipe!Free(e)
        /\ \A x : Fits(e, x) /\ x.kind \notin Commands => FitsNext(e, x)
    BY <1>1, ForgotPipe
  <1>3. \A x : Fits(e, x) /\ SeriesOK(Head(events), x) => FitsNext(e, x)
    BY <1>1, <1>2
  <1>4. StatesInv' /\ AnswersInv' /\ SeriesInv'
    BY <1>1, <1>2, <1>3, TakePipe
  <1>5. /\ call' = CallOf("Recovered", e, ok, NoItem, 0)
        /\ call' = Pipe!CallOf("Recovered", e, ok, NoItem, 0) /\ call'.fn = "Recovered"
    BY DEF Call, CallOf, Pipe!CallOf
  <1>6. WaitInv'
    BY <1>5 DEF WaitInv
  <1>7. Controls' = Controls /\ Halted' = Halted
    BY <1>1, ControlsKept
  <1> QED BY <1>2, <1>4, <1>5, <1>6, <1>7 DEF PipeInv, Pipe!Call, Pipe!Break

\* The answer to the reset of an endpoint: the class driver is asked to clear the
\* halt, or told that the recovery failed.
LEMMA OnEndpointResetPipe ==
    ASSUME BulkInv, PipeInv, OnEndpointResetCompleted
    PROVE  PipeInv' /\ PipeStep
  <1> DEFINE ev == Head(events)
             e == ev.ep
             p == pending[e]
             q == [p EXCEPT !.phase = "ClearEndpointHalt"]
  <1>1. Event("ResetEndpoint") /\ "ResetEndpoint" \in Commands /\ events' = Tail(events)
        /\ UNCHANGED <<ring, todo, control, ep0, moved>>
    BY DEF OnEndpointResetCompleted, Commands
  <1>2. /\ events # <<>> /\ ev.kind # "control" /\ ev.ok \in BOOLEAN /\ e \in Endpoints
        /\ call = Pipe!NoCall /\ todo[e] = 0
        /\ p.active /\ p.phase = "ResetEndpoint" /\ ctl[e].cmd = "none"
        /\ ev.ok => ctl[e].state = "stopped"
        /\ Transfers[e].phase = Stage(p)
        /\ \A x : Fits(e, x) /\ SeriesOK(ev, x)
                     => x.kind # "transfer" /\ x.kind \notin Commands
    BY <1>1, CommandFacts
  <1>3. Transfers[e].phase = "reset"
    BY <1>2 DEF Stage
  <1>4. CASE ~ev.ok
    <2>1. Abandon(e) /\ Call("Recovered", e, FALSE, NoItem, 0)
      BY <1>2, <1>4 DEF OnEndpointResetCompleted
    <2>2. /\ PipeInv' /\ Pipe!Free(e) /\ Controls' = Controls /\ Halted' = Halted
          /\ Pipe!Call("Recovered", e, FALSE, NoItem, 0) /\ Pipe!Break(e)
      <3>1. FALSE \in BOOLEAN
        OBVIOUS
      <3> QED BY <1>1, <2>1, <3>1, RecoveredPipe DEF Abandon
    <2>3. Pipe!ResetEnds(e)
      BY <1>2, <1>3, <2>2 DEF Pipe!ResetEnds
    <2> QED BY <1>2, <2>2, <2>3 DEF PipeStep, Pipe!PipeNext, Pipe!HostStep
  <1>5. CASE ev.ok
    <2>1. /\ pending' = [pending EXCEPT ![e].phase = "ClearEndpointHalt"]
          /\ Call("ResetDone", e, TRUE, NoItem, 0)
          /\ UNCHANGED <<ctl, abandoned>>
      BY <1>2, <1>5 DEF OnEndpointResetCompleted
    <2>2. p \in PendingType /\ pending \in [Endpoints -> PendingType]
      BY <1>2 DEF BulkInv, TypeInv, BulkTypeOK
    <2>3. pending' = [pending EXCEPT ![e] = q]
      BY <2>1, <2>2
    <2>4. /\ q.phase = "ClearEndpointHalt" /\ q.active = p.active /\ q.item = p.item
          /\ q.count = p.count /\ q.first = p.first /\ q.last = p.last
          /\ q.short_seen = p.short_seen /\ q.short_len = p.short_len
      <3> HIDE DEF p
      <3> QED BY <2>2 DEF PendingType
    <2> HIDE DEF q
    <2>5. pending'[e] = q /\ Only(e)
      BY <1>1, <1>2, <2>1, <2>2, <2>3 DEF Only
    <2>6. StateOK(e, ring[e], p, 0, ctl[e], abandoned[e])
      BY <1>2 DEF PipeInv, StatesInv
    <2>7. TrackOK(ring[e], q, 0) /\ PhaseOK(q, 0, ctl[e]) /\ ShortOK(e, q, ctl[e])
      BY <1>2, <1>5, <2>4, <2>6 DEF StateOK, TrackOK, PhaseOK, ShortOK
    <2>8. Keeps(e)
      BY <1>1, <1>2, <2>1, <2>5, <2>6, <2>7 DEF Keeps, StateOK
    <2>9. \A x : Fits(e, x) /\ SeriesOK(ev, x) => FitsNext(e, x)
      BY <1>2 DEF FitsNext, AnswerOK, Commands
    <2>10. StatesInv' /\ AnswersInv' /\ SeriesInv'
      BY <1>1, <1>2, <2>5, <2>8, <2>9, TakePipe
    <2>11. call' = Pipe!CallOf("ResetDone", e, TRUE, NoItem, 0) /\ call'.ep = e
      BY <2>1 DEF Call, CallOf, Pipe!CallOf
    <2>12. WaitInv'
      BY <2>4, <2>5, <2>11 DEF WaitInv
    <2>13. Controls' = Controls /\ Halted' = Halted
      BY <1>1, <1>2, ControlsKept
    <2>14. ~Served(ring[e], pending[e], todo[e], ctl[e], abandoned[e])
      BY <1>2 DEF Served
    <2>15. Pipe!Enter(e, "clear")
      <3>1. Stage(pending'[e]) = "clear"
        BY <2>4, <2>5 DEF Stage
      <3>2. pending'[e].active /\ pending'[e].phase # "None"
            /\ pending'[e].item = pending[e].item /\ pending'[e].count = pending[e].count
        BY <1>2, <2>4, <2>5
      <3> QED BY <1>2, <2>5, <2>14, <3>1, <3>2, EnterView
    <2>16. Pipe!ResetEnds(e)
      BY <1>2, <1>3, <2>1, <2>11, <2>13, <2>15 DEF Pipe!ResetEnds, Pipe!Call
    <2>17. PipeStep
      BY <1>2, <2>16 DEF PipeStep, Pipe!PipeNext, Pipe!HostStep
    <2> QED BY <2>10, <2>12, <2>17 DEF PipeInv
  <1> QED BY <1>2, <1>4, <1>5

\* Taking the first element of one sequence takes it of any that starts with it.
LEMMA TakeHead ==
    ASSUME NEW R, NEW s \in Seq(R), NEW t \in Seq(R), NEW u \in Seq(R), Len(s) > 0,
           Len(t) = Len(s) - 1, \A i \in 1 .. Len(s) - 1 : t[i] = s[i + 1]
    PROVE  /\ s \o u # <<>> /\ Head(s \o u) = s[1]
           /\ Tail(s \o u) = t \o u
  <1> DEFINE z == s \o u
             y == t \o u
  <1>1. /\ Len(s) \in Nat /\ Len(t) \in Nat /\ Len(u) \in Nat
        /\ \A i \in 1 .. Len(t) : t[i] = s[i + 1]
    <2>1. Len(s) \in Nat /\ Len(t) \in Nat /\ Len(u) \in Nat
      BY LenProperties
    <2> QED BY <2>1
  <1>2. /\ z \in Seq(R) /\ Len(z) = Len(s) + Len(u)
        /\ \A i \in 1 .. Len(s) + Len(u) : z[i] = IF i <= Len(s) THEN s[i] ELSE u[i - Len(s)]
    BY ConcatProperties
  <1>3. /\ y \in Seq(R) /\ Len(y) = Len(t) + Len(u)
        /\ \A i \in 1 .. Len(t) + Len(u) : y[i] = IF i <= Len(t) THEN t[i] ELSE u[i - Len(t)]
    BY ConcatProperties
  <1> HIDE DEF z, y
  <1>4. z # <<>> /\ z[1] = s[1]
    BY <1>1, <1>2
  <1>5. Head(z) = z[1]
    BY <1>2, <1>4
  <1>6. /\ Tail(z) \in Seq(R) /\ Len(Tail(z)) = Len(z) - 1
        /\ \A i \in 1 .. Len(Tail(z)) : Tail(z)[i] = z[i + 1]
    BY <1>2, <1>4, HeadTailProperties
  <1>7. Len(Tail(z)) = Len(y)
    BY <1>1, <1>2, <1>3, <1>6
  <1>8. ASSUME NEW i \in 1 .. Len(y) PROVE Tail(z)[i] = y[i]
    <2>1. Tail(z)[i] = z[i + 1]
      BY <1>6, <1>7
    <2>2. /\ i \in 1 .. Len(t) + Len(u) /\ i + 1 \in 1 .. Len(s) + Len(u)
          /\ (i + 1 <= Len(s)) <=> (i <= Len(t))
          /\ i + 1 - Len(s) = i - Len(t)
      BY <1>1, <1>3
    <2>3. CASE i <= Len(t)
      <3>1. i \in 1 .. Len(t)
        BY <2>2, <2>3
      <3> QED BY <1>1, <1>2, <1>3, <2>1, <2>2, <2>3, <3>1
    <2>4. CASE ~(i <= Len(t))
      <3>1. z[i + 1] = u[i + 1 - Len(s)] /\ y[i] = u[i - Len(t)]
        BY <1>2, <1>3, <2>2, <2>4
      <3> QED BY <2>1, <2>2, <3>1
    <2> QED BY <2>3, <2>4
  <1>9. Tail(z) = y
    BY <1>3, <1>6, <1>7, <1>8, SeqEqual
  <1> QED BY <1>4, <1>5, <1>9 DEF z, y

\* A control request completes: a recovery that waits for a cleared halt is told so.
LEMMA OnControlEventPipe ==
    ASSUME BulkInv, PipeInv, FailInv, OnControlEvent
    PROVE  PipeInv' /\ PipeStep
  <1> DEFINE ev == Head(events)
             e == ev.ep
             recovers == ev.req = "ClearHalt" /\ pending[e].phase = "ClearEndpointHalt"
             fn == IF recovers THEN "ClearHaltDone" ELSE "ControlDone"
             s == Asked(events)
             t == Asked(Tail(events))
  <1>1. /\ Event("control") /\ Call(fn, e, ev.ok, ev.req, 0) /\ events' = Tail(events)
        /\ UNCHANGED <<ring, pending, todo, ctl, control, ep0, abandoned>>
    BY DEF OnControlEvent, hwVars
  <1>2. /\ events # <<>> /\ ev \in EventType /\ ev.kind = "control" /\ e \in Endpoints
        /\ call = NoCall /\ events \in Seq(EventType)
    BY <1>1, HandlerFacts
  <1>3. ev.req = "ClearHalt" /\ ev.ok \in BOOLEAN /\ Tail(events) \in Seq(EventType)
    BY <1>2 DEF EventType, Commands
  <1>4. Only(e) /\ Keeps(e) /\ \A x : Fits(e, x) => FitsNext(e, x)
    BY <1>1, <1>2 DEF Only, Keeps, Fits, FitsNext, PipeInv, StatesInv
  <1>5. StatesInv' /\ AnswersInv' /\ SeriesInv'
    BY <1>1, <1>2, <1>4, TakePipe
  <1>6. /\ call' = CallOf(fn, e, ev.ok, ev.req, 0)
        /\ call' = Pipe!CallOf(fn, e, ev.ok, ev.req, 0) /\ call'.fn = fn /\ call'.ep = e
    BY <1>1 DEF Call, CallOf, Pipe!CallOf
  <1>7. WaitInv'
    <2>1. call'.fn \in {"ResetDone", "ClearHaltDone"} => pending[e].phase = "ClearEndpointHalt"
      BY <1>6
    <2> QED BY <1>1, <1>6, <2>1 DEF WaitInv
  <1>8. Transfers' = Transfers
    <2>1. \A f \in Endpoints : Transfers'[f] = Transfers[f]
      BY <1>1, ViewAt
    <2> QED BY <2>1, ViewStill
  <1>9. control \in Seq(RequestType)
    BY DEF BulkInv, TypeInv
  <1>10. s \in Seq(RequestType) /\ t \in Seq(RequestType)
    BY <1>2, <1>3, AskedTyped
  <1>11. /\ Len(s) > 0 /\ s[1] = [req |-> ev.req, ep |-> e] /\ Len(t) = Len(s) - 1
         /\ \A i \in 1 .. Len(s) - 1 : t[i] = s[i + 1]
    BY <1>2, AskedSeen
  <1>12. Controls = s \o control /\ Controls' = t \o control
    BY <1>1 DEF Controls
  <1> HIDE DEF s, t
  <1>13. /\ s \o control # <<>> /\ Head(s \o control) = s[1]
         /\ Tail(s \o control) = t \o control
    BY <1>9, <1>10, <1>11, TakeHead
  <1>14. /\ Controls # <<>> /\ Head(Controls) = [req |-> ev.req, ep |-> e]
         /\ Controls' = Tail(Controls)
    BY <1>11, <1>12, <1>13
  <1>15. ~Halted /\ Halted' \in {~ev.ok, TRUE}
    <2>1. /\ ev = events[1] /\ DOMAIN events = 1 .. Len(events) /\ Len(events) >= 1
          /\ Len(events) \in Nat
      BY <1>2, TakenEvents
    <2>2. 1 \in Places(events)
      BY <1>2, <2>1 DEF Places
    <2>3. ~Halted /\ Halted' \in BOOLEAN
      BY <2>2 DEF Halted, BulkInv, TypeInv, BulkTypeOK
    <2>4. ASSUME ~ev.ok PROVE Halted'
      <3>1. ep0 /\ \A j \in Places(events) : j <= 1
        BY <2>1, <2>2, <2>4 DEF FailInv
      <3>2. Places(events) \ {1} = {}
        BY <1>2, <3>1, PlacesTyped
      <3>3. Places(Tail(events)) = {}
        BY <1>2, <3>2, PlacesTail
      <3> QED BY <1>1, <3>1, <3>3 DEF Halted
    <2> QED BY <1>3, <2>3, <2>4
  <1>16. Pipe!ControlEnds
    <2>1. call = Pipe!NoCall
      BY <1>2 DEF NoCall, Pipe!NoCall
    <2> DEFINE k == Head(Controls)
    <2>2. k.req = ev.req /\ k.ep = e
      BY <1>14
    <2>3. recovers <=> k.req = "ClearHalt" /\ Transfers[k.ep].phase = "clear"
      BY <1>2, <2>2, StageView
    <2>4. Pipe!Call(IF k.req = "ClearHalt" /\ Transfers[k.ep].phase = "clear"
                    THEN "ClearHaltDone" ELSE "ControlDone", k.ep, ev.ok, k.req, 0)
      BY <1>6, <2>2, <2>3 DEF Pipe!Call
    <2> QED BY <1>1, <1>3, <1>8, <1>14, <1>15, <2>1, <2>4 DEF Pipe!ControlEnds
  <1> QED
    BY <1>5, <1>7, <1>16 DEF PipeInv, PipeStep, Pipe!PipeNext, Pipe!HostStep

\* The transaction translator's buffer is clear: the recovery goes on with its last
\* command, or failed.
LEMMA OnTTBufferClearPipe ==
    ASSUME BulkInv, PipeInv, OnTTBufferClearCompleted
    PROVE  PipeInv' /\ PipeStep
  <1> DEFINE ev == Head(events)
             e == ev.ep
             p == pending[e]
  <1>1. Event("ClearTTBuffer") /\ "ClearTTBuffer" \in Commands /\ events' = Tail(events)
        /\ UNCHANGED <<ring, todo, control, ep0, moved>>
    BY DEF OnTTBufferClearCompleted, Commands
  <1>2. /\ events # <<>> /\ ev.kind # "control" /\ ev.ok \in BOOLEAN /\ e \in Endpoints
        /\ call = Pipe!NoCall /\ call = NoCall /\ todo[e] = 0
        /\ p.active /\ p.phase = "ClearTTBuffer" /\ ctl[e].state = "stopped"
        /\ Transfers[e].phase = Stage(p)
        /\ \A x : Fits(e, x) /\ SeriesOK(ev, x)
                     => x.kind # "transfer" /\ x.kind \notin Commands
    <2>1. "ClearTTBuffer" # "ResetEndpoint"
      OBVIOUS
    <2> QED BY <1>1, <2>1, CommandFacts
  <1>3. Stage(p) = "resume"
    BY <1>2 DEF Stage
  <1>4. CASE ~ev.ok
    <2>1. Abandon(e) /\ Call("Recovered", e, FALSE, NoItem, 0)
      BY <1>2, <1>4 DEF OnTTBufferClearCompleted
    <2>2. /\ PipeInv' /\ Pipe!Free(e) /\ Controls' = Controls /\ Halted' = Halted
          /\ Pipe!Call("Recovered", e, FALSE, NoItem, 0) /\ Pipe!Break(e)
      <3>1. FALSE \in BOOLEAN
        OBVIOUS
      <3> QED BY <1>1, <2>1, <3>1, RecoveredPipe DEF Abandon
    <2>3. Pipe!ResumeEnds(e)
      BY <1>2, <1>3, <2>2 DEF Pipe!ResumeEnds
    <2> QED BY <1>2, <2>2, <2>3 DEF PipeStep, Pipe!PipeNext, Pipe!HostStep
  <1>5. CASE ev.ok
    <2>1. SendCommand(e, "SetDequeuePointer") /\ UNCHANGED <<abandoned, call>>
      BY <1>2, <1>5 DEF OnTTBufferClearCompleted
    <2>2. "SetDequeuePointer" \in Commands
      BY DEF Commands
    <2>3. /\ Only(e) /\ Keeps(e) /\ pending'[e].phase = "SetDequeuePointer" /\ pending'[e].active
          /\ pending'[e].item = p.item /\ pending'[e].count = p.count
          /\ \A x : x.kind # "transfer" /\ x.kind \notin Commands => FitsNext(e, x)
      BY <1>1, <1>2, <2>1, <2>2, SentPipe
    <2>4. \A x : Fits(e, x) /\ SeriesOK(ev, x) => FitsNext(e, x)
      BY <1>2, <2>3
    <2>5. StatesInv' /\ AnswersInv' /\ SeriesInv'
      BY <1>1, <1>2, <2>3, <2>4, TakePipe
    <2>6. WaitInv'
      BY <1>2, <2>1 DEF WaitInv, NoCall
    <2>7. Controls' = Controls /\ Halted' = Halted
      BY <1>1, <1>2, ControlsKept
    <2>8. Transfers' = Transfers
      <3>1. Stage(pending'[e]) = Stage(pending[e])
        BY <1>3, <2>3 DEF Stage
      <3>2. ~Served(ring[e], pending[e], todo[e], ctl[e], abandoned[e])
        BY <1>2 DEF Served
      <3>3. pending'[e].phase # "None"
        BY <2>3
      <3> QED BY <1>2, <2>3, <3>1, <3>2, <3>3, EnterView
    <2> QED BY <2>1, <2>5, <2>6, <2>7, <2>8 DEF PipeInv, PipeStep
  <1> QED BY <1>2, <1>4, <1>5

\* The last command of a recovery is answered.
LEMMA OnDequeueSetPipe ==
    ASSUME BulkInv, PipeInv, OnTransferRingDequeueSet
    PROVE  PipeInv' /\ PipeStep
  <1> DEFINE ev == Head(events)
             e == ev.ep
             p == pending[e]
             ok == ev.ok
  <1>1. Event("SetDequeuePointer") /\ "SetDequeuePointer" \in Commands /\ events' = Tail(events)
        /\ UNCHANGED <<ring, todo, control, ep0, moved>>
    BY DEF OnTransferRingDequeueSet, Commands
  <1>2. /\ ok \in BOOLEAN /\ e \in Endpoints /\ call = Pipe!NoCall
        /\ p.phase = "SetDequeuePointer" /\ Transfers[e].phase = Stage(p)
    BY <1>1, CommandFacts
  <1>3. Stage(p) = "resume"
    BY <1>2 DEF Stage
  <1>4. /\ pending' = [pending EXCEPT ![e] = NoPending] /\ UNCHANGED ctl
        /\ IF ok THEN abandoned' = abandoned ELSE abandoned' = [abandoned EXCEPT ![e] = TRUE]
        /\ Call("Recovered", e, ok, NoItem, 0)
    BY <1>2 DEF OnTransferRingDequeueSet, Abandon
  <1>5. /\ PipeInv' /\ Pipe!Free(e) /\ Controls' = Controls /\ Halted' = Halted
        /\ Pipe!Call("Recovered", e, ok, NoItem, 0)
        /\ IF ok THEN UNCHANGED abandoned ELSE Pipe!Break(e)
    BY <1>1, <1>2, <1>4, RecoveredPipe
  <1>6. Pipe!ResumeEnds(e)
    BY <1>2, <1>3, <1>5 DEF Pipe!ResumeEnds
  <1> QED BY <1>2, <1>5, <1>6 DEF PipeStep, Pipe!PipeNext, Pipe!HostStep

\* The class driver has returned: nothing, or the recovery goes on, or is given up.
LEMMA ReturnPipe ==
    ASSUME BulkInv, PipeInv, Return
    PROVE  PipeInv' /\ PipeStep
  <1> DEFINE e == call.ep
             p == pending[e]
             c == ctl[e]
             cmd == IF BehindTT THEN "ClearTTBuffer" ELSE "SetDequeuePointer"
  <1>1. /\ call # NoCall /\ call # Pipe!NoCall /\ call.done /\ \A f \in Endpoints : todo[f] = 0
        /\ UNCHANGED <<ring, todo, control, ep0, events, moved>>
    BY DEF Return, NoCall, Pipe!NoCall
  <1>2. call \in CallType /\ e \in Endpoints /\ todo[e] = 0
    <2>1. call \in CallType
      BY <1>1 DEF BulkInv, TypeInv
    <2> QED BY <1>1, <2>1 DEF CallType
  <1>3. Controls' = Controls /\ Halted' = Halted
    BY <1>1, ControlsKept
  <1>4. NoCall = Pipe!NoCall /\ NoCall.fn = "none"
    BY DEF NoCall, Pipe!NoCall
  <1>5. CASE /\ \/ call.fn \in {"Completed", "Recovered", "ControlDone"}
                \/ call.fn = "ResetDone" /\ ~call.err
             /\ call' = NoCall
             /\ UNCHANGED <<pending, ctl, abandoned>>
    <2>1. StatesInv' /\ AnswersInv' /\ SeriesInv' /\ Transfers' = Transfers
      BY <1>1, <1>5, IdlePipe
    <2>2. WaitInv'
      BY <1>4, <1>5 DEF WaitInv
    <2>3. Pipe!Return
      BY <1>1, <1>3, <1>4, <1>5, <2>1 DEF Pipe!Return
    <2> QED BY <2>1, <2>2, <2>3 DEF PipeInv, PipeStep, Pipe!PipeNext, Pipe!HostStep
  <1>6. ASSUME call.fn \in {"ResetDone", "ClearHaltDone"}
        PROVE  /\ p.phase = "ClearEndpointHalt" /\ p.active /\ c.state = "stopped"
               /\ c.cmd = "none"
               /\ \A x : Fits(e, x) => x.kind # "transfer" /\ x.kind \notin Commands
    <2>1. p.phase = "ClearEndpointHalt"
      BY <1>6 DEF PipeInv, WaitInv
    <2>2. StateOK(e, ring[e], p, 0, c, abandoned[e]) /\ c \in ContextType
      BY <1>2, Parts DEF PipeInv, StatesInv
    <2>3. p.active /\ c.state = "stopped" /\ c.cmd = "none"
      BY <2>1, <2>2 DEF StateOK, PhaseOK, ContextType
    <2>4. \A x : Fits(e, x) => x.kind # "transfer" /\ x.kind \notin Commands
      BY <2>1 DEF Fits, AnswerOK, Commands
    <2> QED BY <2>1, <2>3, <2>4
  <1>7. ASSUME call.fn \in {"ResetDone", "ClearHaltDone"}, Abandon(e)
        PROVE  /\ StatesInv' /\ AnswersInv' /\ SeriesInv'
               /\ Pipe!Free(e) /\ Pipe!Break(e)
    <2>1. /\ pending' = [pending EXCEPT ![e] = NoPending] /\ UNCHANGED ctl
          /\ abandoned' = [abandoned EXCEPT ![e] = TRUE]
      BY <1>7 DEF Abandon
    <2>2. c.cmd = "none" /\ \A x : Fits(e, x) => x.kind \notin Commands
      BY <1>6, <1>7
    <2>3. /\ Only(e) /\ Keeps(e) /\ Pipe!Free(e)
          /\ \A x : Fits(e, x) /\ x.kind \notin Commands => FitsNext(e, x)
      BY <1>1, <1>2, <2>1, <2>2, ForgotPipe
    <2>4. \A x : Fits(e, x) => FitsNext(e, x)
      BY <2>2, <2>3
    <2>5. StatesInv' /\ AnswersInv' /\ SeriesInv'
      BY <1>1, <1>2, <2>3, <2>4, QuietPipe
    <2> QED BY <2>1, <2>3, <2>5 DEF Pipe!Break
  <1>8. CASE /\ \/ call.fn = "ResetDone" /\ call.err
                \/ call.fn = "ClearHaltDone" /\ ~GoesOn
             /\ Abandon(e)
             /\ call' = NoCall
    <2>1. /\ StatesInv' /\ AnswersInv' /\ SeriesInv'
          /\ Pipe!Free(e) /\ Pipe!Break(e)
      BY <1>7, <1>8
    <2>2. WaitInv'
      BY <1>4, <1>8 DEF WaitInv
    <2>3. Pipe!Return
      BY <1>1, <1>3, <1>4, <1>8, <2>1 DEF Pipe!Return, GoesOn
    <2> QED BY <2>1, <2>2, <2>3 DEF PipeInv, PipeStep, Pipe!PipeNext, Pipe!HostStep
  <1>9. CASE GoesOn /\ SendCommand(e, cmd) /\ call' = NoCall /\ UNCHANGED abandoned
    <2>1. call.fn = "ClearHaltDone" /\ call.ok /\ ~call.err
      BY <1>9 DEF GoesOn
    <2>2. /\ p.phase = "ClearEndpointHalt" /\ p.active /\ c.state = "stopped"
          /\ \A x : Fits(e, x) => x.kind # "transfer" /\ x.kind \notin Commands
      BY <1>6, <2>1
    <2>3. cmd \in Commands /\ cmd \in {"ClearTTBuffer", "SetDequeuePointer"}
      BY DEF Commands
    <2> HIDE DEF cmd
    <2>4. /\ Only(e) /\ Keeps(e) /\ pending'[e].phase = cmd /\ pending'[e].active
          /\ pending'[e].item = p.item /\ pending'[e].count = p.count
          /\ \A x : x.kind # "transfer" /\ x.kind \notin Commands => FitsNext(e, x)
      BY <1>1, <1>2, <1>9, <2>2, <2>3, SentPipe
    <2>5. StatesInv' /\ AnswersInv' /\ SeriesInv'
      <3>1. \A x : Fits(e, x) => FitsNext(e, x)
        BY <2>2, <2>4
      <3> QED BY <1>1, <1>2, <2>4, <3>1, QuietPipe
    <2>6. WaitInv'
      BY <1>4, <1>9 DEF WaitInv
    <2>7. Pipe!Enter(e, "resume")
      <3>1. Stage(pending'[e]) = "resume" /\ pending'[e].phase # "None"
        BY <2>3, <2>4 DEF Stage
      <3>2. ~Served(ring[e], pending[e], todo[e], ctl[e], abandoned[e])
        BY <2>2 DEF Served
      <3> QED BY <1>2, <2>2, <2>4, <3>1, <3>2, EnterView
    <2>8. Pipe!Return
      BY <1>1, <1>3, <1>4, <1>9, <2>1, <2>7 DEF Pipe!Return
    <2> QED BY <2>5, <2>6, <2>8 DEF PipeInv, PipeStep, Pipe!PipeNext, Pipe!HostStep
  <1>10. CASE GoesOn /\ Abandon(e) /\ Call("Recovered", e, FALSE, NoItem, 0)
    <2>1. call.fn = "ClearHaltDone" /\ call.ok /\ ~call.err
      BY <1>10 DEF GoesOn
    <2>2. /\ StatesInv' /\ AnswersInv' /\ SeriesInv'
          /\ Pipe!Free(e) /\ Pipe!Break(e)
      BY <1>7, <1>10, <2>1
    <2>3. call' = Pipe!CallOf("Recovered", e, FALSE, NoItem, 0) /\ call'.fn = "Recovered"
      BY <1>10 DEF Call, CallOf, Pipe!CallOf
    <2>4. WaitInv'
      BY <2>3 DEF WaitInv
    <2>5. Pipe!Return
      BY <1>1, <1>3, <2>1, <2>2, <2>3 DEF Pipe!Return, Pipe!Call
    <2> QED BY <2>2, <2>4, <2>5 DEF PipeInv, PipeStep, Pipe!PipeNext, Pipe!HostStep
  <1> QED BY <1>5, <1>8, <1>9, <1>10 DEF Return

-----------------------------------------------------------------------------
(* The default pipe: no request is answered after one that failed          *)

\* A step that changes nothing about control requests.
LEMMA FailKept ==
    ASSUME BulkInv, FailInv, ep0' = ep0,
           \/ events' = events
           \/ \E ev \in EventType : ev.kind # "control" /\ events' = Append(events, ev)
           \/ events # <<>> /\ events' = Tail(events)
    PROVE  FailInv'
  <1>1. events \in Seq(EventType)
    BY DEF BulkInv, TypeInv
  <1>2. CASE events' = events
    BY <1>2 DEF FailInv, Places
  <1>3. ASSUME NEW ev \in EventType, ev.kind # "control", events' = Append(events, ev)
        PROVE  FailInv'
    <2>1. Places(events') = Places(events)
      BY <1>1, <1>3, PlacesPost
    <2>2. \A k \in Places(events) : events'[k] = events[k]
      BY <1>1, <1>3, PostedEvents, PlacesTyped
    <2> QED BY <2>1, <2>2 DEF FailInv
  <1>4. CASE events # <<>> /\ events' = Tail(events)
    <2>1. Places(events') = {j - 1 : j \in Places(events) \ {1}}
      BY <1>1, <1>4, PlacesTail
    <2>2. /\ Places(events) \in SUBSET (1 .. Len(events)) /\ Len(events) \in Nat
          /\ \A k \in 1 .. Len(events) - 1 : events'[k] = events[k + 1]
      BY <1>1, <1>4, PlacesTyped, TakenEvents
    <2>3. \A k \in Places(events') : /\ k \in 1 .. Len(events) - 1 /\ k + 1 \in Places(events)
                                     /\ events'[k] = events[k + 1]
      BY <2>1, <2>2
    <2> SUFFICES ASSUME NEW k \in Places(events'), ~events'[k].ok
                 PROVE  ep0' /\ \A j \in Places(events') : j <= k
      BY DEF FailInv
    <2>4. ep0 /\ \A j \in Places(events) : j <= k + 1
      BY <2>3 DEF FailInv
    <2> QED BY <2>3, <2>4
  <1> QED BY <1>2, <1>3, <1>4

\* The controller's steps post no control event.
LEMMA ControllerEvents ==
    ASSUME BulkInv, NEW e \in Endpoints,
           ExecuteTrb(e) \/ FollowLink(e) \/ RunDry(e) \/ ExecuteCommand(e)
    PROVE  /\ ep0' = ep0
           /\ \/ events' = events
              \/ \E ev \in EventType : ev.kind # "control" /\ events' = Append(events, ev)
  <1>1. CASE ExecuteTrb(e)
    <2>1. ctl[e].deq \in Slots
      <3>1. ctl[e] \in ContextType
        BY Parts
      <3>2. ctl[e].deq # LinkSlot
        BY <1>1 DEF ExecuteTrb
      <3> QED BY <3>1, <3>2, RingAssumption DEF ContextType, Slots, LinkSlot
    <2>2. \A code \in {"Success", "Short", "Error"}, left \in 0 .. TrbLen :
             /\ TransferEvent(e, ctl[e].deq, code, left) \in EventType
             /\ TransferEvent(e, ctl[e].deq, code, left).kind # "control"
      BY <2>1 DEF TransferEvent, EventType
    <2>3. 0 \in 0 .. TrbLen /\ \A left \in 1 .. TrbLen : left \in 0 .. TrbLen
      BY BulkAssumption
    <2>4. \/ events' = events
          \/ \E code \in {"Success", "Short", "Error"}, left \in 0 .. TrbLen :
                events' = Append(events, TransferEvent(e, ctl[e].deq, code, left))
      BY <1>1, <2>3 DEF ExecuteTrb, Post
    <2>5. ep0' = ep0
      BY <1>1 DEF ExecuteTrb
    <2> QED BY <2>2, <2>4, <2>5
  <1>2. CASE FollowLink(e) \/ RunDry(e)
    BY <1>2 DEF FollowLink, RunDry
  <1>3. CASE ExecuteCommand(e)
    <2>1. ctl[e].cmd \in Commands
      BY <1>3, Parts DEF ExecuteCommand, ContextType, Commands
    <2>2. \A ok \in BOOLEAN : /\ CompletionEvent(ctl[e].cmd, e, ok) \in EventType
                              /\ CompletionEvent(ctl[e].cmd, e, ok).kind # "control"
      BY <2>1 DEF CompletionEvent, EventType, Commands
    <2>3. ep0' = ep0 /\ \E ok \in BOOLEAN : events' = Append(events, CompletionEvent(ctl[e].cmd, e, ok))
      BY <1>3 DEF ExecuteCommand, Post
    <2> QED BY <2>2, <2>3
  <1> QED BY <1>1, <1>2, <1>3

\* After a failed request the pipe is halted, and no other is answered.
LEMMA FailAnswered ==
    ASSUME BulkInv, FailInv, ExecuteControl
    PROVE  FailInv'
  <1>1. events \in Seq(EventType) /\ control \in Seq(RequestType) /\ control # <<>> /\ ~ep0
    BY DEF ExecuteControl, BulkInv, TypeInv
  <1>2. \A k \in Places(events) : events[k].ok
    BY <1>1 DEF FailInv
  <1>3. CASE UNCHANGED <<control, events>>
    BY <1>2, <1>3 DEF FailInv, Places
  <1>4. ASSUME NEW ok \in BOOLEAN, ep0' = ~ok,
               Post([kind |-> "control", req |-> Head(control).req,
                     ep |-> Head(control).ep, ok |-> ok])
        PROVE  FailInv'
    <2> DEFINE new == [kind |-> "control", req |-> Head(control).req,
                       ep |-> Head(control).ep, ok |-> ok]
    <2>1. Head(control) \in RequestType
      BY <1>1
    <2>2. new \in EventType /\ new.ok = ok /\ events' = Append(events, new)
      BY <1>4, <2>1 DEF EventType, RequestType, Post
    <2> HIDE DEF new
    <2>3. /\ DOMAIN events' = 1 .. Len(events) + 1 /\ Len(events) \in Nat
          /\ \A k \in 1 .. Len(events) : events'[k] = events[k]
          /\ events'[Len(events) + 1] = new /\ DOMAIN events = 1 .. Len(events)
      BY <1>1, <2>2, PostedEvents
    <2>4. \A k \in Places(events') : k = Len(events) + 1 \/ k \in Places(events)
      BY <2>3 DEF Places
    <2>5. \A k \in Places(events') : k <= Len(events) + 1
      BY <2>3 DEF Places
    <2>6. \A k \in Places(events) : events'[k].ok
      BY <1>2, <2>3 DEF Places
    <2> QED BY <1>4, <2>2, <2>3, <2>4, <2>5, <2>6 DEF FailInv
  <1> QED BY <1>3, <1>4 DEF ExecuteControl

\* FailInv is inductive, together with BulkInv.
LEMMA FailStep ==
    ASSUME BulkInv, FailInv, [BulkNext]_bulkVars
    PROVE  FailInv'
  <1>1. CASE \E e \in Endpoints : PushTrb(e)
    BY <1>1, FailKept DEF PushTrb
  <1>2. CASE \E e \in Endpoints : ExecuteTrb(e) \/ FollowLink(e) \/ RunDry(e) \/ ExecuteCommand(e)
    BY <1>2, ControllerEvents, FailKept
  <1>3. CASE ExecuteControl
    BY <1>3, FailAnswered
  <1>4. CASE HandlerStep
    <2>1. CASE Return
      BY <2>1, FailKept DEF Return
    <2>2. CASE OnTransferEvent
      BY <2>2, FailKept DEF OnTransferEvent, Event
    <2>3. CASE OnEndpointResetCompleted
      BY <2>3, FailKept DEF OnEndpointResetCompleted, Event
    <2>4. CASE OnControlEvent
      BY <2>4, FailKept DEF OnControlEvent, Event, hwVars
    <2>5. CASE OnTTBufferClearCompleted
      BY <2>5, FailKept DEF OnTTBufferClearCompleted, Event
    <2>6. CASE OnTransferRingDequeueSet
      BY <2>6, FailKept DEF OnTransferRingDequeueSet, Event
    <2> QED BY <1>4, <2>1, <2>2, <2>3, <2>4, <2>5, <2>6 DEF HandlerStep
  <1>5. CASE \/ \E e \in Endpoints, item \in Items, n \in 1 .. MaxTrbs : Submit(e, item, n)
             \/ \E e \in Endpoints : SendClearHalt(e)
             \/ \E err \in BOOLEAN : Answer(err)
             \/ UNCHANGED bulkVars
    <2>1. ep0' = ep0 /\ events' = events
      BY <1>5 DEF Submit, QueueBulkTransfer, SendClearHalt, Answer, hwVars, bulkVars
    <2> QED BY <2>1, FailKept
  <1> QED BY <1>1, <1>2, <1>3, <1>4, <1>5 DEF BulkNext, TransportStep, ControllerStep

-----------------------------------------------------------------------------
(* The theorem                                                             *)

\* No transfer, no event: the class driver has not been called.
LEMMA PipeStart ==
    ASSUME BulkInit
    PROVE  PipeInv /\ FailInv /\ Pipe!PipeInit
  <1>1. /\ pending = [e \in Endpoints |-> NoPending] /\ todo = [e \in Endpoints |-> 0]
        /\ events = <<>> /\ control = <<>> /\ ep0 = FALSE /\ call = NoCall
        /\ abandoned = [e \in Endpoints |-> FALSE]
    BY DEF BulkInit
  <1>2. \A e \in Endpoints : ~ctl[e].skip /\ ctl[e].cmd = "none" /\ ctl[e].state = "idle"
    BY DEF BulkInit
  <1>3. ~NoPending.active /\ NoPending.phase = "None" /\ ~NoPending.short_seen /\ NoPending.count = 0
    BY DEF NoPending
  <1>4. StatesInv
    BY <1>1, <1>2, <1>3 DEF StatesInv, StateOK, TrackOK, PhaseOK, ShortOK
  <1>5. AnswersInv /\ SeriesInv
    BY <1>1 DEF AnswersInv, SeriesInv
  <1>6. WaitInv
    BY <1>1 DEF WaitInv, NoCall
  <1>7. Transfers = [e \in Endpoints |-> Pipe!NoXfer]
    <2>1. ASSUME NEW e \in Endpoints PROVE Transfers[e] = Pipe!NoXfer
      <3>1. ~pending[e].active
        BY <1>1, <1>3
      <3>2. ViewOf(ring[e], pending[e], todo[e], ctl[e], abandoned[e]) = Pipe!NoXfer
        BY <3>1, IdleView
      <3> QED BY <3>2, ViewAt
    <2> QED BY <2>1 DEF Transfers
  <1>8. Controls = <<>> /\ Halted = FALSE
    <2>1. events \in Seq(EventType) /\ control \in Seq(RequestType)
      BY <1>1
    <2>2. Places(events) = {}
      BY <1>1 DEF Places
    <2>3. Asked(events) = <<>>
      BY <2>1, <2>2, NothingAsked
    <2> QED BY <1>1, <2>3 DEF Controls, Halted
  <1>9. FailInv
    BY <1>1 DEF FailInv, Places
  <1> QED
    BY <1>1, <1>4, <1>5, <1>6, <1>7, <1>8, <1>9
    DEF PipeInv, Pipe!PipeInit, NoCall, Pipe!NoCall

\* ImplementsPipe: every behaviour of the driver and the controller is one of the
\* interface's, so what BulkPipe promises class drivers is what they get: one
\* callback per transfer, none for one that is not under way, a recovery that goes
\* through its stages in order, and control requests completed in order.
THEOREM BulkImplementsPipe == BulkSpec => ImplementsPipe
  <1>1. BulkInit => PipeInv /\ FailInv /\ Pipe!PipeInit
    BY PipeStart
  <1>2. BulkInv /\ PipeInv /\ FailInv /\ [BulkNext]_bulkVars
            => PipeInv' /\ FailInv' /\ [Pipe!PipeNext]_<<Transfers, Controls, Halted, call, abandoned>>
    <2> SUFFICES ASSUME BulkInv, PipeInv, FailInv, [BulkNext]_bulkVars
                 PROVE  PipeInv' /\ PipeStep
      BY FailStep DEF PipeStep
    <2>1. CASE \E e \in Endpoints : PushTrb(e)
      BY <2>1, PushTrbPipe
    <2>2. CASE \E e \in Endpoints : ExecuteTrb(e) \/ FollowLink(e) \/ RunDry(e) \/ ExecuteCommand(e)
      BY <2>2, ExecuteTrbPipe, MovePipe, ExecuteCommandPipe
    <2>3. CASE ExecuteControl
      BY <2>3, ExecuteControlPipe
    <2>4. CASE HandlerStep
      BY <2>4, OnTransferEventPipe, OnEndpointResetPipe, OnControlEventPipe,
         OnTTBufferClearPipe, OnDequeueSetPipe, ReturnPipe
      DEF HandlerStep
    <2>5. CASE \E e \in Endpoints, item \in Items, n \in 1 .. MaxTrbs : Submit(e, item, n)
      BY <2>5, SubmitPipe
    <2>6. CASE (\E e \in Endpoints : SendClearHalt(e)) \/ (\E err \in BOOLEAN : Answer(err))
      BY <2>6, AnswerPipe
    <2>7. CASE UNCHANGED bulkVars
      <3>1. UNCHANGED <<ring, pending, todo, ctl, control, ep0, events, call, abandoned>>
        BY <2>7 DEF bulkVars, hwVars
      <3>2. /\ StatesInv' /\ AnswersInv' /\ SeriesInv' /\ Transfers' = Transfers
            /\ Asked(events') = Asked(events) /\ Halted' = Halted
        BY <3>1, IdlePipe
      <3>3. WaitInv'
        BY <3>1, WaitKept
      <3> QED BY <3>1, <3>2, <3>3 DEF PipeInv, PipeStep, Controls
    <2> QED
      BY <2>1, <2>2, <2>3, <2>4, <2>5, <2>6, <2>7
      DEF BulkNext, TransportStep, ControllerStep
  <1>3. Pipe!PipeInit /\ [][Pipe!PipeNext]_<<Transfers, Controls, Halted, call, abandoned>> => ImplementsPipe
    BY DEF ImplementsPipe, Pipe!PipeSpec, Pipe!pipeVars
  <1> QED
    BY <1>1, <1>2, <1>3, BulkInvariant, PTL DEF BulkSpec

=============================================================================
