-------------------------- MODULE LsiLogicSASProofs --------------------------
(***************************************************************************)
(* Proofs about LsiLogicSAS: the slots of the table are distinct whatever  *)
(* the firmware reports, and the comparison ValidateAfterReset makes, of   *)
(* the number of slots and of every old slot, leaves no new device         *)
(* unnoticed.                                                              *)
(***************************************************************************)
EXTENDS LsiLogicSAS, FunctionTheorems, FiniteSetTheorems, TLAPS

\* What a slot of the table holds.
Slots == [handle : Handles, device : Devices, place : Places]

\* The two tests that guard an append: of the place and of the handle.
Distinct(s) ==
    \A j, k \in 1 .. Len(s) : s[j].place = s[k].place \/ s[j].handle = s[k].handle => j = k

\* Types of the table and of its copy.
TablesOK ==
    /\ targets \in Seq(Slots)
    /\ previous \in Seq(Slots)

\* The inductive invariant: the copy of the table must be distinct too, since a
\* recovery puts it back.
SasInv ==
    /\ fw \in [Handles -> Entries \cup {NoEntry}]
    /\ TablesOK
    /\ Distinct(targets)
    /\ Distinct(previous)

-----------------------------------------------------------------------------
\* An entry that is there is a full record.
LEMMA PresentEntry ==
    ASSUME fw \in [Handles -> Entries \cup {NoEntry}], NEW h \in Present
    PROVE  fw[h] \in Entries
BY DEF Present

\* The slot built from an entry the firmware reports is well-formed.
LEMMA SlotType ==
    ASSUME fw \in [Handles -> Entries \cup {NoEntry}], NEW h \in Present
    PROVE  /\ Slot(h) \in Slots
           /\ Slot(h).handle = h
           /\ Slot(h).place = fw[h].place
<1>1. fw[h] \in Entries
  BY PresentEntry
<1>2. h \in Handles
  BY DEF Present
<1> QED
  BY <1>1, <1>2 DEF Slot, Slots, Entries

\* The empty table is distinct.
LEMMA EmptyDistinct == <<>> \in Seq(Slots) /\ Distinct(<<>>)
BY DEF Distinct

\* Appending a slot with a new handle at a new place keeps the table distinct.
LEMMA AppendDistinct ==
    ASSUME NEW s \in Seq(Slots), NEW x \in Slots, Distinct(s),
           \A k \in 1 .. Len(s) : s[k].place # x.place /\ s[k].handle # x.handle
    PROVE  Append(s, x) \in Seq(Slots) /\ Distinct(Append(s, x))
<1>1. Append(s, x) \in Seq(Slots) /\ Len(Append(s, x)) = Len(s) + 1
  OBVIOUS
<1>2. \A k \in 1 .. Len(s) : Append(s, x)[k] = s[k]
  OBVIOUS
<1>3. Append(s, x)[Len(s) + 1] = x
  OBVIOUS
<1>4. \A k \in 1 .. Len(s) + 1 : k \in 1 .. Len(s) \/ k = Len(s) + 1
  OBVIOUS
<1> QED
  BY <1>1, <1>2, <1>3, <1>4 DEF Distinct

-----------------------------------------------------------------------------
\* Reading one entry: the only step that adds a slot.
LEMMA ReadEntryDistinct ==
    ASSUME SasInv, NEW h \in Handles, ReadEntry(h)
    PROVE  SasInv'
<1>1. h \in Present
  BY DEF ReadEntry, NextHandles
<1>2. UNCHANGED <<fw, previous>>
  BY DEF ReadEntry, fwVars
<1>3. CASE ~Appendable(h)
  <2>1. targets' = targets
    BY <1>3 DEF ReadEntry
  <2> QED
    BY <1>2, <2>1 DEF SasInv, TablesOK, Distinct
<1>4. CASE Appendable(h)
  <2>1. Slot(h) \in Slots /\ Slot(h).handle = h /\ Slot(h).place = fw[h].place
    BY <1>1, SlotType DEF SasInv
  <2>2. \A k \in 1 .. Len(targets) : targets[k].place # fw[h].place /\ targets[k].handle # h
    BY <1>4 DEF ReadEntry, Appendable, Known
  <2>3. Append(targets, Slot(h)) \in Seq(Slots) /\ Distinct(Append(targets, Slot(h)))
    BY <2>1, <2>2, AppendDistinct DEF SasInv, TablesOK
  <2>4. targets' = Append(targets, Slot(h))
    BY <1>4 DEF ReadEntry
  <2> QED
    BY <1>2, <2>3, <2>4 DEF SasInv, TablesOK, Distinct
<1> QED
  BY <1>3, <1>4

\* Every other step empties the table, puts the copy back or leaves it alone.
LEMMA TableSteps ==
    ASSUME SasInv,
           \/ Initialize \/ Recover \/ RecoverResetFails \/ PortReady \/ PortFails
           \/ ReadEnd \/ ReadFails \/ UNCHANGED vars
    PROVE  /\ fw' = fw
           /\ targets' \in {targets, previous, <<>>}
           /\ previous' \in {targets, previous}
BY DEF vars, fwVars, Initialize, Recover, RecoverResetFails, PortReady, PortFails, ReadEnd,
       ReadFails, Published, Validated, NotValidated

\* Every step keeps the invariant: only ReadEntry appends to the table.
LEMMA SasInvStep == SasInv /\ [Next]_vars => SasInv'
<1> SUFFICES ASSUME SasInv, [Next]_vars PROVE SasInv'
  OBVIOUS
<1>1. ASSUME NEW h \in Handles, ReadEntry(h) PROVE SasInv'
  BY <1>1, ReadEntryDistinct
<1>2. ASSUME NEW h \in Handles, NEW e \in Entries \cup {NoEntry}, FirmwareChange(h, e)
      PROVE  SasInv'
  BY <1>2 DEF SasInv, TablesOK, Distinct, FirmwareChange
<1>3. ASSUME \/ Initialize \/ Recover \/ RecoverResetFails \/ PortReady \/ PortFails
             \/ ReadEnd \/ ReadFails \/ UNCHANGED vars
      PROVE  SasInv'
  <2>1. /\ fw' = fw
        /\ targets' \in {targets, previous, <<>>}
        /\ previous' \in {targets, previous}
    BY <1>3, TableSteps
  <2>2. targets' \in Seq(Slots) /\ Distinct(targets')
    BY <2>1, EmptyDistinct DEF SasInv, TablesOK
  <2>3. previous' \in Seq(Slots) /\ Distinct(previous')
    BY <2>1 DEF SasInv, TablesOK
  <2> QED
    BY <2>1, <2>2, <2>3 DEF SasInv, TablesOK, Distinct
<1> QED
  BY <1>1, <1>2, <1>3 DEF Next

\* The invariant holds in every reachable state.
LEMMA SasInvariance == Spec => []SasInv
<1>1. Init => SasInv
  BY EmptyDistinct DEF Init, SasInv, TablesOK
<1> QED
  BY <1>1, SasInvStep, PTL DEF Spec

\* No two slots of the table share a place or a handle, for every set of handles,
\* devices and places and however often the firmware's table changes.
THEOREM SasSlotsDistinct == Spec => []SlotsDistinct
<1>1. SasInv => SlotsDistinct
  BY DEF SasInv, Distinct, SlotsDistinct
<1> QED
  BY <1>1, SasInvariance, PTL

-----------------------------------------------------------------------------
\* Two tables of the same length, the first one distinct: if each slot of the first
\* is in the second, nothing else is in the second.
LEMMA SameLengthCovers ==
    ASSUME NEW s \in Seq(Slots), NEW t \in Seq(Slots), Distinct(s), Len(t) = Len(s),
           \A k \in 1 .. Len(s) : Identity(s[k]) \in SetOf(Identities(t))
    PROVE  SetOf(Identities(t)) = SetOf(Identities(s))
<1> DEFINE n == Len(s)
           S == 1 .. n
           f == [k \in S |-> CHOOSE j \in S : Identity(t[j]) = Identity(s[k])]
<1>1. n \in Nat /\ Len(t) = n
  OBVIOUS
<1>2. /\ DOMAIN Identities(t) = S /\ \A j \in S : Identities(t)[j] = Identity(t[j])
      /\ DOMAIN Identities(s) = S /\ \A j \in S : Identities(s)[j] = Identity(s[j])
      /\ Len(Identities(t)) = n /\ Len(Identities(s)) = n
  BY <1>1 DEF Identities
<1>3. ASSUME NEW k \in S PROVE f[k] \in S /\ Identity(t[f[k]]) = Identity(s[k])
  <2>1. PICK j \in S : Identity(s[k]) = Identity(t[j])
    BY <1>2, <1>3 DEF SetOf
  <2> QED
    BY <2>1
<1> HIDE DEF f
<1>4. ASSUME NEW j \in S, NEW k \in S, f[j] = f[k] PROVE j = k
  <2>1. Identity(s[j]) = Identity(s[k])
    BY <1>3, <1>4
  <2>2. s[j].place = s[k].place
    BY <2>1 DEF Identity
  <2> QED
    BY <2>2 DEF Distinct
<1>5. f \in [S -> S]
  <2>1. f = [k \in S |-> f[k]]
    BY DEF f
  <2> QED
    BY <2>1, <1>3
<1>6. f \in Injection(S, S)
  BY <1>4, <1>5 DEF Injection, IsInjective
<1>7. IsFiniteSet(S)
  BY <1>1, FS_Interval
<1>8. f \in Surjection(S, S)
  BY <1>6, <1>7, FS_Injection
<1>9. ASSUME NEW j \in S PROVE \E k \in S : f[k] = j
  BY <1>8 DEF Surjection
<1>10. SetOf(Identities(t)) \subseteq SetOf(Identities(s))
  <2> SUFFICES ASSUME NEW j \in S
               PROVE  Identity(t[j]) \in SetOf(Identities(s))
    BY <1>2 DEF SetOf
  <2>1. PICK k \in S : f[k] = j
    BY <1>9
  <2>2. Identity(t[j]) = Identity(s[k])
    BY <2>1, <1>3
  <2> QED
    BY <1>2, <2>2 DEF SetOf
<1>11. SetOf(Identities(s)) \subseteq SetOf(Identities(t))
  <2> SUFFICES ASSUME NEW k \in S
               PROVE  Identity(s[k]) \in SetOf(Identities(t))
    BY <1>2 DEF SetOf
  <2> QED
    OBVIOUS
<1> QED
  BY <1>10, <1>11

\* ValidateAfterReset's two comparisons decide that the device sets are the same: a
\* recovery that succeeds restores a table naming exactly the devices just read.
\* The distinctness of the old table, which no single step shows, is what makes
\* comparing the lengths sufficient.
THEOREM SasValidationSound == Spec => ValidationSound
<1> DEFINE Step == pc = "discover" /\ mode = "validate" /\ pc' = "idle" /\ ~faulted' =>
                     /\ targets' = previous
                     /\ SetOf(Identities(targets)) = SetOf(Identities(previous))
<1>1. SasInv /\ [Next]_vars => [Step]_vars
  <2> SUFFICES ASSUME SasInv, Next, pc = "discover", mode = "validate", pc' = "idle", ~faulted'
               PROVE  /\ targets' = previous
                      /\ SetOf(Identities(targets)) = SetOf(Identities(previous))
    BY DEF vars
  <2>1. Validated
    BY DEF Next, Initialize, Recover, RecoverResetFails, PortReady, PortFails, ReadEntry,
           ReadEnd, ReadFails, FirmwareChange, Disable, NotValidated
  <2>2. targets' = previous
    BY <2>1 DEF Validated
  <2>3. SetOf(Identities(targets)) = SetOf(Identities(previous))
    BY <2>1, SameLengthCovers DEF Validated, SasInv, TablesOK
  <2> QED
    BY <2>2, <2>3
<1>2. [][Step]_vars => ValidationSound
  BY DEF ValidationSound
<1> QED
  BY <1>1, <1>2, SasInvariance, PTL DEF Spec
=============================================================================
