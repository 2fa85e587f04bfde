----------------------------- MODULE LsiLogicSAS -----------------------------
(***************************************************************************)
(* SCSI::LsiLogicSAS (lib/cpp/Device/Storage/SCSI/LsiLogic-SAS.cpp): the   *)
(* table of logical slots a SAS adapter publishes to its clients.  It is   *)
(* read from the firmware at Initialize, one device per step, and read     *)
(* again by Recover (of the base class) to check that the devices are      *)
(* still the same.  The firmware's table may change between two reads.     *)
(*                                                                         *)
(* A client that has mounted slot k sends its commands to the bus and      *)
(* target in targets[k].                                                   *)
(***************************************************************************)
EXTENDS Naturals, Sequences, FiniteSets

CONSTANTS
    Handles,     \* firmware handles, a set of positive numbers
    Devices,     \* SAS addresses
    Places,      \* (bus, target) pairs
    MaxAttempts, \* entries DiscoverTargets reads before it gives up (0x10000)
    MaxChanges   \* changes of the firmware's table (bound of the model)

ASSUME SasAssumption ==
    /\ Handles \subseteq Nat \ {0}
    /\ IsFiniteSet(Handles)
    /\ MaxAttempts \in Nat \ {0}
    /\ MaxChanges \in Nat

\* A device as the firmware reports it; one that is not a mapped end device is
\* skipped.
Entries == [device : Devices, place : Places, usable : BOOLEAN]
NoEntry == [usable |-> FALSE]

VARIABLES
    fw,                 \* the firmware's table: handle -> entry or NoEntry
    changes,            \* changes of the table so far
    ready, faulted,     \* of the base class
    port_type,          \* of the base class: 0 until Initialize is called
    discovery_complete,
    targets,            \* the slot table
    previous,           \* ValidateAfterReset's copy of it
    pc,                 \* "idle", "port" (InitializePort) or "discover"
    mode,               \* the caller of DiscoverTargets: "init" or "validate"
    handle,             \* previous_handle, 0 before the first read
    attempt,
    published           \* identities of the slots when they were first published

fwVars == <<fw, changes>>
vars == <<fwVars, ready, faulted, port_type, discovery_complete, targets, previous, pc,
          mode, handle, attempt, published>>

IsReady == discovery_complete /\ ready /\ ~faulted

Present == {h \in Handles : fw[h] # NoEntry}
Identity(t) == [device |-> t.device, place |-> t.place]
Identities(s) == [k \in 1 .. Len(s) |-> Identity(s[k])]
SetOf(s) == {s[k] : k \in 1 .. Len(s)}

\* DisableAfterFailure, and back to the caller.
Disable ==
    /\ ready' = FALSE /\ faulted' = TRUE
    /\ pc' = "idle" /\ handle' = 0 /\ attempt' = 0

-----------------------------------------------------------------------------
(* Initialize and Recover up to the first read                             *)

\* Initialize: InitializePort fails at once when faulted, and has nothing to do
\* when the port is ready.
Initialize ==
    /\ pc = "idle" /\ ~IsReady /\ ~faulted
    /\ mode' = "init"
    /\ \/ /\ ready
          /\ targets' = <<>> /\ pc' = "discover"
       \/ /\ ~ready
          /\ pc' = "port" /\ UNCHANGED targets
    /\ port_type' = "SAS"
    /\ UNCHANGED <<fwVars, ready, faulted, discovery_complete, previous, handle, attempt,
                   published>>

\* Recover: the reset is confirmed, and the port is initialized again ...
Recover ==
    /\ pc = "idle"
    /\ ready' = FALSE /\ faulted' = FALSE
    /\ pc' = "port" /\ mode' = "validate"
    /\ UNCHANGED <<fwVars, port_type, discovery_complete, targets, previous, handle, attempt, published>>

\* ... or not.
RecoverResetFails ==
    /\ pc = "idle"
    /\ Disable
    /\ UNCHANGED <<fwVars, port_type, discovery_complete, targets, previous, mode, published>>

\* InitializePort succeeds; ValidateAfterReset copies the table, DiscoverTargets
\* clears it.
PortReady ==
    /\ pc = "port" /\ port_type = "SAS"
    /\ ready' = TRUE
    /\ previous' = IF mode = "validate" THEN targets ELSE previous
    /\ targets' = <<>>
    /\ pc' = "discover"
    /\ UNCHANGED <<fwVars, faulted, port_type, discovery_complete, mode, handle, attempt, published>>

\* InitializePort fails, or there is no memory for the copy.
PortFails ==
    /\ pc = "port"
    /\ Disable
    /\ UNCHANGED <<fwVars, port_type, discovery_complete, targets, previous, mode, published>>

-----------------------------------------------------------------------------
(* DiscoverTargets                                                         *)

\* ReadNextTarget returns a handle other than the previous one; a well-behaved
\* firmware returns them in increasing order.
NextHandles == {h \in Present : h # handle}
AtEnd == \A h \in Present : h <= handle

\* Mutant of the test for duplicates: any place is good enough.
AppendableAgain(h) == fw[h].usable

\* A mapped end device at a place no slot has yet.
Appendable(h) ==
    /\ fw[h].usable
    /\ ~\E k \in 1 .. Len(targets) : targets[k].place = fw[h].place

Known(h) == \E k \in 1 .. Len(targets) : targets[k].handle = h

Slot(h) == [handle |-> h, device |-> fw[h].device, place |-> fw[h].place]

\* One entry: skipped, a duplicate of a place, or a new slot.
ReadEntry(h) ==
    /\ pc = "discover" /\ attempt < MaxAttempts
    /\ h \in NextHandles
    /\ ~(fw[h].usable /\ Known(h))
    /\ targets' = IF Appendable(h) THEN Append(targets, Slot(h)) ELSE targets
    /\ handle' = h /\ attempt' = attempt + 1
    /\ UNCHANGED <<fwVars, ready, faulted, port_type, discovery_complete, previous, pc, mode,
                   published>>

\* Mutant of the comparison: the number of slots is not compared.
ValidatedSubset ==
    /\ \A k \in 1 .. Len(previous) : Identity(previous[k]) \in SetOf(Identities(targets))
    /\ targets' = previous
    /\ pc' = "idle" /\ handle' = 0 /\ attempt' = 0
    /\ UNCHANGED <<ready, faulted, discovery_complete, published>>

\* ValidateAfterReset, the devices being the same: the old table is restored.
Validated ==
    /\ Len(targets) = Len(previous)
    /\ \A k \in 1 .. Len(previous) : Identity(previous[k]) \in SetOf(Identities(targets))
    /\ targets' = previous
    /\ pc' = "idle" /\ handle' = 0 /\ attempt' = 0
    /\ UNCHANGED <<ready, faulted, discovery_complete, published>>

\* ValidateAfterReset, a device missing or new: false, and the new table stays.
NotValidated ==
    /\ \/ Len(targets) # Len(previous)
       \/ \E k \in 1 .. Len(previous) : Identity(previous[k]) \notin SetOf(Identities(targets))
    /\ Disable
    /\ UNCHANGED <<discovery_complete, targets, published>>

\* Initialize: the slots are published.
Published ==
    /\ discovery_complete' = TRUE
    /\ published' = IF discovery_complete THEN published ELSE Identities(targets)
    /\ pc' = "idle" /\ handle' = 0 /\ attempt' = 0
    /\ UNCHANGED <<ready, faulted, targets>>

\* The firmware reports the end of its table.
ReadEnd ==
    /\ pc = "discover" /\ attempt < MaxAttempts
    /\ AtEnd
    /\ \/ mode = "init" /\ Published
       \/ mode = "validate" /\ (Validated \/ NotValidated)
    /\ UNCHANGED <<fwVars, port_type, previous, mode>>

\* A failed handshake, a repeated handle, no memory, or no end in sight.
ReadFails ==
    /\ pc = "discover"
    /\ Disable
    /\ UNCHANGED <<fwVars, port_type, discovery_complete, targets, previous, mode, published>>

-----------------------------------------------------------------------------
\* Devices come, go, move and change while the adapter runs.
FirmwareChange(h, e) ==
    /\ changes < MaxChanges
    /\ fw[h] # e
    /\ fw' = [fw EXCEPT ![h] = e]
    /\ changes' = changes + 1
    /\ UNCHANGED <<ready, faulted, port_type, discovery_complete, targets, previous, pc, mode,
                   handle, attempt, published>>

Init ==
    /\ fw \in [Handles -> Entries \cup {NoEntry}]
    /\ changes = 0
    /\ ready = FALSE /\ faulted = FALSE /\ discovery_complete = FALSE
    /\ port_type = "none"
    /\ targets = <<>> /\ previous = <<>>
    /\ pc = "idle" /\ mode = "init" /\ handle = 0 /\ attempt = 0
    /\ published = <<>>

Next ==
    \/ Initialize
    \/ Recover
    \/ RecoverResetFails
    \/ PortReady
    \/ PortFails
    \/ \E h \in Handles : ReadEntry(h)
    \/ ReadEnd
    \/ ReadFails
    \/ \E h \in Handles, e \in Entries \cup {NoEntry} : FirmwareChange(h, e)

Spec == Init /\ [][Next]_vars

-----------------------------------------------------------------------------
(* Properties                                                              *)

\* No two slots address the same bus and target or carry the same handle, so that
\* two disks the clients see are never one: also for a firmware that reports a
\* place twice or goes round in circles, and while its table changes.
SlotsDistinct ==
    \A j, k \in 1 .. Len(targets) :
        targets[j].place = targets[k].place \/ targets[j].handle = targets[k].handle => j = k

\* Recovery that starts with the slots in service and succeeds leaves every slot
\* as it was, and the firmware has just reported exactly the slots' devices: the
\* comparison of the number of slots and of each old slot is enough.
ValidationSound ==
    [][pc = "discover" /\ mode = "validate" /\ pc' = "idle" /\ ~faulted' =>
          /\ targets' = previous
          /\ SetOf(Identities(targets)) = SetOf(Identities(previous))]_vars

\* "Keep published logical slots stable; never redirect a mounted disk after a
\* reset": while the adapter is in service, a slot that was published and is still
\* offered is the device it was published for.
NeverRedirected ==
    IsReady /\ pc = "idle" =>
        \A k \in 1 .. Len(published) :
            k <= Len(targets) => targets[k].device = published[k].device

=============================================================================
