# UNISYM storage and USB stack in TLA+

UNISYM is a freestanding C/C++ library: the kernel-side library of the operating system
Mecocoa and of a number of microcontroller boards. This directory holds specifications of the
part of it where several actors share state, where hardware fails and where a mistake
corrupts memory: the storage request queue, the SCSI host adapter drivers on top of it,
byte access to a partition of a SCSI disk, the bulk endpoints of the xHCI driver, and the
USB mass storage class driver that uses them.

Paths below are relative to the repository (`src/`).

## 1. Inventory

| Component | State it keeps | Operations | What makes it correct |
|---|---|---|---|
| **StorageRequestQueue** `inc/cpp/trait/StorageTrait.hpp`, `lib/cpp/Device/Storage.cpp` | vector of shared request objects; per request state, owner, pin, start time, timeout, status | Enqueue, Start, Complete, ExpireQueued, NextTimeout, HasExpired, Prune, FailAll | a request whose buffers the hardware may access is not dropped; completion happens once; timeouts are exact on a wrapping clock |
| **SCSI::CommandQueue** `inc/c/storage/harddisk.h`, `lib/cpp/Device/Storage/Harddisk-SCSI.cpp` | DMA buffer per request; one tagging state per logical unit; one sense buffer per client and unit | Enqueue (with the cached REQUEST SENSE), CanStart, Complete, destructor | buffers released neither under DMA nor never; untagged commands alone; sense data to its client, once |
| **SCSI::LsiLogicMPI** `SCSI/LsiLogic-Para.{hpp,cpp}` | ready/faulted, active count, context counter, interrupt mode; reply queue, reply frames, interrupt mask in the adapter | SubmitAddressed, StartQueued, Service, Recover, SetInterrupts, OnInterrupt | replies credited to their request; no lost wake-up; credits and frames conserved; every request ends |
| **SCSI::LsiLogicSAS** `SCSI/LsiLogic-SAS.{hpp,cpp}` | table of targets, published slots | Initialize, DiscoverTargets, ValidateAfterReset | slots are distinct and are never redirected |
| **SCSI::BusLogic** `SCSI/BusLogic.{hpp,cpp}` | mailbox count, active count, outbox index, saved interrupt; two mailbox arrays shared with the adapter | SubmitScsi, StartQueued, Service, Recover, SetInterrupts, OnInterrupt | answers credited by address although addresses are reused; mailboxes suffice; no lost wake-up |
| **SCSI disk** `Harddisk-SCSI.cpp` from line 130 | capacity | ReadBlocks, WriteBlocks with retries on sense data | no transfer outside the disk; bounded retries |
| **Byte access** `Storage.cpp` lines 33-126, `StorageTrait.hpp` 116-148 | caller's block buffer | BlockTrait::Read/Write, DiscPartition, MemoryBlockDevice | bytes outside the range untouched; the returned count is what was transferred |
| PATA, ATAPI, NVMe disks `lib/cpp/Device/Storage/` | registers of one controller | polling reads and writes | - |
| Memory pool, bitmap allocator `lib/cpp/Datype/mempool.cpp`, `bmmemoman.cpp` | free slices, bitmap | allocate, free, merge | slices disjoint; free memory conserved |
| FAT `lib/cpp/Format/Filesys/FAT*` | cluster chains, directory entries, handles | create, write, truncate, remove, rename | chains disjoint and ended, also after a failed write |
| **xHCI bulk transfers** `lib/cpp/Device/USB/xHCI/xHCI-Ring.cpp`, `xHCI.cpp` 593-726, 996-1225, 1455-1715 | per endpoint a ring of TRBs, its write index and cycle bit, one pending transfer with its recovery phase | BulkTransfer, Push, transfer events, the recovery chain of a halted endpoint | no TRB overwritten or executed twice; no access to a buffer given back; exact lengths; one callback per transfer; no transfer pending for ever |
| **USB mass storage class** `lib/cpp/Device/USB/USBHost-MSC.cpp` | stage of the command, phase of the bring-up, stage of the recovery, tag, packet progress | OnEndpointsConfigured, ReadBlocks, WriteBlocks, AbortCommand, the callbacks, Finish | a finished command leaves no transfer; success means served; commands and bring-up end |
| Network `lib/cpp/System/Network/` | ARP/DHCP/DNS caches, TCP connection states | packet handlers, timers | connection states follow the handshake |
| Locks `lib/cpp/lock.cpp`, `Device/Lock/HSEM.cpp` | one flag | acquire, release | mutual exclusion |
| xHCI enumeration, hubs, power management `xHCI.cpp` | ports, slots, contexts | port and command events | - |
| ACPI/AML, paging, MCU peripherals | registers | register programming | - |
| Assembler, script language, compiler support `asm/`, `magic/` | none across calls | batch translation | - |
| Codecs, strings, containers, user interface | - | data processing, presentation | - |

**How the modelled components interact.** A client thread calls the adapter's Submit, which
calls `CommandQueue::Enqueue` and keeps a shared pointer to the request. The host serializes
Submit, Service, Recover and SetInterrupts with one sleepable lock ("The host serializes
queue operations with a sleepable lock; IRQ entries only mask and notify"). Concurrently with
the lock's holder run: the adapter (DMA, replies, interrupts, faults), `OnInterrupt` on any
CPU, the millisecond clock, and clients, which read a finished request and drop their shared
pointers without the lock. Those are the interleavings of the models.

On the USB side the event handler (`ProcessEvent`) takes one event at a time and runs it to
its end, callbacks of the class driver included; the class driver submits transfers and control
requests from inside its callbacks, or from its client's calls. Nothing in the code locks the
two against each other, so the models assume that the host serializes them. Concurrently with
them runs the controller, which takes TRBs while more are being pushed, executes commands and
posts events; and, across the bus, the device.

**What is hard.** Logical completion and the end of DMA are different events; a reset may not
be confirmed; replies may be late, stray or missing; the clock, the context counter and the
mailbox index wrap; buffers, bus addresses and ring slots are reused; Service races the interrupt
entry; submissions fail in the middle; a USB recovery is a chain of commands and requests each
of which may fail, with two drivers waiting for each other. Every such place is listed with its line in `PROJECT.json`
under `hazards`, with the properties that would catch it going wrong.

## 2. Modules

```
StorageRequestQueue          contract of the queue: what hosts and hardware may do with it
  ScsiCommandQueue           lifetimes, tagging, sense cache; a host reduced to its contract
    LsiLogicMPI              driver + Fusion-MPT adapter + interrupt entry + clients + clock
    BusLogic                 driver + MultiMaster adapter + interrupt entry + clients + clock
LsiLogicSAS                  target table and recovery against a changing firmware table
BlockAccess                  byte reads and writes on a partition of a SCSI disk
TransferQueue                abstract: an endpoint as a bounded queue of one transfer
BulkPipe                     abstract: what a host controller driver promises a class driver
XhciRing                     the ring as operators: Push, cycle bits, Link TRB
  XhciBulk                   driver + controller + any class driver; implements both abstract modules
UsbMassStorage               class driver + device + client, on top of BulkPipe
*Proofs                      theorems about the module of that name; ScsiCommandQueueProofs also about
                             StorageRequestQueue, XhciPipeProofs about XhciBulk
MC*                          instances for TLC: symmetry, and the bound on the free clock
```

The modules extend each other: an action of a driver contains the action of the command queue
it calls, and that one contains the action of the request queue. `QSpec` is the abstract
specification of the storage side; `QueueContract == QSpec` is proved of the command queue and of
both drivers, and checked of the LSI driver.

### StorageRequestQueue
`state`, `owned`, `pinned`, `started`, `timeout_ms`, `status` are the fields of
`StorageRequest`; the vector is the set `Queue` of owned requests ordered by `rank` (submission
order: the vector only appends and removes). `now` is the 32-bit millisecond clock with
`ClockModulus` in place of 2^32, so that `Elapsed` is the code's unsigned subtraction.
Two variables are not in the code: `device`, the requests whose buffers the hardware may access,
and `age`, the true age of a pending request, exact below `ClockModulus`; properties are about
them, and no guard of a method reads them. Two guards of the contract do: `Answer` (a started
request is completed only when the hardware has let go of it) and `FailAllQuiesced` ("quiesced
must follow a confirmed stop/reset"). These are obligations of the drivers, and the proofs show
they meet them: were a driver to answer a request the adapter still holds, `RepliesMatch` or
`AnswersMatch` would be violated.

### ScsiCommandQueue
Shared objects (target states, sense buffers) carry the name of the request that created them,
which makes pointer comparison a comparison of names, as in `CanStart`. `Enqueue` is two steps:
the part up to the vector, in which it may fail at three points and leave orphaned shared
objects behind, and the end, where REQUEST SENSE is answered from the cache or the cache is
invalidated; nothing else of the host happens in between. `Destruct` is `~CommandRequest`, run
in the step that drops the last pointer. CDBs and data are abstracted to three kinds of
command (`RW`, `INQUIRY`, `SENSE`) and five outcomes.

### LsiLogicMPI and BusLogic
`pc` is the position of the thread that holds the host's lock. A method is cut into steps where
it reads or writes something the adapter, the interrupt entry or the clock can change; loops
over the queue take one iteration per step in vector order (`First`, `cursor`). Recover is
EnterRecover, the reset (confirmed or not), FailAll, initialization (successful or failed at
several points), restoring interrupts. The register-level protocols inside Reset, Handshake,
HardwareReset and the administrative commands are one step each that succeeds or fails: their
polling loops touch no state of the queue.

* LSI: `replies` is the reply queue, `frames` the reply frames the adapter has to write to;
  `OnInterrupt` is two steps (test, mask). `SetInterrupts` is one step, as for a host whose
  lock also excludes the interrupt entry.
* BusLogic: inboxes and outboxes are arrays; the inbox scan looks at one inbox per step while the
  adapter fills others. A bus address is chosen among those no live buffer has
  (`FreeAddresses`), so reuse happens. `OnInterrupt` and the driver's accesses to the interrupt
  register exclude each other (LockInterrupt), hence one step each.

### LsiLogicSAS
The firmware's table (`Entries`) may change between two reads, repeat handles or places and
enumerate in circles. The table before recovery and the newly read one are compared by the code's
`Validated`. The request queue is not part of this module: recovery fails everything
outstanding before discovery starts.

### BlockAccess
`BlockTrait::Read` and `Write` are cut at their block transfers: `pc` is the transfer in progress
(head, body, tail, and the writing back of a head or tail), and the local variables of the code
are variables. A transfer is `_LOCAL_ExecuteRw10` with its checks: it is retried (`Retry`),
fails with any of its blocks moved (`Fail`), or succeeds. A byte on the disk is a pair: the call
that wrote it and the position it was meant for, so misplaced bytes are seen. Beneath it are the
host adapter drivers, reached through `fn_exec`: a function supplied by the host that submits a
command and waits for it; here it is that a transfer ends in one of these ways.

### XhciRing and XhciBulk
A slot of the ring holds a cycle bit, the buffer and the negated chain bit; the Link TRB is
the field `link`. `Push` is the code's, without a test for room. The controller owns the slot at its
dequeue pointer when the cycle bit is the one it expects. `PushTrb` is one turn of the
loop in `QueueBulkTransfer`, so the controller runs between the pushes. All TRBs of a transfer have
the length `TrbLen`: the code's 64 KB boundaries only make the first and last one shorter.
`pending` is `PendingBulkTransfer`. A callback of the class driver is three steps: the handler
leaves the arguments in `call`, the class driver answers (and may submit before that), `Return` is the
rest of the handler. The class driver here is any: it submits, sends CLEAR_FEATURE(ENDPOINT_HALT)
for any endpoint, and answers with or without an error. `ExecuteTrb`, `ExecuteCommand` and
`ExecuteControl` are the controller and the device: all, less or none of a TRB is
transferred, commands and requests succeed or fail. After a short packet the rest of the
transfer is stepped over and its last TRB reports once more, with any residual.
A control request that fails halts the default pipe (`ep0`) for good: Reset Endpoint is sent for
bulk endpoints only (`xHCI.cpp:1086`). The driver hears of the failure (length -1) if the stage that
failed is in `setup_stage_map_`; otherwise the event has no addressee (`:1560`), and the request
stays unanswered. The clear of the transaction translator's buffer is a request on the hub's
default pipe; it is treated like a command of the endpoint, one the hub need not answer.
`moved` (bytes moved) and `abandoned` (a recovery of the endpoint failed) are for the properties; no step of the code reads them.

*TransferQueue* is an endpoint without rings: blocks are appended, executed in order, dropped
together after a failed transfer. The refinement mapping reads the blocks between the
controller's and the producer's position (`Contents`). *BulkPipe* is what the class driver
sees: a transfer that is free, active or in a stage of recovery, the callbacks in the order they can
come, control requests completing in order up to the first that fails, with or without
notice, and halts the default pipe (`halted`). Both promise nothing for an endpoint whose recovery
failed, except (BulkPipe) the order of callbacks.

### UsbMassStorage
`msc` has the driver's fields; `left` counts the packets of a write, `fin` is a result Finish is
still to be called with: the code calls it at the end of the callback, and the model makes it the
next step of the driver, before the host goes on. A callback looks at the stage, as the code does,
and knows the transfer by its length; lengths are represented by the kind of buffer, the one
ambiguity (a packet and a read of the same size) being kept. `device` is what
the device has taken of the current command and whose status wrapper it will send. The host
is BulkPipe, which XhciBulk implements: transfers, failures, recoveries and their callbacks,
and a default pipe that a failed request halts (`ControlFailsInSilence` is the failure nobody
hears of). `AbortCommand` may come between any two callbacks, in the bring-up too, whose `phase_`
it leaves as it is.

## 3. Runs

| Run | Instance | Distinct states | Checks |
|---|---|---|---|
| `queue` | 2 requests, clock of 6, timeouts 0..3 | 0.3 million | `HardwareRetained`, `ExpiryExact`, `WakeupExact`, `CompletedIsFinal`, `PinnedUntilStop` |
| `scsi` | 3 requests, 1 unit, 2 clients, INQUIRY and REQUEST SENSE | 1.5 million | `DmaSafe`, `NoDmaLeak`, `OneObjectPerNexus`, `SenseReportedOnce`, `UntaggedExclusive` |
| `lsi_interrupts` | 3 requests, 2 units, 2 credits, 2 contexts | 1.6 million | `NoLostWakeup`, `FailedMeansFinished`, `ContextsUnique`, `RepliesMatch`, `FramesSuffice`, `NexusFifo` |
| `lsi_progress` | 2 requests, 1 unit, 1 credit, clock of 4 | 0.6 million | `AgeUnambiguous`, `QueueContract`, `EventuallyCompleted` |
| `bus_interrupts` | 2 requests, 2 units, 2 mailboxes, 2 addresses | 1.7 million | `AnswersMatch`, `NoLostWakeup`, `AddressesDistinct` |
| `bus_progress` | 2 requests, 1 unit, 1 mailbox, clock of 4 | 1 million | `ActiveCountExact`, `MailboxesSuffice`, `EventuallyCompleted` |
| `sas_table` | 2 handles, 2 devices, 2 places | 0.1 million | `SlotsDistinct`, `ValidationSound` |
| `block_access` | blocks of 3 bytes, a disk of 4, a partition from block 1, at most 2 blocks a command, calls of up to 9 bytes, 2 calls | 0.1 million | `CountIsTrue`, `ShortOnlyOnFailure`, `OnlyRequested`, `CallsReturn` |
| `xhci_bulk` | a receiving endpoint behind a transaction translator, 3 usable slots, transfers of 1 to 3 TRBs (4 are refused) | 0.3 million | `OnlyPendingExecuted`, `LengthExact`, `ImplementsQueue`, `ImplementsPipe`, `TransferSettles` |
| `usb_storage` | both endpoints, writes of 1 or 2 packets, 1 abort, 1 retry | 0.5 million | `FinishedIsQuiet`, `OkMeansServed`, `CommandFinishes`, `BringUpCompletes` |
| `sas_slots` | the same as `sas_table` | - | `NeverRedirected`: **violated**, see below |
| `usb_abort` | the same as `usb_storage`, a client that goes on asking | - | `AbortRestoresService`: **violated**, see below |

All but `sas_slots` and `usb_abort` pass. Each property has a mutant, a definition next to the one it
replaces (comment "Mutant of ..."), that TLC finds to violate it.

**Bounds and why they are enough.**
* Requests are used once; interactions are between at most two requests of one unit and one more
  that takes a context, mailbox or address over, hence two or three.
* `ClockModulus` is 4 or 6: large enough for a timeout below the limit, one at it and one
  above it, small enough to wrap several times in a behaviour.
* `MaxContext = 2` with two credits makes the context counter wrap and meet a context in use.
* Credits are fewer than the requests, so their limit is reached. `bus_progress` has one mailbox,
  on which two requests follow each other; more mailboxes, whose outbox index wraps, are the
  matter of the theorem `BusMailboxesSuffice`.
* `MaxLatency` is how long the host leaves the driver alone; 0 in the runs without time (the
  clock does not move, all that is untimed is interleaved), 1 in the others.
* `ClockBound` stops the free clock of the command queue's runs in `MCScsiCommandQueue`.
* `Forgetful` are the requests whose clients drop handles while the request is alive.
* `MaxLength` covers a head, two whole blocks and a tail, a run longer than one command may move
  and one past the end of the disk; `MaxCalls = 2` lets a call meet what a failed one has left.
* `Size = 4` lets a transfer of any length start at any slot, so it straddles the Link TRB in every
  way, and the longest fills the ring; one endpoint, as endpoints share only the control pipe and
  the event ring. With one buffer in `Items` a leftover block shows when no transfer is pending;
  that it is never taken for one of the next transfer's, with whatever buffers, is what the
  theorem `OnlyPendingIsExecuted` adds.
* `MaxControl` is one request at a time of a careless class driver (`xhci_bulk`). `UsbMassStorage`
  does not use it: the driver itself never has more than a few under way.
* `MaxChunks = 2` separates a packet from the last one; one abort suffices for a late completion
  to meet the next command.
* `MaxChanges` and `MaxAttempts` bound firmware changes and discovery loops.

`CHECK_DEADLOCK FALSE` is used only where the system may stop: for the command queue alone, whose
requests are used up, for `block_access`, whose calls are, and for the USB runs, where nobody has
to submit anything.

**Fairness** (`FairSpec` of both drivers): the host finishes the methods it enters (their loops
are bounded and wait for nothing but bounded polling), it calls Service again and again (the
interface's `NextTimeout` exists so that the host does), and the clock runs. Nothing is assumed
of the adapter: it may stay silent, fault or answer nonsense for ever. In `BlockAccess` a transfer
in progress ends (`WF_vars(Transfer)`): that is `EventuallyCompleted` of the drivers.
In `XhciBulk` the controller executes what it owns and the commands it is given, the device answers
control requests as long as its default pipe is not halted, events are handled and class drivers
return; the hub need not answer. In `UsbMassStorage` the host goes on as long as it
has something to do, which is what `TransferSettles` says of XhciBulk for transfers that do not fill the
ring and, behind a transaction translator, for a hub that answers; the device answers, the driver
returns; nothing is assumed of requests on a halted default pipe, and nobody has to halt it; `RetryingSpec` adds a client that
asks again, and that the host makes progress between its calls (strong fairness: a client that
polls without pause must not keep the event handler from running).

**Findings.** `sas_slots`: `ValidateAfterReset` (`LsiLogic-SAS.cpp:197`) compares the
targets before and after discovery, but returns false without restoring the old table, which
`DiscoverTargets` has cleared. The next Recover compares the new table with itself and succeeds:
slot k then addresses another device than the one published under k, although the comment says
"Keep published logical slots stable; never redirect a mounted disk after a reset." The
trace: Initialize publishes a device, the firmware replaces it by another, Recover fails its
validation, and Recover, called again, succeeds with the other device in the published slot.

`usb_abort`: `AbortCommand` (`USBHost-MSC.cpp:310`) is there "so StartCommand does not
answer kFull to every later command forever", but it only resets the class driver. When the
callback that reports the failure of its transfer comes after the abort, `OnBulkCompleted` finds the
driver idle and does not clear the halt; the transport's recovery waits for that, its transfer stays pending, and every
later command wrapper is answered Full. `AbortRestoresService` is stated for aborts in the running driver
whose default pipe works and whose endpoint is not given up: in the trace nothing else is broken.

**Notes from modelling**, which no document of the repository contradicts:
* BusLogic: `NoLostWakeup` holds for hosts that switch interrupts with nothing in flight
  (`HotToggle = FALSE`). `SetInterrupts` acknowledges the adapter without looking at the
  inboxes, so with commands in flight a completion can wait for the next interrupt or the
  timeout. How long depends on how often the host polls, which is left to it: `bus_progress` runs
  with `HotToggle = TRUE`, but `EventuallyCompleted` assumes polling and says nothing of the delay.
* BusLogic: when mailbox initialization fails in Recover, a second Recover remembers a mailbox
  count of 0 and returns true with `IsReady()` false for ever; no client waits
  (`EventuallyCompleted`).
* BusLogic: the `break` at `BusLogic.cpp:420` (no free outbox) is never reached
  (`MailboxesSuffice`).
* LSI: the `IsActive` test on the matched request of a reply is never decisive for a reply the adapter
  owes (`RepliesMatch`).
* xHCI: `QueueBulkTransfer` accepts a transfer of `UsableSize` TRBs. Its last push rewrites the Link
  TRB with the cycle bit of the new lap; a controller that has not yet followed the old one then
  stops in front of it. `TransferSettles` is therefore stated for shorter transfers; the queue
  refinement (safety) holds for all.
* xHCI: when a recovery is given up the TRBs of the transfer stay in front of the controller,
  which executes them at the next doorbell although the class driver has its buffer back. The
  properties exclude such endpoints (`abandoned`).
* xHCI: a failed control request halts the default pipe and nothing resets it. The first may be
  GET_MAX_LUN, which devices that do not implement it stall, as `USBHost-MSC.cpp:173` says; the
  bring-up goes on without it, but the first bulk endpoint that halts later needs CLEAR_FEATURE on the
  default pipe and waits for ever, and with it every command. `TransferSettles`, `CommandFinishes` and
  `BringUpCompletes` name this as a way not to end (`Unanswered`: a request of this recovery, or of
  the driver, is on a halted default pipe). The other exceptions are a recovery that failed
  (`abandoned`, `Broken`), a class driver that does not clear the halt (`Neglected`), and a hub that does
  not answer (`AwaitsHub`).
* Mass storage: an abort in the bring-up leaves `phase_` in Inquiry, ReadCapacity or RequestSense with
  nothing to drive it on. `BringUpCompletes` excludes aborted bring-ups; no caller of `AbortCommand`
  is in the repository.
* Mass storage: after an abort a write may be reported as done although a packet is missing:
  the late completion of an aborted read of the same size is taken for that of the packet.
* A partition (`DiscPartition`) adds its start to the block number and does not compare with its
  length: staying inside is left to the file system.

## 4. Theorems

All are checked by TLAPS, for every value of the constants that satisfies the named assumptions:
every set of requests, units and clients, every clock range, every number of credits, contexts
and mailboxes (`ClockAssumption`, `ScsiAssumption`, `LsiAssumption`, `BusLogicAssumption`), every
firmware table (`SasAssumption`), block size, disk and partition (`BlockAssumption`), every ring, set of
endpoints and buffers (`RingAssumption`, `BulkAssumption`), every length of a write and number of
retries and aborts (`StorageAssumption`). Two theorems have a hypothesis of their own, given with them.

* **ScsiCommandQueueProofs, the contract** (StorageRequestQueue). `Invariance`: `QSpec => []IInv` with
  `IInv == QTypeOK /\ HardwareRetained /\ PinsAndOwnership /\ AgeExact`. The ownership invariants
  need each other: FailAll keeps a request the hardware has only because a started request is
  in the queue and a pinned one is completed. `AgeExact` (the modular difference is the true
  age) is what makes `ExpiryExact` and `NoPrematureTimeout` provable; its step is the
  arithmetic of one tick at a wrap. From it follow `TypeCorrectness`, `BuffersRetained`,
  `OwnershipConsistent`, `ExpiryIsExact`, `TimeoutsAreDue`, `CompletionIsFinal`,
  `PinsHoldUntilStop`. `WakeupIsExact` needs that a least deadline exists: `LeastNatural`, by
  well-foundedness of the naturals, takes the place of induction (a least counterexample).
  `RanksAreAnOrder`: the ranks that stand for the order of the vector stay distinct.
* **ScsiCommandQueueProofs, the command queue.** `ImplementsContract`: `SSpec => QSpec`, step by step, the only
  invariant needed being that the request in Enqueue is a request. `BuffersSafe` and
  `BuffersNotLost` use `BufferInv` (an owned request holds its buffer; a held buffer has a holder)
  with `IInv`: the destructor's condition "not pinned, not active" is equivalent, for an object
  nobody holds, to the hardware not having it. `NexusesNotSplit`, `UntaggedIsAlone` and
  `SenseIsReportedOnce` come from `SharedInv`: one target state per nexus and one sense buffer per client and
  nexus, kept in the vectors as long as a request refers to them, so that a later Enqueue finds the same object
  (`ObjectsInv`); a unit is not marked as queueing while an untagged command is out (`TaggingInv`); valid
  sense data belongs to one failed command whose sense data nobody else has (`SenseInv`).
* **LsiLogicMPIProofs, BusLogicProofs.** `LsiImplementsScsi` and `BusImplementsScsi`:
  `Spec => SSpec`, from `HostInv` (Enqueue is finished before anything else; between a confirmed
  reset and FailAll the hardware holds nothing). The contract and buffer safety of both
  drivers follow. The other results of each driver:
  - LSI: `LsiContextsUnique` uses that a started request is in the queue (`IInv`), so
    that the search for a free context sees it. `LsiNoLostWakeup` strengthens the property to
    hold without a waiting reply (`WakeInv`), with interrupts off during recovery.
    `LsiFailedMeansFinished` follows from the order of the recovery's phases (`RecoveryInv`).
    `LsiRepliesMatch` and `LsiFramesSuffice` come from `ServiceInv`: a started request is with the adapter
    or has one reply (`PlacesInv`), `active_count` bounds the two sets, and frames are free or in
    a reply (`CountsInv`); with `active_count` at most the depth of the reply queue the frames suffice.
    `LsiNexusFifo`: what StartQueued has passed stays unstartable while it goes on
    (`SkippedInv`). `LsiAgeUnambiguous` is proved under `MaxTimeout + 2 * MaxLatency <= ClockModulus`:
    a request can run out just after Service has looked at the deadlines, and is then noticed one
    period of Service later, within that call's own latency. The driver does not enforce this; with a
    32-bit millisecond clock it holds for any timeout up to 49 days less two polling periods.
  - BusLogic: `BusAddressesDistinct` combines `BuffersSafe` with the allocator's promise that live
    buffers have different addresses. `BusActiveCountExact`, `BusAnswersMatch` and `BusMailboxesSuffice` come
    from `BusInv`: while the driver is in service a started command is in exactly one place, an outbox, the adapter or
    an inbox, and `active_count` is the number of places taken; so the request found by
    the address of an answer is the one the answer is for, and a free outbox exists whenever the
    limit allows a start. `BusNoLostWakeup` has the hypothesis `~HotToggle`, without which it is
    false (see the notes above).
* **LsiLogicSASProofs.** `SasSlotsDistinct`, from `SasInv` (the copy made before a recovery is distinct too, since
  it can be put back). `SasValidationSound`: the comparison of the numbers of slots and of every
  old slot leaves no device of the new table unnoticed; as the old table is distinct, this is the pigeonhole
  argument on finite sets.
* **BlockAccessProofs.** `BlockOnlyRequested`, `BlockCountIsTrue`, `BlockShortOnlyOnFailure`, from `CallInv`: the
  position of a call is always that of its next byte (`PositionInv`), and the block to be written back is
  that of the disk with the call's bytes in their places (`BackInv`). The arithmetic is that of
  block number and offset against the linear position, for every block size.
* **XhciBulkProofs.** `BulkInvariant`: `BulkSpec => []BulkInv`, for every ring size from 3 and transfers
  of any length. `BulkInv` is the conjunction of
  - `TypeInv`: types, and the shape of calls and events;
  - `RingsInv`: the slots before the write index, and only they, carry the producer's cycle
    bit, and the Link TRB never does; the push at the end of a lap keeps this because the Link TRB
    and the producer's bit change together;
  - `EndpointsInv`: the controller is on the producer's lap and behind it, or a lap behind and not
    overtaken; what lies between them is the rest of the pending transfer, by position and buffer;
    and in which phases the endpoint is halted, has a command outstanding, or skips;
  - `EventsInv`, `OrderInv`: what an event still in the event ring says of its transfer, and which
    events of one endpoint can follow each other;
  - `CallInv`: a callback that a recovery goes on from belongs to a recovery that waits for it.

  The parts need each other: that a push overtakes nobody needs that the ring is empty when no transfer is
  pending (`EndpointsInv`), which needs that the event of the last TRB is handled after that TRB was
  taken (`EventsInv`), and that no older event is taken for it (`OrderInv`). All but the types and
  `RingsInv` are stated for endpoints without a failed recovery. `BulkTypeCorrect` and
  `OnlyPendingIsExecuted` follow.

  `RingIsQueue`: `BulkSpec => ImplementsQueue`. Each action maps to Enqueue, Execute, Recover, Break or a stutter of TransferQueue; the lemmas `ContentsPush`, `ContentsTake` and
  `ContentsEmpty` say what a push, a step of the controller and a new dequeue pointer do to the sequence
  between the two positions. `BulkLengthExact` comes from `LengthInv`, the account of one transfer: until
  the controller reports a TRB, every TRB behind it was moved to its end; the first report says how
  much was moved, the rest is skipped, and what the driver remembers of a short packet, or the
  first such event still in the event ring, is that length.
* **XhciPipeProofs** (also about XhciBulk). `BulkImplementsPipe`: `BulkSpec => ImplementsPipe`, the promise to class
  drivers. `BulkInv` is not enough for it: it says little of an endpoint a recovery of which failed,
  while the class driver goes on using that endpoint and the promise goes on holding. `PipeInv`
  is inductive together with `BulkInv` and holds of every endpoint:
  - `StatesInv`: the TRBs of a transfer follow each other up to the enqueue pointer; a recovery has a transfer and keeps
    the controller off the ring; a command under way is that of the phase; only a receiving
    endpoint ends a transfer short, with a length its buffer has; while no recovery failed, a
    halted controller is at a TRB, so a transfer that fails was not served;
  - `AnswersInv`: an event in the event ring belongs to the phase of its endpoint: transfer events to none, an
    answer to its command; what it says is left is at most a TRB;
  - `SeriesInv`: at most one command of an endpoint is answered at a time, and a failure is its
    last transfer event;
  - `WaitInv`: while the class driver is in the callback a recovery goes on from, that recovery waits.

  `FailInv` is inductive by itself, with the types: a failed request is the last that was
  answered, and it has halted the default pipe. So when its event is handled nothing is left to answer, and the
  promise's `halted` becomes true in that very step.

  From these, the handler of an answer finds its recovery in the command's phase with no other
  answer outstanding (`CommandFacts`), and a completion has a length of its buffer (`LengthBound`).
  `ViewOf` is the refinement mapping of one endpoint; each action is then a step of BulkPipe or
  a stutter, one lemma per action. Most steps that the controller takes are stutters; the one that takes the
  last TRB is Serve. The requests a class driver waits for are one sequence in two
  places, answered in the event ring and unanswered at the device: `AskedPost`, `AskedAnswer`, `AskedTake` and
  `AskedSeen` say what posting and taking an event do to it, by counting places (`Count`), since `Asked`
  is stated without recursion for that purpose.
* **UsbMassStorageProofs.** `StorageInvariant`: `StorageSpec => []StorageInv`. `StorageInv` is `TypeInv`,
  `ResultInv` and, unless a command was aborted or a recovery failed (`Lost`), `PlaceInv` and `PacketsInv`: the stage of the command, the
  stage of its recovery, the phases of the two transfers, the control requests under way and
  the running callback go together (`IdleInv`, `BusyInv`, `HaltInv`, `ResetInv`), and the packets the
  device expects are those the driver has not sent. `StorageFinishedIsQuiet` and `StorageOkMeansServed` follow.

**Only model-checked:** the liveness properties (`EventuallyCompleted` of both drivers, `CallsReturn`,
`TransferSettles`, `CommandFinishes`, `BringUpCompletes`): fairness and ENABLED are out of the prover's reach.
Every safety property of a passing run, the refinements included, is also the conclusion of a theorem. The
two findings are violations, shown by TLC's traces.

## 5. Not modelled

Bytes of frames, CDBs and sense data, logging, the identification queries of BusLogic (they only
log), `CopyResult` (reads a finished request), the register protocols inside a reset or
handshake, and the completion callback (it only notifies). Of byte access:
MemoryBlockDevice (a disk whose transfers succeed unless refused), the reading of partition tables, and
a timed-out write that reaches the medium after the call has returned. Of the USB host: streams, isochronous and
interrupt endpoints, deferred pushes (control transfers), the event ring's own indices, the
removal of a device with transfers pending, `CompleteBulkFailure` (an event with more bytes left
than the TRB has), hosts that run the event handler and a submitter at the same time, and the reset of a port or
device, which would bring a halted default pipe back. The default pipe of a hub is modelled by no more than
that the hub need not answer. Of
mass storage: a configuration without bulk endpoints, `OnInterruptCompleted`, and the contents of INQUIRY,
capacity and sense data. Out of the question for model checking are the pure translators and decoders (assembler,
object formats, codecs), most of the repository's lines: they keep no state across calls
and share none. The components marked
`not_modelled` in `PROJECT.json` with the reasons given there.

## 6. Plan

Done: the request queue, the command queue, both drivers, the SAS table, byte access, the bulk
endpoints of xHCI, the mass storage class, and the theorems above.
Next, in this order:

1. Control transfers of xHCI (deferred pushes, the setup map) and the removal of devices.
2. `Mempool`: slices, coalescing, headers; refinement of an abstract allocator. FAT cluster chains
   under partial failure; TCP connection states.
