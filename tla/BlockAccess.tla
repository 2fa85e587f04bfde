----------------------------- MODULE BlockAccess -----------------------------
(***************************************************************************)
(* Byte access to a partition of a SCSI disk: BlockTrait::Read and Write   *)
(* (lib/cpp/Device/Storage.cpp) on DiscPartition on Harddisk_SCSI          *)
(* (lib/cpp/Device/Storage/Harddisk-SCSI.cpp).                             *)
(*                                                                         *)
(* A call moves a partial head block, a run of whole blocks and a partial  *)
(* tail block.  Partial blocks go through the caller's block buffer, when  *)
(* writing by reading, modifying and writing back.  Each block transfer is *)
(* tried up to three times and may fail for good; a failed write may have  *)
(* reached some of its blocks.                                             *)
(*                                                                         *)
(* A byte is the number of the call that wrote it and the position it was  *)
(* meant for, so that a byte in a wrong place is seen.                     *)
(***************************************************************************)
EXTENDS Integers

CONSTANTS
    BlockSize,    \* Block_Size, bytes
    TotalBlocks,  \* total_blocks of the disk
    SliceAddress, \* first block of the partition
    MaxTransfer,  \* blocks one READ(10) or WRITE(10) can move: 0xFFFF in the code, or fewer
                  \* when so many blocks are 4 GiB or more
    MaxLength,    \* bound: bytes of one call
    MaxCalls      \* bound: calls in a behaviour

ASSUME BlockAssumption ==
    /\ BlockSize \in Nat \ {0}
    /\ TotalBlocks \in Nat \ {0}
    /\ SliceAddress \in 0 .. TotalBlocks - 1
    /\ MaxTransfer \in Nat \ {0}
    /\ MaxLength \in Nat /\ MaxCalls \in Nat

VARIABLES
    disk,         \* bytes of the medium
    buffer,       \* the caller's block buffer
    memory,       \* the caller's dest
    op,           \* "Read" or "Write"
    linear_offset,
    requested,    \* the caller's length
    length,       \* what is left of it
    crt_block,
    block_offset,
    ret,
    pc,           \* block transfer in progress, or "idle"
    attempt,      \* of the block transfer
    failed,       \* a block transfer of this call has failed
    calls

args == <<op, linear_offset, requested, calls>>
position == <<length, crt_block, block_offset, ret>>
vars == <<disk, buffer, memory, args, position, pc, attempt, failed>>

Base  == SliceAddress * BlockSize
Bytes == 0 .. TotalBlocks * BlockSize - 1
InBlock == 0 .. BlockSize - 1
Nothing == <<0, 0 - 1>>

\* The k-th byte of the caller's src.
Source(k) == <<calls, Base + linear_offset + k>>

\* The byte k of block b of the partition.
Place(b, k) == (SliceAddress + b) * BlockSize + k

-----------------------------------------------------------------------------
(* Call and the order of the three parts                                   *)

\* Mutant of the order: the tail is forgotten after whole blocks.
PartWithoutTail(len) == IF len >= BlockSize THEN "body" ELSE "idle"

\* What follows with len bytes left and the position at the start of a block.
Part(len) ==
    CASE len >= BlockSize            -> "body"
      [] len > 0 /\ len < BlockSize  -> "tail"
      [] OTHER                       -> "idle"

Call(o, off, len) ==
    /\ pc = "idle" /\ calls < MaxCalls
    /\ calls' = calls + 1
    /\ op' = o /\ linear_offset' = off /\ requested' = len
    /\ length' = len /\ ret' = 0
    /\ crt_block' = off \div BlockSize
    /\ block_offset' = off % BlockSize
    /\ pc' = IF off % BlockSize # 0 /\ len > 0 THEN "head" ELSE Part(len)
    /\ attempt' = 0 /\ failed' = FALSE
    /\ memory' = [k \in 0 .. MaxLength - 1 |-> Nothing]
    /\ UNCHANGED <<disk, buffer>>

-----------------------------------------------------------------------------
(* One block transfer: _LOCAL_ExecuteRw10 through DiscPartition            *)

Count == IF pc = "body" THEN length \div BlockSize ELSE 1
Writing == op = "Write" /\ pc \in {"body", "headback", "tailback"}

\* The checks before the command is built.
Admissible ==
    LET lba == crt_block + SliceAddress
    IN  /\ lba < TotalBlocks
        /\ Count <= TotalBlocks - lba
        /\ Count <= MaxTransfer

\* Mutant of the retry: the count starts again.
RetryRestarting ==
    /\ pc # "idle" /\ Admissible
    /\ attempt < 2
    /\ attempt' = IF attempt = 0 THEN 1 ELSE 0
    /\ UNCHANGED <<disk, buffer, memory, args, position, pc, failed>>

\* CHECK CONDITION with sense data that asks for another attempt: the command was
\* not performed.
Retry ==
    /\ pc # "idle" /\ Admissible
    /\ attempt < 2
    /\ attempt' = attempt + 1
    /\ UNCHANGED <<disk, buffer, memory, args, position, pc, failed>>

\* What a transfer of Count blocks from the current one writes to the disk.
Data(p) ==
    IF pc = "body" THEN Source(ret + p - Place(crt_block, 0))
    ELSE buffer[p - Place(crt_block, 0)]
Written(blocks) ==
    [p \in Bytes |-> IF \E b \in blocks, k \in InBlock : p = Place(b, k)
                     THEN Data(p) ELSE disk[p]]

Blocks == crt_block .. crt_block + Count - 1

\* The block as it is read.
Fetched == [k \in InBlock |-> disk[Place(crt_block, k)]]

\* The caller's memory when Read has moved some of the whole blocks.
Moved(blocks) ==
    [k \in 0 .. MaxLength - 1 |->
        LET p == Place(crt_block, 0) + k - ret
        IN  IF \E b \in blocks, i \in InBlock : p = Place(b, i) THEN disk[p] ELSE memory[k]]

\* Refused (nothing happens), failed, or asked for another attempt once too often:
\* any of the blocks may have been moved, and the call returns what earlier transfers
\* have moved.
Fail ==
    /\ pc # "idle"
    /\ \E S \in SUBSET Blocks :
         /\ ~Admissible => S = {}
         /\ disk' = IF Writing THEN Written(S) ELSE disk
         /\ buffer' = IF ~Writing /\ pc # "body" /\ S # {} THEN Fetched ELSE buffer
         /\ memory' = IF ~Writing /\ pc = "body" THEN Moved(S) ELSE memory
    /\ failed' = TRUE
    /\ pc' = "idle" /\ attempt' = 0
    /\ UNCHANGED <<args, position>>

-----------------------------------------------------------------------------
(* Transfers that succeed                                                  *)

\* Bytes of a partial block that the call is about, and where they start.
CopySize ==
    IF pc \in {"head", "headback"} /\ BlockSize - block_offset <= length
    THEN BlockSize - block_offset ELSE length
From == IF pc \in {"head", "headback"} THEN block_offset ELSE 0

\* The caller's memory with the bytes of the partial block that the call is about.
Delivered ==
    [k \in 0 .. MaxLength - 1 |->
        IF k \in ret .. ret + CopySize - 1 THEN Fetched[From + k - ret] ELSE memory[k]]

\* Mutant of the end of the head: the block number stays.
FinishHeadStaying ==
    /\ ret' = ret + CopySize
    /\ length' = length - CopySize
    /\ block_offset' = 0
    /\ pc' = Part(length')
    /\ UNCHANGED crt_block

FinishHead ==
    /\ ret' = ret + CopySize
    /\ length' = length - CopySize
    /\ crt_block' = crt_block + 1
    /\ block_offset' = 0
    /\ pc' = Part(length')

FinishTail ==
    /\ ret' = ret + CopySize
    /\ pc' = "idle"
    /\ UNCHANGED <<length, crt_block, block_offset>>

FinishPartial == IF pc \in {"head", "headback"} THEN FinishHead ELSE FinishTail

\* Head or tail of Read.
ReadPartial ==
    /\ op = "Read" /\ pc \in {"head", "tail"} /\ Admissible
    /\ buffer' = Fetched
    /\ memory' = Delivered
    /\ FinishPartial
    /\ attempt' = 0
    /\ UNCHANGED <<disk, args, failed>>

\* Mutant of the read before a partial write: the block is not read.
FetchSkipped ==
    /\ op = "Write" /\ pc \in {"head", "tail"} /\ Admissible
    /\ buffer' = [k \in InBlock |->
                    IF k \in From .. From + CopySize - 1 THEN Source(ret + k - From)
                    ELSE buffer[k]]
    /\ pc' = IF pc = "head" THEN "headback" ELSE "tailback"
    /\ attempt' = 0
    /\ UNCHANGED <<disk, memory, args, position, failed>>

\* Head or tail of Write: read and modify ...
FetchPartial ==
    /\ op = "Write" /\ pc \in {"head", "tail"} /\ Admissible
    /\ buffer' = [k \in InBlock |->
                    IF k \in From .. From + CopySize - 1 THEN Source(ret + k - From)
                    ELSE Fetched[k]]
    /\ pc' = IF pc = "head" THEN "headback" ELSE "tailback"
    /\ attempt' = 0
    /\ UNCHANGED <<disk, memory, args, position, failed>>

\* ... and write back.
WritePartial ==
    /\ pc \in {"headback", "tailback"} /\ Admissible
    /\ disk' = Written(Blocks)
    /\ FinishPartial
    /\ attempt' = 0
    /\ UNCHANGED <<buffer, memory, args, failed>>

\* Whole blocks, directly from or to the caller's memory.
MoveBody ==
    /\ pc = "body" /\ Admissible
    /\ \/ /\ op = "Read"
          /\ memory' = Moved(Blocks)
          /\ UNCHANGED disk
       \/ /\ op = "Write"
          /\ disk' = Written(Blocks)
          /\ UNCHANGED memory
    /\ ret' = ret + Count * BlockSize
    /\ length' = length - Count * BlockSize
    /\ crt_block' = crt_block + Count
    /\ pc' = Part(length')
    /\ attempt' = 0
    /\ UNCHANGED <<buffer, args, block_offset, failed>>

-----------------------------------------------------------------------------
Init ==
    /\ disk = [p \in Bytes |-> <<0, p>>]
    /\ buffer = [k \in InBlock |-> Nothing]
    /\ memory = [k \in 0 .. MaxLength - 1 |-> Nothing]
    /\ op = "Read" /\ linear_offset = 0 /\ requested = 0 /\ calls = 0
    /\ length = 0 /\ crt_block = 0 /\ block_offset = 0 /\ ret = 0
    /\ pc = "idle" /\ attempt = 0 /\ failed = FALSE

Transfer ==
    \/ Retry
    \/ Fail
    \/ ReadPartial
    \/ FetchPartial
    \/ WritePartial
    \/ MoveBody

Next ==
    \/ \E o \in {"Read", "Write"}, off \in 0 .. TotalBlocks * BlockSize - Base - 1,
          len \in 0 .. MaxLength :
         Call(o, off, len)
    \/ Transfer

Spec == Init /\ [][Next]_vars /\ WF_vars(Transfer)

-----------------------------------------------------------------------------
(* Properties                                                              *)

\* The bytes a call is about.
Target == Base + linear_offset .. Base + linear_offset + requested - 1

\* A byte outside the requested range of a Write never changes, not even for a
\* moment and not when a transfer fails: reading, modifying and writing back whole
\* blocks does not disturb the neighbours.
OnlyRequested ==
    [][\A p \in Bytes : disk'[p] # disk[p] => op = "Write" /\ p \in Target]_vars

\* The count returned, also after a failure, is that of bytes really transferred,
\* each in its place.
CountIsTrue ==
    \A k \in 0 .. ret - 1 :
        IF op = "Write" THEN disk[Base + linear_offset + k] = Source(k)
        ELSE memory[k] = disk[Base + linear_offset + k]

\* A call comes back short only when a block transfer failed.
ShortOnlyOnFailure == pc = "idle" /\ ~failed => ret = requested

\* Every call returns: the retries are bounded.
CallsReturn == (pc # "idle") ~> (pc = "idle")

=============================================================================
