-------------------------- MODULE BlockAccessProofs --------------------------
(***************************************************************************)
(* Proofs about BlockAccess, for every block size, disk, partition and     *)
(* length of a call.                                                       *)
(*                                                                         *)
(* The position of a call is where its next byte belongs, and a block that *)
(* is written back differs from the disk in the bytes of the call only.    *)
(* So every write, also one that fails half way, puts the call's own bytes *)
(* in their places and leaves all others alone.                            *)
(***************************************************************************)
EXTENDS BlockAccess, TLAPS

\* Places of a call in its first block, and places where a block is written back.
Head == {"head", "headback"}
Back == {"headback", "tailback"}

\* Ranges of the arguments and counters; what has been moved lies on the disk.
ArgsInv ==
    /\ op \in {"Read", "Write"}
    /\ linear_offset \in Nat /\ requested \in 0 .. MaxLength /\ calls \in Nat
    /\ length \in Nat /\ ret \in Nat /\ crt_block \in Nat /\ block_offset \in InBlock
    /\ pc \in {"idle", "head", "headback", "body", "tail", "tailback"}
    /\ failed \in BOOLEAN
    /\ Base + linear_offset + ret <= TotalBlocks * BlockSize

\* While a block transfer is under way the position is that of the next byte of the
\* call, in a block that the part of the call is about.
PositionInv ==
    pc # "idle" =>
        /\ ~failed
        /\ ret + length = requested
        /\ crt_block * BlockSize + block_offset = linear_offset + ret
        /\ length > 0
        /\ pc \notin Head => block_offset = 0
        /\ pc = "body" => length >= BlockSize
        /\ pc \in {"tail", "tailback"} => length < BlockSize

\* The block to be written back is the one on the disk, with the call's bytes in
\* their places.
BackInv ==
    pc \in Back =>
        /\ op = "Write"
        /\ \A k \in InBlock :
             buffer[k] = IF k \in From .. From + CopySize - 1 THEN Source(ret + k - From)
                         ELSE disk[Place(crt_block, k)]

\* The inductive invariant of a call.
CallInv == ArgsInv /\ PositionInv /\ BackInv /\ CountIsTrue /\ ShortOnlyOnFailure

-----------------------------------------------------------------------------
(* Blocks and bytes                                                        *)

\* Division with remainder.
LEMMA Divided ==
    ASSUME NEW x \in Nat, NEW d \in Nat, d > 0
    PROVE  /\ x \div d \in Nat /\ x % d \in 0 .. d - 1
           /\ x = (x \div d) * d + (x % d)
  BY SMTT(30)

\* Products of natural numbers.
LEMMA Distributed == ASSUME NEW a \in Int, NEW b \in Int, NEW c \in Int
                     PROVE  (a + b) * c = a * c + b * c /\ a * c \in Int
  BY SMTT(30)

\* A product grows with its factor.
LEMMA Monotone == ASSUME NEW a \in Nat, NEW b \in Nat, NEW c \in Nat, a <= b
                  PROVE  a * c <= b * c /\ a * c \in Nat
  BY SMTT(30)

\* The constants as numbers.
LEMMA Sizes ==
    /\ BlockSize \in Nat /\ BlockSize > 0 /\ TotalBlocks \in Nat /\ SliceAddress \in Nat
    /\ MaxLength \in Nat
    /\ Base \in Nat /\ TotalBlocks * BlockSize \in Nat
<1>1. /\ BlockSize \in Nat /\ BlockSize > 0 /\ TotalBlocks \in Nat /\ SliceAddress \in Nat
      /\ MaxLength \in Nat
  BY BlockAssumption
<1>2. Base \in Nat /\ TotalBlocks * BlockSize \in Nat
  BY <1>1, Monotone DEF Base
<1> QED BY <1>1, <1>2

\* Where a byte of a block is.
LEMMA PlaceValue ==
    ASSUME NEW b \in Nat, NEW k \in Int
    PROVE  Place(b, k) = Base + b * BlockSize + k /\ b * BlockSize \in Nat
<1>1. BlockSize \in Nat /\ SliceAddress \in Nat
  BY Sizes
<1>2. (SliceAddress + b) * BlockSize = Base + b * BlockSize
  BY <1>1, Distributed DEF Base
<1> QED BY <1>1, <1>2, Monotone DEF Place

\* A byte of one of n blocks is in the range of the blocks, and the other way round.
LEMMA InBlocks ==
    ASSUME NEW c \in Nat, NEW n \in Nat, NEW p \in Int
    PROVE  (\E b \in c .. c + n - 1, k \in InBlock : p = Place(b, k))
             <=> p \in Base + c * BlockSize .. Base + c * BlockSize + n * BlockSize - 1
<1>0. /\ BlockSize \in Nat /\ BlockSize > 0 /\ Base \in Nat /\ c * BlockSize \in Nat
      /\ n * BlockSize \in Nat
  BY Sizes, Monotone
<1>1. ASSUME NEW b \in c .. c + n - 1, NEW k \in InBlock, p = Place(b, k)
      PROVE  p \in Base + c * BlockSize .. Base + c * BlockSize + n * BlockSize - 1
  <2>1. p = Base + b * BlockSize + k /\ b * BlockSize \in Nat
    BY <1>1, PlaceValue DEF InBlock
  <2>2. c * BlockSize <= b * BlockSize
    BY <1>0, Monotone
  <2>3. (b + 1) * BlockSize = b * BlockSize + BlockSize
    BY <1>0, Distributed
  <2>4. (c + n) * BlockSize = c * BlockSize + n * BlockSize
    BY <1>0, Distributed
  <2>5. (b + 1) * BlockSize <= (c + n) * BlockSize
    BY <1>0, Monotone
  <2> QED BY <1>0, <2>1, <2>2, <2>3, <2>4, <2>5 DEF InBlock
<1>2. ASSUME p \in Base + c * BlockSize .. Base + c * BlockSize + n * BlockSize - 1
      PROVE  \E b \in c .. c + n - 1, k \in InBlock : p = Place(b, k)
  <2> DEFINE x == p - Base - c * BlockSize
             d == x \div BlockSize
             k == x % BlockSize
  <2>1. x \in Nat /\ x < n * BlockSize
    BY <1>0, <1>2
  <2>2. d \in Nat /\ k \in 0 .. BlockSize - 1 /\ x = d * BlockSize + k
    BY <1>0, <2>1, Divided
  <2>3. d < n
    <3> SUFFICES ASSUME d >= n PROVE FALSE
      BY <2>2
    <3>1. n * BlockSize <= d * BlockSize /\ d * BlockSize \in Nat
      BY <1>0, <2>2, Monotone
    <3> QED BY <1>0, <2>1, <2>2, <3>1
  <2>4. (c + d) * BlockSize = c * BlockSize + d * BlockSize /\ d * BlockSize \in Int
    BY <1>0, <2>2, Distributed
  <2> HIDE DEF d, k
  <2>5. Place(c + d, k) = Base + (c + d) * BlockSize + k
    BY <2>2, PlaceValue
  <2>6. p = Place(c + d, k)
    BY <1>0, <1>2, <2>2, <2>4, <2>5
  <2>7. c + d \in c .. c + n - 1 /\ k \in InBlock
    BY <2>2, <2>3 DEF InBlock
  <2> QED BY <2>6, <2>7
<1> QED BY <1>1, <1>2

-----------------------------------------------------------------------------
(* What a block transfer moves                                             *)

\* Where the call's byte 0 is on the disk, and how many bytes of the call the
\* transfer under way is about.
Start == Base + linear_offset
Span  == IF pc = "body" THEN Count * BlockSize ELSE CopySize

\* The numbers of a call.
LEMMA Numbers ==
    ASSUME ArgsInv
    PROVE  /\ BlockSize \in Nat /\ BlockSize > 0 /\ Base \in Nat /\ Start \in Nat
           /\ linear_offset \in Nat /\ requested \in Nat /\ requested <= MaxLength
           /\ MaxLength \in Nat /\ length \in Nat /\ ret \in Nat /\ crt_block \in Nat
           /\ block_offset \in Nat /\ block_offset < BlockSize
           /\ crt_block * BlockSize \in Nat
           /\ TotalBlocks * BlockSize \in Nat
           /\ Start + ret <= TotalBlocks * BlockSize
<1>1. /\ linear_offset \in Nat /\ requested \in 0 .. MaxLength /\ length \in Nat /\ ret \in Nat
      /\ crt_block \in Nat /\ block_offset \in InBlock
      /\ Base + linear_offset + ret <= TotalBlocks * BlockSize
  BY DEF ArgsInv
<1>2. crt_block * BlockSize \in Nat
  BY <1>1, Sizes, Monotone
<1> QED BY <1>1, <1>2, Sizes DEF Start, InBlock

\* A partial block: its bytes of the call are inside the block, and the byte From of
\* the block is the next one of the call.
LEMMA PartialSpan ==
    ASSUME ArgsInv, PositionInv, pc \notin {"idle", "body"}
    PROVE  /\ CopySize \in Nat /\ CopySize > 0 /\ CopySize <= length
           /\ From \in Nat /\ From + CopySize <= BlockSize
           /\ Count = 1
           /\ \A k \in Int : Place(crt_block, k) = Start + ret + (k - From)
           /\ pc \in Head => From = block_offset
           /\ CopySize < length => pc \in Head /\ CopySize = BlockSize - block_offset
<1>1. /\ length > 0 /\ crt_block * BlockSize + block_offset = linear_offset + ret
      /\ pc \notin Head => block_offset = 0 /\ length < BlockSize
  BY DEF PositionInv, ArgsInv, Head
<1>2. From = block_offset /\ Count = 1
  BY <1>1 DEF From, Count, Head
<1>3. ASSUME NEW k \in Int PROVE Place(crt_block, k) = Start + ret + (k - From)
  <2>1. Place(crt_block, k) = Base + crt_block * BlockSize + k
    BY PlaceValue DEF ArgsInv
  <2> QED BY <1>1, <1>2, <2>1, Numbers DEF Start
<1>4. CASE pc \in Head /\ BlockSize - block_offset <= length
  <2>1. CopySize = BlockSize - block_offset
    BY <1>4 DEF CopySize, Head
  <2> QED BY <1>1, <1>2, <1>3, <1>4, <2>1, Numbers
<1>5. CASE ~(pc \in Head /\ BlockSize - block_offset <= length)
  <2>1. CopySize = length
    BY <1>5 DEF CopySize, Head
  <2>2. block_offset + length <= BlockSize
    BY <1>1, <1>5, Numbers
  <2> QED BY <1>1, <1>2, <1>3, <2>1, <2>2, Numbers
<1> QED BY <1>4, <1>5

\* Whole blocks: they are part of what is left, and start at the next byte.
LEMMA BodySpan ==
    ASSUME ArgsInv, PositionInv, pc = "body"
    PROVE  /\ Count \in Nat /\ Count * BlockSize \in Nat
           /\ Count * BlockSize > 0 /\ Count * BlockSize <= length
           /\ length - Count * BlockSize < BlockSize
           /\ crt_block * BlockSize = linear_offset + ret /\ block_offset = 0
           /\ \A k \in Int : Place(crt_block, k) = Start + ret + k
<1>1. /\ length >= BlockSize /\ block_offset = 0
      /\ crt_block * BlockSize + block_offset = linear_offset + ret
  BY DEF PositionInv, Head
<1>2. Count = length \div BlockSize
  BY DEF Count
<1>3. Count \in Nat /\ Count * BlockSize \in Nat
  BY <1>2, Divided, Monotone, Numbers
<1>4. Count * BlockSize <= length /\ length - Count * BlockSize < BlockSize
  <2>1. length = Count * BlockSize + (length % BlockSize) /\ length % BlockSize \in 0 .. BlockSize - 1
    BY <1>2, Divided, Numbers
  <2> QED BY <1>3, <2>1, Numbers
<1>5. ASSUME NEW k \in Int PROVE Place(crt_block, k) = Start + ret + k
  <2>1. Place(crt_block, k) = Base + crt_block * BlockSize + k
    BY PlaceValue DEF ArgsInv
  <2> QED BY <1>1, <2>1, Numbers DEF Start
<1> QED BY <1>1, <1>3, <1>4, <1>5, Numbers

\* A transfer is about bytes of the call not moved yet; one that passes the checks
\* ends on the disk.
LEMMA SpanBounds ==
    ASSUME ArgsInv, PositionInv, pc # "idle"
    PROVE  /\ Span \in Nat /\ Span > 0 /\ Span <= length /\ ret + Span <= requested
           /\ Admissible => Start + ret + Span <= TotalBlocks * BlockSize
<1>1. Span \in Nat /\ Span > 0 /\ Span <= length
  BY PartialSpan, BodySpan DEF Span
<1>2. ret + length = requested
  BY DEF PositionInv
<1>3. ASSUME Admissible PROVE Start + ret + Span <= TotalBlocks * BlockSize
  <2> DEFINE e == SliceAddress + crt_block + Count
  <2>1. Count \in Nat
    BY PartialSpan, BodySpan
  <2>2. e \in Nat /\ e <= TotalBlocks
    BY <1>3, <2>1, Sizes, Numbers DEF Admissible
  <2>3. e * BlockSize <= TotalBlocks * BlockSize
    BY <2>2, Sizes, Monotone
  <2>4. e * BlockSize = (SliceAddress + crt_block) * BlockSize + Count * BlockSize
    BY <2>1, Sizes, Numbers, Distributed
  <2>5. e * BlockSize = Place(crt_block, 0) + Count * BlockSize
    BY <2>1, <2>4, Sizes, Numbers, Monotone DEF Place
  <2> HIDE DEF e
  <2>6. CASE pc = "body"
    BY <2>3, <2>5, <2>6, BodySpan, Numbers DEF Span
  <2>7. CASE pc # "body"
    <3>1. Count * BlockSize = BlockSize
      BY <2>7, PartialSpan, Numbers
    <3>2. Place(crt_block, 0) = Start + ret - From
      BY <2>7, PartialSpan, Numbers
    <3> QED BY <2>3, <2>5, <2>7, <3>1, <3>2, PartialSpan, Numbers DEF Span
  <2> QED BY <2>6, <2>7
<1> QED BY <1>1, <1>2, <1>3, Numbers

\* What a write of some of the blocks does to a byte of the disk: nothing, or it puts
\* the byte of the call there that belongs there.  A write of all blocks puts all of
\* them.
LEMMA WriteEffect ==
    ASSUME ArgsInv, PositionInv, BackInv, Writing, NEW S \in SUBSET Blocks, NEW p \in Bytes
    PROVE  /\ \/ Written(S)[p] = disk[p]
              \/ /\ p \in Start + ret .. Start + ret + Span - 1
                 /\ Written(S)[p] = Source(p - Start)
           /\ S = Blocks /\ p \in Start + ret .. Start + ret + Span - 1 =>
                 Written(S)[p] = Source(p - Start)
<1> DEFINE W == Written(S)[p]
           Mine == p \in Start + ret .. Start + ret + Span - 1
<1>1. /\ (\E b \in S, k \in InBlock : p = Place(b, k)) => W = Data(p)
      /\ ~(\E b \in S, k \in InBlock : p = Place(b, k)) => W = disk[p]
  BY DEF Written
<1>2. p \in Int /\ pc # "idle"
  BY Sizes DEF Bytes, Writing
<1>3. Start \in Nat /\ ret \in Nat /\ crt_block \in Nat
  BY Numbers
<1>4. CASE pc = "body"
  <2>1. Data(p) = Source(p - Start)
    <3>1. Data(p) = Source(ret + p - Place(crt_block, 0))
      BY <1>4 DEF Data
    <3>2. ret + p - Place(crt_block, 0) = p - Start
      BY <1>2, <1>3, <1>4, BodySpan
    <3> QED BY <3>1, <3>2
  <2>2. Mine <=> \E b \in Blocks, k \in InBlock : p = Place(b, k)
    <3>1. Base + crt_block * BlockSize = Start + ret /\ Count \in Nat
      BY <1>4, BodySpan, Numbers DEF Start
    <3>2. p \in Base + crt_block * BlockSize .. Base + crt_block * BlockSize + Count * BlockSize - 1
            <=> \E b \in Blocks, k \in InBlock : p = Place(b, k)
      BY <1>2, <1>3, <3>1, InBlocks DEF Blocks
    <3> QED BY <1>4, <3>1, <3>2 DEF Span
  <2> HIDE DEF Mine
  <2> QED BY <1>1, <2>1, <2>2 DEF Mine
<1>5. CASE pc # "body"
  <2>1. pc \in Back
    BY <1>5 DEF Writing, Back
  <2>2. /\ CopySize \in Nat /\ From \in Nat /\ From + CopySize <= BlockSize /\ Count = 1
        /\ BlockSize \in Nat
        /\ \A k \in Int : Place(crt_block, k) = Start + ret + (k - From)
    BY <1>2, <1>5, PartialSpan, Numbers
  <2>3. Blocks = {crt_block}
    BY <1>3, <2>2 DEF Blocks
  <2>4. ASSUME NEW k \in InBlock, p = Place(crt_block, k)
        PROVE  /\ k \in From .. From + CopySize - 1 => Mine /\ Data(p) = Source(p - Start)
               /\ k \notin From .. From + CopySize - 1 => ~Mine /\ Data(p) = disk[p]
    <3>1. k \in Nat /\ k < BlockSize
      BY <2>2 DEF InBlock
    <3>2. Data(p) = buffer[k]
      <4>1. p - Place(crt_block, 0) = k
        BY <1>3, <2>2, <2>4, <3>1
      <4> QED BY <1>5, <4>1 DEF Data
    <3>3. p = Start + ret + (k - From)
      BY <2>2, <2>4, <3>1
    <3>4. ret + k - From = p - Start
      BY <1>3, <2>2, <3>1, <3>3
    <3>5. Mine <=> k \in From .. From + CopySize - 1
      BY <1>3, <1>5, <2>2, <3>1, <3>3 DEF Span
    <3>6. buffer[k] = IF k \in From .. From + CopySize - 1 THEN Source(ret + k - From)
                      ELSE disk[Place(crt_block, k)]
      BY <2>1 DEF BackInv
    <3> HIDE DEF Mine
    <3> QED BY <2>4, <3>2, <3>4, <3>5, <3>6
  <2>5. Mine => \E k \in InBlock : p = Place(crt_block, k)
    <3> SUFFICES ASSUME Mine PROVE \E k \in InBlock : p = Place(crt_block, k)
      OBVIOUS
    <3> DEFINE k == p - Start - ret + From
    <3>1. k \in InBlock /\ p = Start + ret + (k - From)
      BY <1>2, <1>3, <1>5, <2>2 DEF Span, InBlock
    <3>2. p = Place(crt_block, k)
      BY <1>2, <1>3, <2>2, <3>1 DEF InBlock
    <3> QED BY <3>1, <3>2
  <2> HIDE DEF Mine
  <2>6. W = disk[p] \/ (Mine /\ W = Source(p - Start))
    BY <1>1, <2>3, <2>4
  <2>7. S = Blocks /\ Mine => W = Source(p - Start)
    BY <1>1, <2>3, <2>4, <2>5
  <2> QED BY <2>6, <2>7 DEF Mine
<1> QED BY <1>4, <1>5

\* What a read of a partial block does to the caller's memory: the bytes of the call
\* that are in the block, in their places.
LEMMA DeliverEffect ==
    ASSUME ArgsInv, PositionInv, pc \notin {"idle", "body"}, NEW k \in 0 .. MaxLength - 1
    PROVE  /\ k < ret => Delivered[k] = memory[k]
           /\ k \in ret .. ret + Span - 1 => Delivered[k] = disk[Start + k]
<1>1. /\ CopySize \in Nat /\ From \in Nat /\ From + CopySize <= BlockSize
      /\ \A i \in Int : Place(crt_block, i) = Start + ret + (i - From)
  BY PartialSpan
<1>2. ret \in Nat /\ Start \in Nat /\ BlockSize \in Nat /\ MaxLength \in Nat
  BY Numbers
<1>3. k < ret => Delivered[k] = memory[k]
  BY <1>1, <1>2 DEF Delivered
<1>4. ASSUME k \in ret .. ret + Span - 1 PROVE Delivered[k] = disk[Start + k]
  <2>1. Span = CopySize
    BY DEF Span
  <2>2. Delivered[k] = Fetched[From + k - ret] /\ From + k - ret \in InBlock
    BY <1>1, <1>2, <1>4, <2>1 DEF Delivered, InBlock
  <2>3. Place(crt_block, From + k - ret) = Start + k
    BY <1>1, <1>2, <1>4
  <2> QED BY <2>2, <2>3 DEF Fetched
<1> QED BY <1>3, <1>4

\* A read of some of the whole blocks leaves alone what earlier transfers have moved,
\* a read of all of them moves all their bytes.
LEMMA MoveEffect ==
    ASSUME ArgsInv, PositionInv, pc = "body", NEW S \in SUBSET Blocks,
           NEW k \in 0 .. MaxLength - 1
    PROVE  /\ k < ret => Moved(S)[k] = memory[k]
           /\ S = Blocks /\ k \in ret .. ret + Span - 1 => Moved(S)[k] = disk[Start + k]
<1> DEFINE p == Place(crt_block, 0) + k - ret
<1>1. ret \in Nat /\ Start \in Nat /\ crt_block \in Nat /\ MaxLength \in Nat
  BY Numbers
<1>2. p = Start + k
  BY <1>1, BodySpan
<1>3. /\ (\E b \in S, i \in InBlock : p = Place(b, i)) => Moved(S)[k] = disk[p]
      /\ ~(\E b \in S, i \in InBlock : p = Place(b, i)) => Moved(S)[k] = memory[k]
  BY DEF Moved
<1>4. (\E b \in Blocks, i \in InBlock : p = Place(b, i))
        <=> p \in Start + ret .. Start + ret + Span - 1
  <2>1. Base + crt_block * BlockSize = Start + ret /\ Count \in Nat
    BY BodySpan, Numbers DEF Start
  <2>2. p \in Int
    BY <1>1, <1>2
  <2> HIDE DEF p
  <2>3. (\E b \in Blocks, i \in InBlock : p = Place(b, i)) <=>
        p \in Base + crt_block * BlockSize .. Base + crt_block * BlockSize + Count * BlockSize - 1
    BY <1>1, <2>1, <2>2, InBlocks DEF Blocks
  <2> QED BY <2>1, <2>3 DEF Span
<1>5. Span \in Nat
  BY SpanBounds
<1> HIDE DEF p
<1>6. k < ret => ~(p \in Start + ret .. Start + ret + Span - 1)
  BY <1>1, <1>2, <1>5
<1>7. k \in ret .. ret + Span - 1 => p \in Start + ret .. Start + ret + Span - 1
  BY <1>1, <1>2, <1>5
<1> QED BY <1>2, <1>3, <1>4, <1>6, <1>7

-----------------------------------------------------------------------------
(* Every step keeps the invariant                                          *)

\* A write keeps the count true, whether it fails or not.
LEMMA WriteCounts ==
    ASSUME CallInv, op = "Write", pc # "idle", UNCHANGED args,
           \A p \in Bytes : disk'[p] = disk[p] \/ disk'[p] = Source(p - Start),
           \/ ret' = ret
           \/ /\ ret' = ret + Span /\ Start + ret + Span <= TotalBlocks * BlockSize
              /\ \A p \in Start + ret .. Start + ret + Span - 1 : disk'[p] = Source(p - Start)
    PROVE  CountIsTrue'
<1> USE DEF CallInv
<1>1. op' = "Write" /\ linear_offset' = linear_offset /\ \A k : Source(k)' = Source(k)
  BY DEF args, Source
<1>2. \A k \in 0 .. ret - 1 : disk[Start + k] = Source(k)
  BY DEF CountIsTrue, Start
<1> DEFINE end == TotalBlocks * BlockSize
<1>3. ret \in Nat /\ Start \in Nat /\ end \in Nat /\ Start + ret <= end /\ Span \in Nat
  BY Numbers, SpanBounds
<1>4. Bytes = 0 .. end - 1
  BY DEF Bytes
<1>5. ret' = ret \/ ret' = ret + Span
  OBVIOUS
<1> HIDE DEF end
<1> SUFFICES ASSUME NEW k \in 0 .. ret' - 1 PROVE disk'[Start + k] = Source(k)
  BY <1>1 DEF CountIsTrue, Start
<1>6. (Start + k) - Start = k
  BY <1>3, <1>5
<1>7. CASE k < ret
  <2>1. Start + k \in Bytes
    BY <1>3, <1>4, <1>5, <1>7
  <2> QED BY <1>2, <1>3, <1>5, <1>6, <1>7, <2>1
<1>8. CASE ~(k < ret)
  <2>1. ret' # ret /\ Start + k \in Start + ret .. Start + ret + Span - 1
    BY <1>3, <1>5, <1>8
  <2> QED BY <1>6, <2>1
<1> QED BY <1>7, <1>8

\* So does a read.
LEMMA ReadCounts ==
    ASSUME CallInv, op = "Read", pc # "idle", UNCHANGED <<args, disk>>,
           \A k \in 0 .. MaxLength - 1 : k < ret => memory'[k] = memory[k],
           \/ ret' = ret
           \/ /\ ret' = ret + Span
              /\ \A k \in ret .. ret + Span - 1 : memory'[k] = disk[Start + k]
    PROVE  CountIsTrue'
<1> USE DEF CallInv
<1>1. /\ ret \in Nat /\ requested \in Nat /\ requested <= MaxLength /\ MaxLength \in Nat
      /\ Span \in Nat /\ ret + Span <= requested
  BY Numbers, SpanBounds
<1>2. op' = "Read" /\ linear_offset' = linear_offset /\ disk' = disk
  BY DEF args
<1> SUFFICES ASSUME NEW k \in 0 .. ret' - 1 PROVE memory'[k] = disk[Start + k]
  BY <1>2 DEF CountIsTrue, Start
<1>3. k < ret => memory'[k] = disk[Start + k]
  BY <1>1 DEF CountIsTrue, Start
<1>4. k >= ret => ret' = ret + Span /\ k \in ret .. ret + Span - 1
  BY <1>1
<1> QED BY <1>1, <1>3, <1>4

\* The position after a transfer that succeeds.
LEMMA FinishPosition ==
    ASSUME ArgsInv, PositionInv, pc # "idle", Admissible, UNCHANGED <<args, failed>>,
           \/ pc # "body" /\ FinishPartial
           \/ /\ pc = "body"
              /\ ret' = ret + Span /\ length' = length - Span
              /\ crt_block' = crt_block + Count /\ block_offset' = block_offset
              /\ pc' = Part(length')
    PROVE  /\ ret' = ret + Span
           /\ ArgsInv' /\ PositionInv' /\ ShortOnlyOnFailure' /\ BackInv'
<1>1. /\ BlockSize \in Nat /\ BlockSize > 0 /\ length \in Nat /\ ret \in Nat /\ crt_block \in Nat
      /\ linear_offset \in Nat /\ requested \in Nat /\ block_offset \in Nat
      /\ block_offset < BlockSize /\ crt_block * BlockSize \in Nat /\ Start \in Nat
  BY Numbers
<1>2. /\ Span \in Nat /\ Span > 0 /\ Span <= length /\ ret + Span <= requested
      /\ Start + ret + Span <= TotalBlocks * BlockSize
  BY SpanBounds
<1>3. /\ ~failed /\ ret + length = requested
      /\ crt_block * BlockSize + block_offset = linear_offset + ret
      /\ pc \notin Head => block_offset = 0
  BY DEF PositionInv
<1>4. op' = op /\ linear_offset' = linear_offset /\ requested' = requested /\ calls' = calls
  BY DEF args
<1>5. ASSUME ret' = ret + Span, length' \in Nat, crt_block' \in Nat, block_offset' \in InBlock,
             pc' \in {"idle", "body", "tail"}
      PROVE  ArgsInv'
  BY <1>1, <1>2, <1>4, <1>5 DEF ArgsInv, Start
<1>6. ASSUME ret' = ret + Span, length' = length - Span, pc' = Part(length'),
             block_offset' = 0, crt_block' \in Nat,
             Span < length => crt_block' * BlockSize = linear_offset + ret + Span
      PROVE  /\ ret' = ret + Span
             /\ ArgsInv' /\ PositionInv' /\ ShortOnlyOnFailure' /\ BackInv'
  <2>1. length' \in Nat /\ ret' + length' = requested /\ 0 \in InBlock
    BY <1>1, <1>2, <1>3, <1>6 DEF InBlock
  <2>2. /\ length' >= BlockSize => pc' = "body"
        /\ length' > 0 /\ length' < BlockSize => pc' = "tail"
        /\ length' = 0 => pc' = "idle"
    BY <1>1, <1>6, <2>1 DEF Part
  <2>3. pc' \in {"idle", "body", "tail"}
    BY <1>1, <2>1, <2>2
  <2>4. ArgsInv'
    BY <1>5, <1>6, <2>1, <2>3
  <2>5. PositionInv'
    <3> SUFFICES ASSUME pc' # "idle"
                 PROVE  /\ ~failed' /\ ret' + length' = requested'
                        /\ crt_block' * BlockSize + block_offset' = linear_offset' + ret'
                        /\ length' > 0 /\ block_offset' = 0
                        /\ pc' = "body" => length' >= BlockSize
                        /\ pc' \in {"tail", "tailback"} => length' < BlockSize
      BY DEF PositionInv
    <3>1. length' > 0
      BY <2>1, <2>2
    <3>2. Span < length
      BY <1>1, <1>2, <1>6, <3>1
    <3>3. crt_block' * BlockSize + block_offset' = linear_offset' + ret'
      <4>1. crt_block' * BlockSize = linear_offset + ret + Span
        BY <1>6, <3>2
      <4>2. block_offset' = 0 /\ linear_offset' + ret' = linear_offset + ret + Span
        BY <1>1, <1>2, <1>4, <1>6
      <4> QED BY <1>1, <1>2, <4>1, <4>2
    <3>4. (pc' = "body" => length' >= BlockSize) /\ (pc' = "tail" => length' < BlockSize)
      BY <1>1, <2>1, <2>2, <3>1
    <3> QED BY <1>3, <1>4, <1>6, <2>1, <2>3, <3>1, <3>3, <3>4
  <2>6. ShortOnlyOnFailure'
    <3> SUFFICES ASSUME pc' = "idle" PROVE ret' = requested'
      BY DEF ShortOnlyOnFailure
    <3>1. length' = 0
      BY <1>1, <2>1, <2>2
    <3> QED BY <1>1, <1>2, <1>4, <1>6, <2>1, <3>1
  <2>7. BackInv'
    BY <2>3 DEF BackInv, Back
  <2> QED BY <1>6, <2>4, <2>5, <2>6, <2>7
<1>7. CASE pc = "body"
  <2>1. Span = Count * BlockSize /\ Count \in Nat
    BY <1>7, BodySpan DEF Span
  <2>2. (crt_block + Count) * BlockSize = crt_block * BlockSize + Span
    BY <1>1, <2>1, Distributed
  <2>3. block_offset = 0
    BY <1>3, <1>7 DEF Head
  <2>4. crt_block' * BlockSize = linear_offset + ret + Span
    BY <1>1, <1>2, <1>3, <1>7, <2>2, <2>3
  <2> QED BY <1>1, <1>6, <1>7, <2>1, <2>3, <2>4
<1>8. CASE pc \in Head
  <2>1. Span = CopySize
    BY <1>8 DEF Span, Head
  <2>2. /\ ret' = ret + Span /\ length' = length - Span /\ pc' = Part(length')
        /\ block_offset' = 0 /\ crt_block' = crt_block + 1
    BY <1>8, <2>1 DEF FinishPartial, FinishHead, Head
  <2>3. Span < length => Span = BlockSize - block_offset
    BY <1>8, <2>1, PartialSpan DEF Head
  <2>4. (crt_block + 1) * BlockSize = crt_block * BlockSize + BlockSize
    BY <1>1, Distributed
  <2>5. Span < length => crt_block' * BlockSize = linear_offset + ret + Span
    BY <1>1, <1>3, <2>2, <2>3, <2>4
  <2> QED BY <1>1, <1>6, <2>2, <2>5
<1>9. CASE pc \notin Head /\ pc # "body"
  <2>1. Span = CopySize /\ ~(CopySize < length)
    BY <1>9, PartialSpan DEF Span
  <2>2. /\ ret' = ret + Span /\ pc' = "idle"
        /\ UNCHANGED <<length, crt_block, block_offset>>
    BY <1>9, <2>1 DEF FinishPartial, FinishTail, Head
  <2>3. ret' = requested'
    BY <1>1, <1>2, <1>3, <1>4, <2>1, <2>2
  <2>4. ArgsInv'
    BY <1>1, <1>5, <2>2 DEF InBlock
  <2> QED BY <2>2, <2>3, <2>4 DEF PositionInv, ShortOnlyOnFailure, BackInv, Back
<1> QED BY <1>7, <1>8, <1>9

\* A new call starts at its first byte.
LEMMA CallStep ==
    ASSUME NEW o \in {"Read", "Write"}, NEW off \in 0 .. TotalBlocks * BlockSize - Base - 1,
           NEW len \in 0 .. MaxLength, ArgsInv, Call(o, off, len)
    PROVE  CallInv'
<1> DEFINE end == TotalBlocks * BlockSize
           q == off \div BlockSize
           d == off % BlockSize
<1>1. /\ BlockSize \in Nat /\ BlockSize > 0 /\ Base \in Nat /\ end \in Nat /\ MaxLength \in Nat
      /\ off \in 0 .. end - Base - 1
  BY Sizes
<1>2. q \in Nat /\ d \in 0 .. BlockSize - 1 /\ off = q * BlockSize + d
  BY <1>1, Divided
<1>3. /\ op' = o /\ linear_offset' = off /\ requested' = len /\ calls' = calls + 1
      /\ length' = len /\ ret' = 0 /\ crt_block' = q /\ block_offset' = d
      /\ pc' = (IF d # 0 /\ len > 0 THEN "head" ELSE Part(len)) /\ failed' = FALSE
  BY DEF Call
<1> HIDE DEF q, d, end
<1>4. /\ len >= BlockSize => Part(len) = "body"
      /\ len > 0 /\ len < BlockSize => Part(len) = "tail"
      /\ len = 0 => Part(len) = "idle"
  BY <1>1 DEF Part
<1>5. /\ pc' \in {"head", "body", "tail", "idle"}
      /\ pc' # "idle" => len > 0
      /\ pc' \notin {"head", "idle"} => d = 0
      /\ pc' = "body" => len >= BlockSize
      /\ pc' = "tail" => len < BlockSize
      /\ pc' = "idle" => len = 0
  <2>1. len \in Nat
    BY <1>1
  <2>2. CASE d # 0 /\ len > 0
    BY <1>3, <2>2
  <2>3. CASE ~(d # 0 /\ len > 0)
    <3>1. pc' = Part(len)
      BY <1>3, <2>3
    <3>2. CASE len = 0
      BY <1>4, <3>1, <3>2
    <3>3. CASE len > 0 /\ len < BlockSize
      BY <1>1, <1>4, <2>1, <2>3, <3>1, <3>3
    <3>4. CASE len >= BlockSize
      BY <1>1, <1>4, <2>1, <2>3, <3>1, <3>4
    <3> QED BY <1>1, <2>1, <3>2, <3>3, <3>4
  <2> QED BY <2>2, <2>3
<1>6. Base + off + 0 <= end /\ off \in Nat
  BY <1>1
<1>7. ArgsInv'
  <2>1. calls' \in Nat /\ requested' \in 0 .. MaxLength /\ length' \in Nat
    BY <1>1, <1>3 DEF ArgsInv
  <2>2. Base + linear_offset' + ret' <= TotalBlocks * BlockSize
    BY <1>3, <1>6 DEF end
  <2> QED BY <1>2, <1>3, <1>5, <1>6, <2>1, <2>2 DEF ArgsInv, InBlock
<1>8. PositionInv'
  <2> SUFFICES ASSUME pc' # "idle"
               PROVE  /\ ~failed' /\ ret' + length' = requested'
                      /\ crt_block' * BlockSize + block_offset' = linear_offset' + ret'
                      /\ length' > 0 /\ (pc' \notin Head => block_offset' = 0)
                      /\ pc' = "body" => length' >= BlockSize
                      /\ pc' \in {"tail", "tailback"} => length' < BlockSize
    BY DEF PositionInv
  <2>1. crt_block' * BlockSize + block_offset' = linear_offset' + ret'
    BY <1>2, <1>3, <1>6
  <2>2. ret' + length' = requested'
    BY <1>1, <1>3
  <2> QED BY <1>3, <1>5, <2>1, <2>2 DEF Head
<1>9. BackInv'
  BY <1>5 DEF BackInv, Back
<1>10. CountIsTrue'
  BY <1>3 DEF CountIsTrue
<1>11. ShortOnlyOnFailure'
  BY <1>3, <1>5 DEF ShortOnlyOnFailure
<1> QED BY <1>7, <1>8, <1>9, <1>10, <1>11 DEF CallInv

\* A transfer that is not over changes neither the disk nor the position.
LEMMA SamePosition ==
    ASSUME ArgsInv, PositionInv, pc # "idle", UNCHANGED <<args, position, failed>>,
           \/ pc' = pc
           \/ pc = "head" /\ pc' = "headback"
           \/ pc = "tail" /\ pc' = "tailback"
    PROVE  ArgsInv' /\ PositionInv' /\ ShortOnlyOnFailure'
<1>1. /\ op' = op /\ linear_offset' = linear_offset /\ requested' = requested /\ calls' = calls
      /\ length' = length /\ crt_block' = crt_block /\ block_offset' = block_offset
      /\ ret' = ret
  BY DEF args, position
<1>2. ArgsInv'
  BY <1>1 DEF ArgsInv
<1>3. PositionInv'
  BY <1>1 DEF PositionInv, Head
<1> QED BY <1>2, <1>3 DEF ShortOnlyOnFailure

\* Every step of the program keeps the invariant of a call.
LEMMA BlockStep == ASSUME CallInv, [Next]_vars PROVE CallInv'
<1>0. ArgsInv /\ PositionInv /\ BackInv /\ CountIsTrue /\ ShortOnlyOnFailure
  BY DEF CallInv
<1>1. CASE UNCHANGED vars
  <2>1. UNCHANGED <<disk, buffer, memory, op, linear_offset, requested, calls, length, crt_block,
                    block_offset, ret, pc, failed>>
    BY <1>1 DEF vars, args, position
  <2>2. ArgsInv' /\ PositionInv' /\ ShortOnlyOnFailure'
    BY <1>0, <2>1 DEF ArgsInv, PositionInv, ShortOnlyOnFailure
  <2>3. BackInv' /\ CountIsTrue'
    BY <1>0, <2>1 DEF BackInv, CountIsTrue, From, CopySize, Source, Place
  <2> QED BY <2>2, <2>3 DEF CallInv
<1>2. ASSUME NEW o \in {"Read", "Write"}, NEW off \in 0 .. TotalBlocks * BlockSize - Base - 1,
             NEW len \in 0 .. MaxLength, Call(o, off, len)
      PROVE  CallInv'
  BY <1>0, <1>2, CallStep
<1>3. ASSUME Retry PROVE CallInv'
  <2>1. /\ pc # "idle" /\ UNCHANGED <<args, position, pc, failed>>
        /\ UNCHANGED <<disk, buffer, memory, op, linear_offset, calls, length, crt_block,
                       block_offset, ret>>
    BY <1>3 DEF Retry, args, position
  <2>2. ArgsInv' /\ PositionInv' /\ ShortOnlyOnFailure'
    BY <1>0, <2>1, SamePosition
  <2>3. BackInv' /\ CountIsTrue'
    BY <1>0, <2>1 DEF BackInv, CountIsTrue, From, CopySize, Source, Place
  <2> QED BY <2>2, <2>3 DEF CallInv
<1>4. ASSUME Fail PROVE CallInv'
  <2>1. /\ pc # "idle" /\ pc' = "idle" /\ failed' = TRUE /\ UNCHANGED <<args, position>>
        /\ op' = op /\ linear_offset' = linear_offset /\ requested' = requested /\ calls' = calls
        /\ length' = length /\ crt_block' = crt_block /\ block_offset' = block_offset
        /\ ret' = ret
    BY <1>4 DEF Fail, args, position
  <2>2. ArgsInv' /\ PositionInv' /\ ShortOnlyOnFailure' /\ BackInv'
    BY <1>0, <2>1 DEF ArgsInv, PositionInv, ShortOnlyOnFailure, BackInv, Back
  <2>3. PICK S \in SUBSET Blocks :
           /\ disk' = IF Writing THEN Written(S) ELSE disk
           /\ memory' = IF ~Writing /\ pc = "body" THEN Moved(S) ELSE memory
    BY <1>4 DEF Fail
  <2>4. CountIsTrue'
    <3>1. CASE Writing
      <4>1. op = "Write"
        BY <3>1 DEF Writing
      <4>2. \A p \in Bytes : disk'[p] = disk[p] \/ disk'[p] = Source(p - Start)
        BY <1>0, <2>3, <3>1, WriteEffect
      <4> QED BY <2>1, <4>1, <4>2, WriteCounts
    <3>2. CASE ~Writing /\ op = "Read"
      <4>1. \A k \in 0 .. MaxLength - 1 : k < ret => memory'[k] = memory[k]
        BY <1>0, <2>3, <3>2, MoveEffect
      <4>2. disk' = disk
        BY <2>3, <3>2
      <4> QED BY <2>1, <3>2, <4>1, <4>2, ReadCounts
    <3>3. CASE ~Writing /\ op = "Write"
      <4>1. disk' = disk
        BY <2>3, <3>3
      <4> QED BY <1>0, <2>1, <3>3, <4>1 DEF CountIsTrue, Source
    <3> QED BY <1>0, <3>1, <3>2, <3>3 DEF ArgsInv
  <2> QED BY <2>2, <2>4 DEF CallInv
<1>5. ASSUME ReadPartial PROVE CallInv'
  <2>1. /\ op = "Read" /\ pc \notin {"idle", "body"} /\ Admissible /\ memory' = Delivered
        /\ FinishPartial /\ UNCHANGED <<disk, args, failed>>
    BY <1>5 DEF ReadPartial
  <2>2. ret' = ret + Span /\ ArgsInv' /\ PositionInv' /\ ShortOnlyOnFailure' /\ BackInv'
    BY <1>0, <2>1, FinishPosition
  <2>3. \A k \in 0 .. MaxLength - 1 :
           /\ k < ret => memory'[k] = memory[k]
           /\ k \in ret .. ret + Span - 1 => memory'[k] = disk[Start + k]
    BY <1>0, <2>1, DeliverEffect
  <2>4. \A k \in ret .. ret + Span - 1 : k \in 0 .. MaxLength - 1
    BY <1>0, <2>1, SpanBounds, Numbers
  <2>5. CountIsTrue'
    BY <2>1, <2>2, <2>3, <2>4, ReadCounts
  <2> QED BY <2>2, <2>5 DEF CallInv
<1>6. ASSUME FetchPartial PROVE CallInv'
  <2>1. /\ op = "Write" /\ pc \in {"head", "tail"}
        /\ pc' = IF pc = "head" THEN "headback" ELSE "tailback"
        /\ UNCHANGED <<disk, memory, args, position, failed>>
        /\ buffer' = [k \in InBlock |->
                        IF k \in From .. From + CopySize - 1 THEN Source(ret + k - From)
                        ELSE Fetched[k]]
    BY <1>6 DEF FetchPartial
  <2>2. /\ op' = op /\ linear_offset' = linear_offset /\ calls' = calls /\ ret' = ret
        /\ length' = length /\ crt_block' = crt_block /\ block_offset' = block_offset
    BY <2>1 DEF args, position
  <2>3. ArgsInv' /\ PositionInv' /\ ShortOnlyOnFailure'
    BY <1>0, <2>1, SamePosition
  <2>4. CountIsTrue'
    BY <1>0, <2>1, <2>2 DEF CountIsTrue, Source
  <2>5. From' = From /\ CopySize' = CopySize
    BY <2>1, <2>2 DEF From, CopySize
  <2>6. \A k : Source(k)' = Source(k) /\ Place(crt_block, k)' = Place(crt_block, k)
    BY <2>2 DEF Source, Place
  <2>7. BackInv'
    <3> SUFFICES ASSUME NEW k \in InBlock
                 PROVE  buffer'[k] = IF k \in From .. From + CopySize - 1
                                     THEN Source(ret + k - From)
                                     ELSE disk[Place(crt_block, k)]
      BY <2>1, <2>2, <2>5, <2>6 DEF BackInv
    <3> QED BY <2>1 DEF Fetched
  <2> QED BY <2>3, <2>4, <2>7 DEF CallInv
<1>7. ASSUME WritePartial PROVE CallInv'
  <2>1. /\ pc \in Back /\ Admissible /\ disk' = Written(Blocks) /\ FinishPartial
        /\ UNCHANGED <<args, failed>>
    BY <1>7 DEF WritePartial, Back
  <2>2. op = "Write" /\ Writing /\ pc \notin {"idle", "body"}
    BY <1>0, <2>1 DEF BackInv, Writing, Back
  <2>3. ret' = ret + Span /\ ArgsInv' /\ PositionInv' /\ ShortOnlyOnFailure' /\ BackInv'
    BY <1>0, <2>1, <2>2, FinishPosition
  <2>4. CountIsTrue'
    <3>1. Start + ret + Span <= TotalBlocks * BlockSize
      BY <1>0, <2>1, <2>2, SpanBounds
    <3>2. \A p \in Bytes :
             /\ disk'[p] = disk[p] \/ disk'[p] = Source(p - Start)
             /\ p \in Start + ret .. Start + ret + Span - 1 => disk'[p] = Source(p - Start)
      BY <1>0, <2>1, <2>2, WriteEffect
    <3>3. \A p \in Start + ret .. Start + ret + Span - 1 : p \in Bytes
      BY <1>0, <2>2, <3>1, SpanBounds, Numbers DEF Bytes
    <3> QED BY <2>1, <2>2, <2>3, <3>1, <3>2, <3>3, WriteCounts
  <2> QED BY <2>3, <2>4 DEF CallInv
<1>8. ASSUME MoveBody PROVE CallInv'
  <2>1. /\ pc = "body" /\ Admissible
        /\ \/ op = "Read" /\ memory' = Moved(Blocks) /\ UNCHANGED disk
           \/ op = "Write" /\ disk' = Written(Blocks)
        /\ UNCHANGED <<args, block_offset, failed>>
        /\ ret' = ret + Count * BlockSize /\ length' = length - Count * BlockSize
        /\ crt_block' = crt_block + Count /\ pc' = Part(length')
    BY <1>8 DEF MoveBody
  <2>2. Span = Count * BlockSize
    BY <2>1 DEF Span
  <2>3. ret' = ret + Span /\ ArgsInv' /\ PositionInv' /\ ShortOnlyOnFailure' /\ BackInv'
    BY <1>0, <2>1, <2>2, FinishPosition
  <2>4. Start + ret + Span <= TotalBlocks * BlockSize
    BY <1>0, <2>1, SpanBounds
  <2>5. CASE op = "Read" /\ memory' = Moved(Blocks) /\ UNCHANGED disk
    <3>1. \A k \in 0 .. MaxLength - 1 :
             /\ k < ret => memory'[k] = memory[k]
             /\ k \in ret .. ret + Span - 1 => memory'[k] = disk[Start + k]
      BY <1>0, <2>1, <2>5, MoveEffect
    <3>2. \A k \in ret .. ret + Span - 1 : k \in 0 .. MaxLength - 1
      BY <1>0, <2>1, SpanBounds, Numbers
    <3>3. CountIsTrue'
      BY <2>1, <2>3, <2>5, <3>1, <3>2, ReadCounts
    <3> QED BY <2>3, <3>3 DEF CallInv
  <2>6. CASE op = "Write" /\ disk' = Written(Blocks)
    <3>1. Writing
      BY <2>1, <2>6 DEF Writing
    <3>2. \A p \in Bytes :
             /\ disk'[p] = disk[p] \/ disk'[p] = Source(p - Start)
             /\ p \in Start + ret .. Start + ret + Span - 1 => disk'[p] = Source(p - Start)
      BY <1>0, <2>6, <3>1, WriteEffect
    <3>3. \A p \in Start + ret .. Start + ret + Span - 1 : p \in Bytes
      BY <1>0, <2>1, <2>4, SpanBounds, Numbers DEF Bytes
    <3>4. CountIsTrue'
      BY <2>1, <2>3, <2>4, <2>6, <3>2, <3>3, WriteCounts
    <3> QED BY <2>3, <3>4 DEF CallInv
  <2> QED BY <2>1, <2>5, <2>6
<1> QED BY <1>1, <1>2, <1>3, <1>4, <1>5, <1>6, <1>7, <1>8 DEF Next, Transfer

-----------------------------------------------------------------------------
(* Theorems                                                                *)

\* The invariant of a call holds in every reachable state.
LEMMA BlockInvariance == Spec => []CallInv
<1>1. Init => CallInv
  <2> SUFFICES ASSUME Init PROVE CallInv
    OBVIOUS
  <2>1. /\ op = "Read" /\ linear_offset = 0 /\ requested = 0 /\ calls = 0 /\ length = 0
        /\ crt_block = 0 /\ block_offset = 0 /\ ret = 0 /\ pc = "idle" /\ failed = FALSE
    BY DEF Init
  <2>2. Base <= TotalBlocks * BlockSize
    BY BlockAssumption, Sizes, Monotone DEF Base
  <2>3. ArgsInv
    <3>1. Base + 0 + 0 <= TotalBlocks * BlockSize
      BY <2>2, Sizes
    <3>2. 0 \in 0 .. MaxLength /\ 0 \in InBlock
      BY Sizes DEF InBlock
    <3>3. Base + linear_offset + ret <= TotalBlocks * BlockSize
      BY <2>1, <3>1
    <3> QED BY <2>1, <3>2, <3>3 DEF ArgsInv
  <2> QED BY <2>1, <2>3 DEF CallInv, PositionInv, BackInv, Back, CountIsTrue, ShortOnlyOnFailure
<1>2. CallInv /\ [Next]_vars => CallInv'
  BY BlockStep
<1> QED BY <1>1, <1>2, PTL DEF Spec

\* The count a Read or Write returns, also after a failure, is that of bytes really
\* transferred, each in its place.
THEOREM BlockCountIsTrue == Spec => []CountIsTrue
<1>1. CallInv => CountIsTrue
  BY DEF CallInv
<1> QED BY <1>1, BlockInvariance, PTL

\* A Read or Write comes back short only when a block transfer failed.
THEOREM BlockShortOnlyOnFailure == Spec => []ShortOnlyOnFailure
<1>1. CallInv => ShortOnlyOnFailure
  BY DEF CallInv
<1> QED BY <1>1, BlockInvariance, PTL

\* A byte outside the requested range of a Write never changes, not even for a moment
\* and not when a transfer fails.
THEOREM BlockOnlyRequested == Spec => OnlyRequested
<1> DEFINE Harmless == \A p \in Bytes : disk'[p] # disk[p] => op = "Write" /\ p \in Target
<1>1. ASSUME CallInv, Next PROVE Harmless
  <2>0. ArgsInv /\ PositionInv /\ BackInv
    BY <1>1 DEF CallInv
  <2>1. ASSUME Writing, NEW S \in SUBSET Blocks, disk' = Written(S) PROVE Harmless
    <3> SUFFICES ASSUME NEW p \in Bytes, disk'[p] # disk[p] PROVE op = "Write" /\ p \in Target
      OBVIOUS
    <3>1. p \in Start + ret .. Start + ret + Span - 1
      BY <2>0, <2>1, WriteEffect
    <3>2. pc # "idle" /\ op = "Write"
      BY <2>1 DEF Writing
    <3>3. ret \in Nat /\ requested \in Nat /\ Start \in Nat /\ Span \in Nat /\ ret + Span <= requested
      BY <2>0, <3>2, Numbers, SpanBounds
    <3>4. p \in Start .. Start + requested - 1
      BY <3>1, <3>3
    <3> QED BY <3>2, <3>4 DEF Target, Start
  <2>2. disk' = disk => Harmless
    OBVIOUS
  <2>3. ASSUME WritePartial PROVE Harmless
    BY <2>0, <2>1, <2>3 DEF WritePartial, BackInv, Back, Writing
  <2>4. ASSUME MoveBody PROVE Harmless
    BY <2>1, <2>2, <2>4 DEF MoveBody, Writing
  <2>5. ASSUME Fail PROVE Harmless
    <3>1. PICK S \in SUBSET Blocks : disk' = IF Writing THEN Written(S) ELSE disk
      BY <2>5 DEF Fail
    <3> QED BY <2>1, <2>2, <3>1
  <2>6. Retry \/ ReadPartial \/ FetchPartial => disk' = disk
    BY DEF Retry, ReadPartial, FetchPartial
  <2>7. ASSUME NEW o, NEW off, NEW len, Call(o, off, len) PROVE disk' = disk
    BY <2>7 DEF Call
  <2> HIDE DEF Harmless
  <2> QED BY <1>1, <2>2, <2>3, <2>4, <2>5, <2>6, <2>7 DEF Next, Transfer
<1>2. CallInv /\ [Next]_vars => [Harmless]_vars
  BY <1>1
<1> QED BY <1>2, BlockInvariance, PTL DEF Spec, OnlyRequested

=============================================================================
