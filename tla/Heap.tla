-------------------------------- MODULE Heap --------------------------------
(***************************************************************************)
(* The kernel heap of kernel/mem/heap.cc: a list of regions cut into       *)
(* chunks with a bitset each, and blocks too large for a region taken from *)
(* the frame allocator directly.  operator new and operator delete hold    *)
(* s_lock throughout, so each is one step.                                 *)
(*                                                                         *)
(* Addresses are numbers of bytes; a chunk, a header, a bucket, a frame    *)
(* and a region are scaled down.  A block's header is part of the block's  *)
(* record, and so are the pointer its owner has and the one allocate       *)
(* returned, which differ for aligned blocks.                              *)
(***************************************************************************)
EXTENDS Integers, Sequences, FiniteSetsExt

CONSTANTS ChunkSize,    \* k_chunk_size
          HeaderSize,   \* sizeof(AllocationHeader)
          BucketBits,   \* k_bucket_bit_count
          RegionSize,   \* 1_MiB
          RegionStruct, \* align_up(sizeof(Region), 16)
          Slack,        \* 1_KiB
          FrameSize,    \* k_frame_size
          RamFrames,    \* frames of the machine
          Alignment,    \* of the aligned operator new
          DiffSize,     \* sizeof(ptrdiff_t)
          BlockSizes,   \* bound: sizes asked of operator new
          AlignedSizes, \* bound: sizes asked of the aligned operator new
          MaxBlocks     \* bound: blocks alive at once

VARIABLES heapFrames,  \* frames that the frame allocator has given to the heap
          heapRegions, \* the list from s_base_region on
          heapBlocks,  \* blocks that have been handed out
          heapStop     \* "no", or what has stopped the kernel

heapVars == <<heapFrames, heapRegions, heapBlocks, heapStop>>
-----------------------------------------------------------------------------
Up(a, b) == (a + b - 1) \div b

(* Region::Region *)
ChunkCount == (RegionSize - RegionStruct) \div (ChunkSize + 1)

Buckets == ChunkCount \div BucketBits

Threshold == ChunkCount * ChunkSize - Slack

Memory(r) == r.base * FrameSize + RegionStruct

NewRegion(frame) == [base |-> frame, used |-> {}, count |-> 0]

(* MemoryManager::alloc_contiguous: the first free start that is a         *)
(* multiple of the number of frames                                        *)
FreeStarts(n) == {k \in 0 .. RamFrames - n : k % n = 0 /\ k .. k + n - 1 \cap heapFrames = {}}

RegionFrames(r) == r.base .. r.base + Up(RegionSize, FrameSize) - 1
-----------------------------------------------------------------------------
(* free_chunk_count when a bucket has been looked at *)
Carried(rest, free, want) == IF rest # {} /\ free < want THEN 0 ELSE free

(* One turn of the loops of Region::allocate: the zeroes from the bit that *)
(* is looked at, then the ones after them.                                 *)
ScanStep(used, want, s) ==
    LET pos   == s.bucket * BucketBits + s.viewed
        end   == (s.bucket + 1) * BucketBits
        rest  == {i \in used : i >= pos /\ i < end}
        free  == s.free + (IF rest = {} THEN end ELSE Min(rest)) - pos
        first == IF s.free = 0 THEN pos ELSE s.first
        zero  == Min({i \in Min(rest) .. end : i \notin rest})
    IN  IF s.bucket = Buckets \/ s.free >= want THEN s
        ELSE IF rest = {} \/ free >= want \/ zero = end
        THEN [bucket |-> s.bucket + 1, viewed |-> 0, first |-> first,
              free |-> Carried(rest, free, want)]
        ELSE [s EXCEPT !.viewed = zero - s.bucket * BucketBits, !.free = 0]

Scan(used, want) ==
    LET scan[i \in 0 .. ChunkCount] ==
            IF i = 0 THEN [bucket |-> 0, viewed |-> 0, free |-> 0, first |-> 0]
            ELSE ScanStep(used, want, scan[i - 1])
    IN  scan[ChunkCount]

Wanted(size) == Up(size + HeaderSize, ChunkSize)

Fits(r, size) == Scan(r.used, Wanted(size)).free >= Wanted(size)

Chunks(first, n) == first .. first + n - 1

(* Region::allocate in region k of list rs, where it fits *)
AllocateIn(rs, k, size, frames) ==
    LET n == Wanted(size)
        f == Scan(rs[k].used, n).first
    IN  [frames |-> frames, chunks |-> n,
         raw |-> Memory(rs[k]) + f * ChunkSize + HeaderSize,
         stop |-> IF Chunks(f, n) \cap rs[k].used = {} THEN "no" ELSE "assert",
         regions |-> [rs EXCEPT ![k] = [@ EXCEPT !.used = @ \cup Chunks(f, n), !.count = @ + n]]]

(* allocate's three ways: frames, a region that has room, a new region *)
LargeBlock(size) ==
    LET n == Up(size + HeaderSize, FrameSize)
        f == Min(FreeStarts(n))
    IN  [frames |-> heapFrames \cup (f .. f + n - 1), chunks |-> Up(size, ChunkSize),
         raw |-> f * FrameSize + HeaderSize, stop |-> "no", regions |-> heapRegions]

Roomy(size) == {k \in DOMAIN heapRegions : Fits(heapRegions[k], size)}

CreateRegion ==
    LET r == NewRegion(Min(FreeStarts(Up(RegionSize, FrameSize))))
    IN  Append(heapRegions, r)

SmallBlock(size) ==
    IF Roomy(size) # {} THEN AllocateIn(heapRegions, Min(Roomy(size)), size, heapFrames)
    ELSE LET rs == CreateRegion
         IN  AllocateIn(rs, Len(rs), size, heapFrames \cup RegionFrames(rs[Len(rs)]))

OutOfMemory(size) ==
    LET n == IF size >= Threshold THEN Up(size + HeaderSize, FrameSize) ELSE Up(RegionSize, FrameSize)
    IN  (size < Threshold => Roomy(size) = {}) /\ FreeStarts(n) = {}

Allocate(size) == IF size >= Threshold THEN LargeBlock(size) ELSE SmallBlock(size)
-----------------------------------------------------------------------------
(* Heap::initialise *)
HeapInit ==
    /\ heapRegions = <<NewRegion(0)>>
    /\ heapFrames = RegionFrames(NewRegion(0))
    /\ heapBlocks = {}
    /\ heapStop = "no"

(* The last aligned address that is at most Alignment bytes further on *)
Aligned(p) == p + Alignment - ((p + Alignment) % Alignment)

(* alloc_contiguous ends in ENSURE_NOT_REACHED when it finds nothing. *)
Give(size, asked, aligned) ==
    IF OutOfMemory(asked)
    THEN heapStop' = "memory" /\ UNCHANGED <<heapFrames, heapRegions, heapBlocks>>
    ELSE LET a == Allocate(asked)
         IN  /\ heapFrames' = a.frames /\ heapRegions' = a.regions /\ heapStop' = a.stop
             /\ heapBlocks' = heapBlocks \cup {[ptr |-> IF aligned THEN Aligned(a.raw) ELSE a.raw,
                                                raw |-> a.raw, size |-> size, chunks |-> a.chunks]}

(* operator new and operator new[] *)
New(size) ==
    /\ heapStop = "no" /\ Cardinality(heapBlocks) < MaxBlocks
    /\ Give(size, size, FALSE)


(* The aligned forms; the distance to what allocate returned is stored     *)
(* below the pointer.                                                      *)
NewAligned(size) ==
    /\ heapStop = "no" /\ Cardinality(heapBlocks) < MaxBlocks
    /\ Give(size, size + Alignment + DiffSize, TRUE)

(* Region::contains *)
RegionContains(r, b) == /\ b.raw - HeaderSize >= Memory(r)
                  /\ b.raw < Memory(r) + ChunkCount * ChunkSize

(* Region::deallocate, and the end of a region that is empty and not the   *)
(* first of the list                                                       *)
DeallocateIn(k, b) ==
    LET r     == heapRegions[k]
        first == (b.raw - HeaderSize - Memory(r)) \div ChunkSize
        after == [r EXCEPT !.used = @ \ Chunks(first, b.chunks), !.count = @ - b.chunks]
    IN  IF ~(Chunks(first, b.chunks) \subseteq r.used)
        THEN heapStop' = "assert" /\ UNCHANGED <<heapRegions, heapFrames>>
        ELSE /\ heapStop' = heapStop
             /\ IF after.count = 0 /\ k # 1
                THEN /\ heapRegions' = [i \in 1 .. Len(heapRegions) - 1 |->
                                          heapRegions[IF i < k THEN i ELSE i + 1]]
                     /\ heapFrames' = heapFrames \ RegionFrames(r)
                ELSE heapRegions' = [heapRegions EXCEPT ![k] = after] /\ UNCHANGED heapFrames


(* operator delete, of an aligned block too *)
Delete(b) ==
    LET in == {k \in DOMAIN heapRegions : RegionContains(heapRegions[k], b)}
        f  == (b.raw - HeaderSize) \div FrameSize
        n  == Up(b.chunks * ChunkSize, FrameSize)
    IN  /\ heapStop = "no"
        /\ heapBlocks' = heapBlocks \ {b}
        /\ \/ /\ b.chunks * ChunkSize > Threshold
              /\ heapFrames' = heapFrames \ (f .. f + n - 1)
              /\ heapStop' = IF f .. f + n - 1 \subseteq heapFrames THEN "no" ELSE "assert"
              /\ UNCHANGED heapRegions
           \/ /\ b.chunks * ChunkSize <= Threshold /\ in # {}
              /\ DeallocateIn(Min(in), b)
           \/ /\ b.chunks * ChunkSize <= Threshold /\ in = {}
              /\ UNCHANGED <<heapRegions, heapFrames, heapStop>>

HeapNext ==
    \/ \E size \in BlockSizes : New(size)
    \/ \E size \in AlignedSizes : NewAligned(size)
    \/ \E b \in heapBlocks : Delete(b)

HeapSpec == HeapInit /\ [][HeapNext]_heapVars
-----------------------------------------------------------------------------
(* What a block occupies: its header and chunks, or its header and bytes. *)
Large(b) == b.chunks * ChunkSize > Threshold
Extent(b) ==
    LET start == b.raw - HeaderSize
    IN  start .. IF Large(b) THEN b.ptr + b.size - 1 ELSE start + b.chunks * ChunkSize - 1

Overhead(r) == r.base * FrameSize .. Memory(r) - 1
BitsetBytes(r) == Memory(r) + ChunkCount * ChunkSize .. r.base * FrameSize + RegionSize - 1



=============================================================================
