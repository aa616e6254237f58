--------------------------- MODULE FrameAllocator ---------------------------
(***************************************************************************)
(* The physical frame allocator of kernel/mem/memory_manager.cc: one bit   *)
(* per frame, in an array of W-bit words that is placed somewhere in the   *)
(* memory it describes.                                                    *)
(*                                                                         *)
(* A frame's bit is bit f % W of word (f + W) / W, which is bit f + W of   *)
(* the array.  The bits are the set of the positions that are 1.  A        *)
(* position past the array's end is memory of something else: what is in   *)
(* it when the kernel starts is arbitrary.                                 *)
(*                                                                         *)
(* The functions under s_lock are one step each.  reclaim takes no lock:   *)
(* clearing a bit there is a load and a store of a word.                   *)
(***************************************************************************)
EXTENDS Integers, FiniteSets

CONSTANTS FrameCpu,            \* the CPUs
          BootCpu,           \* the one kernel_init runs on
          Maps,           \* memory maps the bootloader may hand over
          W,              \* k_bucket_bit_count
          WordsPerFrame,  \* k_frame_size / sizeof(size_t)
          Trampoline,     \* the frame of the SMP trampoline (0x8000)
          HeapFrames,     \* frames of the heap's first region
          Sizes,          \* bound: numbers of frames asked of alloc_contiguous
          NoEntry            \* no map entry fits

Types == {"Available", "Reclaimable", "Reserved"}

ASSUME FrameAllocatorAssumption ==
    /\ BootCpu \in FrameCpu
    /\ W \in Nat \ {0} /\ WordsPerFrame \in Nat \ {0}
    /\ Trampoline \in Nat \ {0}
    /\ HeapFrames \in Nat \ {0}
    /\ Sizes \subseteq Nat \ {0}
    /\ \A m \in Maps : /\ IsFiniteSet(DOMAIN m) /\ Cardinality(DOMAIN m) > 1
                       /\ m \in [0 .. Cardinality(DOMAIN m) - 1 ->
                                   [type : Types, base : Nat, pages : Nat \ {0}]]

VARIABLES map,     \* boot_info->map, in frames; its last entry is not counted
          phase,   \* how far the boot CPU is
          bits,    \* the positions of frame_bitset that are 1
          blocks,  \* what has been handed out: <<first frame, how many>>
          reclaim, \* where the boot CPU is in reclaim
          todo,    \* the frames it has still to clear there
          loaded   \* the word reclaim has loaded

frameVars == <<map, phase, bits, blocks, reclaim, todo, loaded>>
-----------------------------------------------------------------------------
Entry == DOMAIN map \ {Cardinality(DOMAIN map) - 1}  \* map_entry_count of them

Covered(e) == map[e].base .. map[e].base + map[e].pages - 1

OfType(t) == UNION {Covered(e) : e \in {x \in Entry : map[x].type = t}}

(* s_data.frame_count: the end of the last entry *)
FrameCount ==
    LET End(e) == map[e].base + map[e].pages
    IN  CHOOSE n \in {End(e) : e \in Entry} : \A e \in Entry : End(e) <= n

BucketCount == FrameCount \div W + 1

DivUp(a, b) == (a + b - 1) \div b

(* find_first_fit_region: from entry map_entry_count down to entry 1 *)
FindFirstFit(pages) ==
    LET fits == {e \in DOMAIN map \ {0} : map[e].type # "Reserved" /\ map[e].pages >= pages}
    IN  IF fits = {} THEN NoEntry
        ELSE map[CHOOSE e \in fits : \A x \in fits : x <= e].base

BitsetFrames ==
    LET pages == DivUp(BucketCount, WordsPerFrame)
    IN  IF FindFirstFit(pages) = NoEntry THEN {}
        ELSE FindFirstFit(pages) .. FindFirstFit(pages) + pages - 1

Position(f) == f + W

Bucket(f) == LET first == W * (Position(f) \div W) IN first .. first + W - 1

Set(f) == Position(f) \in bits

Positions(frames) == {Position(f) : f \in frames}

FramesOf(b) == b[1] .. b[1] + b[2] - 1

Owned == UNION {FramesOf(b) : b \in blocks}
-----------------------------------------------------------------------------
FrameInit ==
    /\ map \in Maps
    /\ phase = "parse"
    /\ bits = {} /\ blocks = {}
    /\ reclaim = "before" /\ todo = {} /\ loaded = {}

(* parse_memory_map, with whatever lies in the word past the array's end *)
ParseMemoryMap ==
    /\ phase = "parse"
    /\ \E past \in SUBSET Bucket(FrameCount) :
         LET reserved == (0 .. BucketCount * W - 1) \cup {p \in past : p >= BucketCount * W}
         IN  bits' = (reserved \ Positions(OfType("Available")))
                        \cup Positions({0} \cup BitsetFrames)
    /\ phase' = IF FindFirstFit(DivUp(BucketCount, WordsPerFrame)) # NoEntry
                   /\ BitsetFrames \subseteq 0 .. FrameCount - 1
                THEN "initialise" ELSE "stopped"
    /\ UNCHANGED <<map, blocks, reclaim, todo, loaded>>

(* The frames alloc_contiguous(n) looks at, and where it stops: at the     *)
(* first start whose frames are all free, as far as there are frames.      *)
Starts(n) == {k \in 0 .. FrameCount - 1 : k % n = 0}

FreeFrom(i, n) == \A f \in i .. i + n - 1 : f < FrameCount => ~Set(f)

FirstFree(n) == CHOOSE i \in Starts(n) : /\ FreeFrom(i, n)
                                         /\ \A k \in Starts(n) : FreeFrom(k, n) => i <= k

AnyFree(n) == \E i \in Starts(n) : FreeFrom(i, n)

(* alloc_contiguous, and alloc_frame when n is 1.  ENSURE_NOT_REACHED      *)
(* stops the kernel when there is nothing, and so does the ASSERT of       *)
(* frame_bitset_bucket when the frames run past the last one.              *)
Take(n) ==
    \/ /\ AnyFree(n) /\ FirstFree(n) + n <= FrameCount
       /\ bits' = bits \cup Positions(FramesOf(<<FirstFree(n), n>>))
       /\ blocks' = blocks \cup {<<FirstFree(n), n>>}
       /\ phase' = "run"
    \/ /\ AnyFree(n) => FirstFree(n) + n > FrameCount
       /\ phase' = IF AnyFree(n) THEN "asserted" ELSE "stopped"
       /\ UNCHANGED <<bits, blocks>>

(* MemoryManager::initialise: the trampoline, then Heap::initialise *)
Initialise ==
    /\ phase = "initialise"
    /\ IF Set(Trampoline)
       THEN phase' = "stopped" /\ UNCHANGED <<bits, blocks>>
       ELSE /\ bits' = bits \cup {Position(Trampoline)}
            /\ blocks' = {<<Trampoline, 1>>}
            /\ phase' = "heap"
    /\ UNCHANGED <<map, reclaim, todo, loaded>>

CreateHeap ==
    /\ phase = "heap"
    /\ Take(HeapFrames)
    /\ UNCHANGED <<map, reclaim, todo, loaded>>

(* CPU c is in the kernel and not in reclaim; interrupts are off there. *)
Ready(c) == phase = "run" /\ (c = BootCpu => reclaim \in {"before", "after"})

Alloc(c, n) ==
    /\ Ready(c)
    /\ Take(n)
    /\ UNCHANGED <<map, reclaim, todo, loaded>>

(* Faults: free_contiguous clears a frame too many, or one too few. *)
FreeOneMore(c, b) ==
    /\ Ready(c)
    /\ b \in blocks
    /\ bits' = bits \ Positions(FramesOf(<<b[1], b[2] + 1>>))
    /\ blocks' = blocks \ {b}
    /\ UNCHANGED <<map, phase, reclaim, todo, loaded>>

FreeOneLess(c, b) ==
    /\ Ready(c)
    /\ b \in blocks
    /\ bits' = bits \ Positions(FramesOf(<<b[1], b[2] - 1>>))
    /\ blocks' = blocks \ {b}
    /\ UNCHANGED <<map, phase, reclaim, todo, loaded>>

(* free_contiguous, and free_frame when the block is one frame *)
Free(c, b) ==
    /\ Ready(c)
    /\ b \in blocks
    /\ IF \A f \in FramesOf(b) : Set(f)
       THEN /\ bits' = bits \ Positions(FramesOf(b))
            /\ blocks' = blocks \ {b}
            /\ phase' = phase
       ELSE phase' = "asserted" /\ UNCHANGED <<bits, blocks>>
    /\ UNCHANGED <<map, reclaim, todo, loaded>>

(* reclaim: entries whose base is 0 are left out *)
Reclaimable == UNION {Covered(e) : e \in {x \in Entry : /\ map[x].type = "Reclaimable"
                                                        /\ map[x].base # 0}}

ReclaimStart ==
    /\ phase = "run" /\ reclaim = "before"
    /\ todo' = Reclaimable
    /\ reclaim' = IF Reclaimable = {} THEN "after" ELSE "load"
    /\ UNCHANGED <<map, phase, bits, blocks, loaded>>

(* The entries in their order, and the frames of each in theirs *)
ReclaimNext ==
    LET e == CHOOSE x \in Entry : /\ Covered(x) \cap todo # {}
                                  /\ \A y \in Entry : Covered(y) \cap todo # {} => x <= y
    IN  CHOOSE f \in Covered(e) \cap todo : \A g \in Covered(e) \cap todo : f <= g

ReclaimLoad ==
    /\ phase = "run" /\ reclaim = "load"
    /\ loaded' = bits \cap Bucket(ReclaimNext)
    /\ reclaim' = "store"
    /\ UNCHANGED <<map, phase, bits, blocks, todo>>

ReclaimStore ==
    /\ phase = "run" /\ reclaim = "store"
    /\ bits' = (bits \ Bucket(ReclaimNext)) \cup (loaded \ {Position(ReclaimNext)})
    /\ todo' = todo \ {ReclaimNext}
    /\ loaded' = {}
    /\ reclaim' = IF todo' = {} THEN "after" ELSE "load"
    /\ UNCHANGED <<map, phase, blocks>>

FrameNext ==
    \/ ParseMemoryMap \/ Initialise \/ CreateHeap
    \/ \E c \in FrameCpu : \/ \E n \in Sizes \cup {1} : Alloc(c, n)
                     \/ \E b \in blocks : Free(c, b)
    \/ ReclaimStart \/ ReclaimLoad \/ ReclaimStore

FrameSpec == FrameInit /\ [][FrameNext]_frameVars
-----------------------------------------------------------------------------
(* A frame that alloc_frame or alloc_contiguous has handed out is marked   *)
(* as used until it is freed, so that it is not handed out again and the   *)
(* ASSERT(is_frame_set(index)) of free_frame holds.                        *)
OwnedFramesMarked == \A f \in Owned : Set(f)

(* Memory is not lost: a frame that belongs to nobody is free, from the    *)
(* start if it is available and after reclaim if it is reclaimable.        *)
NoFrameLost ==
    phase = "run" =>
        \A f \in OfType("Available") \cup (IF reclaim = "after" THEN Reclaimable ELSE {}) :
            f \in Owned \cup BitsetFrames \cup {0} \/ ~Set(f)
=============================================================================
