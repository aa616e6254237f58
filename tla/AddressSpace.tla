---------------------------- MODULE AddressSpace ----------------------------
(***************************************************************************)
(* The address space of one process: kernel/mem/address_space.cc,          *)
(* region.cc, vm_object.cc and physical_page.cc on the page tables of      *)
(* kernel/arch/paging.hh, from the constructor of Process through          *)
(* Thread::exec and the system calls that map memory to ~AddressSpace.     *)
(*                                                                         *)
(* A process has one thread, and exec runs before that thread does, so     *)
(* nothing interleaves in an address space: the steps below follow each    *)
(* other, each with all of its page table updates.  Addresses are counted  *)
(* in 4 KiB pages and a table has two entries instead of 512, so that a    *)
(* large page is 2 pages, a huge page 4 and an entry of the PML4 covers 8. *)
(***************************************************************************)
EXTENDS SplayTree, FiniteSetsExt

CONSTANTS Total,        \* k_total_size, in pages
          KernelSize,   \* size of the identity map's VmObject
          HeapBase,     \* 6_TiB
          HeapSize,     \* 5_MiB
          StackSize,    \* 2_MiB
          Segments,     \* bound: sizes of the segments of an executable
          MaxSegments,  \* bound: segments; they do not reach HeapBase
          MapSizes,     \* bound: sizes asked of allocate_region and mmap
          DeviceBase,   \* where the memory that mmap gives to the process lies
          Frames,       \* bound: frames of the machine, 0 .. Frames - 1
          MaxRegions    \* bound: regions of the process

VARIABLES asTree,    \* m_region_tree
          asRegions, \* m_regions: base, size and the pages of the VmObject
          asTables,  \* the entries of all levels: level, position, target
          asFrames,  \* frames allocated to pages
          asPhase    \* where the process is, "stop" out of memory, "assert" after a failed ASSERT

asVars == <<asTree, asRegions, asTables, asFrames, asPhase>>
-----------------------------------------------------------------------------
Span(level) == 2 ^ (level - 1)  \* 1: page table, 2: directory, 3: PDPT, 4: PML4

TableEntry == -1  \* an entry that points to a table of the level below

EntryAt(ts, level, v) == {e \in ts : e.level = level /\ e.at = v \div Span(level)}

(* map_4KiB, map_2MiB and map_1GiB for level 1, 2 and 3: ensure the upper  *)
(* levels, which may not be large pages, and set the entry, which must be  *)
(* empty.                                                                  *)
CanMap(ts, v, phys, level) ==
    /\ v % Span(level) = 0 /\ phys % Span(level) = 0
    /\ \A l \in level + 1 .. 4 : \A e \in EntryAt(ts, l, v) : e.to = TableEntry
    /\ EntryAt(ts, level, v) = {}

MapPage(ts, v, phys, level) ==
    ts \cup {[level |-> l, at |-> v \div Span(l), to |-> TableEntry] : l \in level + 1 .. 4}
       \cup {[level |-> level, at |-> v \div Span(level), to |-> phys]}

(* unmap_4KiB, unmap_2MiB and unmap_1GiB: unset the entry, and on every    *)
(* level above it the entry of a table that has become empty               *)
CanUnmap(ts, v, level) ==
    /\ \A l \in level + 1 .. 4 : \E e \in EntryAt(ts, l, v) : e.to = TableEntry
    /\ \E e \in EntryAt(ts, level, v) : e.to # TableEntry

(* Fault: tables that have become empty are kept. *)
UnmapPageOnly(ts, v, level) == ts \ EntryAt(ts, level, v)

UnmapPage(ts, v, level) ==
    LET cut[l \in level .. 4] ==
            IF l = level THEN ts \ EntryAt(ts, l, v)
            ELSE LET c == cut[l - 1]
                 IN  IF \E e \in c : e.level = l - 1 /\ e.at \div 2 = v \div Span(l)
                     THEN c ELSE c \ EntryAt(ts, l, v)
    IN  cut[4]
-----------------------------------------------------------------------------
(* The levels of the pages of a VmObject: huge ones, large ones, the rest *)
PageLevels(size) ==
    [i \in 1 .. (size \div 4) + ((size % 4) \div 2) + (size % 2) |->
        IF i <= size \div 4 THEN 3 ELSE IF i <= (size \div 4) + ((size % 4) \div 2) THEN 2 ELSE 1]

PageSizes(levels) ==
    LET sum[i \in 0 .. Len(levels)] == IF i = 0 THEN 0 ELSE sum[i - 1] + Span(levels[i])
    IN  sum

(* PhysicalPage::allocate: the first free start that is aligned to the page *)
FreeAt(used, n) == {k \in 0 .. Frames - n : k % n = 0 /\ (k .. k + n - 1) \cap used = {}}

NoPages == <<>>

(* VmObject::create; pages are missing when memory runs out *)
CreatePages(size) ==
    LET levels == PageLevels(size)
        pick[i \in 0 .. Len(levels)] ==
            IF i = 0 THEN [used |-> asFrames, pages |-> NoPages]
            ELSE LET p == pick[i - 1]
                     n == Span(levels[i])
                 IN  IF Len(p.pages) < i - 1 \/ FreeAt(p.used, n) = {} THEN p
                     ELSE LET f == Min(FreeAt(p.used, n))
                          IN  [used |-> p.used \cup (f .. f + n - 1),
                               pages |-> Append(p.pages, [phys |-> f, level |-> levels[i], own |-> TRUE])]
    IN  pick[Len(levels)]

(* VmObject::create_physical *)
PhysicalPages(base, size) ==
    LET levels == PageLevels(size)
    IN  [i \in DOMAIN levels |-> [phys |-> base + PageSizes(levels)[i - 1],
                                  level |-> levels[i], own |-> FALSE]]

PageAddress(r, i) == r.base + PageSizes([k \in DOMAIN r.pages |-> r.pages[k].level])[i - 1]

(* Region::map and Region::unmap_if_needed, page after page *)
MapRegion(r) ==
    LET m[i \in 0 .. Len(r.pages)] ==
            IF i = 0 THEN [ts |-> asTables, ok |-> TRUE]
            ELSE LET p == r.pages[i]
                     v == PageAddress(r, i)
                     b == m[i - 1]
                 IN  [ts |-> MapPage(b.ts, v, p.phys, p.level),
                      ok |-> b.ok /\ CanMap(b.ts, v, p.phys, p.level)]
    IN  m[Len(r.pages)]

UnmapRegion(r) ==
    LET m[i \in 0 .. Len(r.pages)] ==
            IF i = 0 THEN [ts |-> asTables, ok |-> TRUE]
            ELSE LET p == r.pages[i]
                     v == PageAddress(r, i)
                     b == m[i - 1]
                 IN  [ts |-> UnmapPage(b.ts, v, p.level),
                      ok |-> b.ok /\ CanUnmap(b.ts, v, p.level)]
    IN  m[Len(r.pages)]
-----------------------------------------------------------------------------
AlignmentOf(size) == IF size >= 4 THEN 4 ELSE IF size >= 2 THEN 2 ELSE 1

AlignUp(x, a) == a * ((x + a - 1) \div a)

(* allocate_range_anywhere: the regions from minimum_node by successor,    *)
(* each with the end of the one before it                                  *)
RegionAt(base) == CHOOSE r \in {asRegions[i] : i \in DOMAIN asRegions} : r.base = base

GapStarts(size) ==
    LET w == TreeWalk(asTree)
    IN  [i \in 1 .. Len(w) + 1 |->
            IF i = 1 THEN AlignmentOf(size)
            ELSE AlignUp(w[i - 1] + RegionAt(w[i - 1]).size, AlignmentOf(size))]

RangeAnywhere(size) ==
    LET w    == TreeWalk(asTree)
        gaps == GapStarts(size)
        fits == {i \in DOMAIN w : w[i] > gaps[i] /\ w[i] - gaps[i] >= size /\ w[i] < Total}
    IN  IF fits # {} THEN gaps[Min(fits)] ELSE gaps[Len(gaps)]

FitsSpace(base, size) == base < Total /\ Total - base >= size

AsStop(why) == asPhase' = why /\ UNCHANGED <<asTree, asRegions, asTables, asFrames>>

(* allocate_anywhere or allocate_specific, then Region::map *)
AddRegion(base, size, pages, used, phase) ==
    LET r == [base |-> base, size |-> size, pages |-> pages]
    IN  IF MapRegion(r).ok
        THEN /\ asRegions' = Append(asRegions, r)
             /\ asTree' = TreeInsert(asTree, base)
             /\ asTables' = MapRegion(r).ts
             /\ asFrames' = used
             /\ asPhase' = phase
        ELSE AsStop("assert")

(* VmObject::create and a region for it; running out of frames stops the kernel. *)
NewMemory(base, size, phase) ==
    LET c == CreatePages(size)
    IN  IF Len(c.pages) < Len(PageLevels(size)) THEN AsStop("stop")
        ELSE AddRegion(base, size, c.pages, c.used, phase)

(* allocate_anywhere does not return when the address space is full. *)
MemoryAnywhere(size, phase) ==
    IF FitsSpace(RangeAnywhere(size), size) THEN NewMemory(RangeAnywhere(size), size, phase) ELSE AsStop("stop")

(* Process::Process: the identity map at 0, here already in the tables *)
AddressSpaceInit ==
    LET kernel == [base |-> 0, size |-> KernelSize, pages |-> PhysicalPages(0, KernelSize)]
    IN  /\ asRegions = <<kernel>>
        /\ asTree = TreeInsert(EmptyTree, 0)
        /\ asTables = UNION {MapPage({}, PageAddress(kernel, i), kernel.pages[i].phys,
                                     kernel.pages[i].level) : i \in DOMAIN kernel.pages}
        /\ asFrames = {}
        /\ asPhase = "exec"

(* Thread::exec: the stack, a region for each segment to load, the heap.   *)
(* It returns with an error when the file is not an executable.            *)
ExecStack ==
    /\ asPhase = "exec"
    /\ MemoryAnywhere(StackSize, "load")

ExecSegment(size) ==
    /\ asPhase = "load" /\ Len(asRegions) < MaxSegments + 2
    /\ MemoryAnywhere(size, "load")

ExecHeap ==
    /\ asPhase = "load"
    /\ NewMemory(HeapBase, HeapSize, "run")

ExecFails ==
    /\ asPhase = "load"
    /\ asPhase' = "end"
    /\ UNCHANGED <<asTree, asRegions, asTables, asFrames>>

(* sys_allocate_region *)
AllocateRegion(size) ==
    /\ asPhase = "run" /\ Len(asRegions) < MaxRegions
    /\ MemoryAnywhere(size, "run")

(* sys_mmap of a framebuffer or of a PCI function's memory *)
MapDevice(size) ==
    /\ asPhase = "run" /\ Len(asRegions) < MaxRegions
    /\ IF FitsSpace(RangeAnywhere(size), size)
       THEN AddRegion(RangeAnywhere(size), size, PhysicalPages(DeviceBase, size), asFrames, "run")
       ELSE AsStop("stop")

(* The process ends: exit, a fault, or the end of the last reference *)
EndProcess ==
    /\ asPhase = "run"
    /\ asPhase' = "end"
    /\ UNCHANGED <<asTree, asRegions, asTables, asFrames>>

OwnFrames(r) == UNION {r.pages[i].phys .. r.pages[i].phys + Span(r.pages[i].level) - 1 :
                         i \in {k \in DOMAIN r.pages : r.pages[k].own}}

(* ~AddressSpace: m_regions.clear() destroys the last region first;        *)
(* ~Region takes it out of the tree, unmaps it and drops its VmObject.     *)
DestroyRegion ==
    LET r == asRegions[Len(asRegions)]
    IN  /\ asPhase = "end" /\ asRegions # <<>>
        /\ asTree' = TreeRemove(asTree, r.base)
        /\ asTables' = UnmapRegion(r).ts
        /\ asFrames' = asFrames \ OwnFrames(r)
        /\ asRegions' = SubSeq(asRegions, 1, Len(asRegions) - 1)
        /\ asPhase' = IF UnmapRegion(r).ok THEN "end" ELSE "assert"

AddressSpaceNext ==
    \/ ExecStack \/ ExecHeap \/ ExecFails \/ EndProcess \/ DestroyRegion
    \/ \E size \in Segments : ExecSegment(size)
    \/ \E size \in MapSizes : AllocateRegion(size) \/ MapDevice(size)

AddressSpaceSpec == AddressSpaceInit /\ [][AddressSpaceNext]_asVars
-----------------------------------------------------------------------------
RegionPages(r) == r.base .. r.base + r.size - 1

(* What the processor makes of an address: the leaf that covers it *)
Translate(v) == {e.to + (v % Span(e.level)) : e \in {x \in asTables : x.to # TableEntry /\ x.at = v \div Span(x.level)}}

(* virt_to_phys: page_virt stays at the region's base while the pages are  *)
(* passed over, so that only the first page is ever matched.  {} is        *)
(* NonExistent.                                                            *)
VirtToPhys(v) ==
    LET w    == TreeWalk(asTree)
        around == {i \in DOMAIN w : v >= w[i] /\ v < w[i] + RegionAt(w[i]).size}
        match(r)  == {k \in DOMAIN r.pages : v < r.base + Span(r.pages[k].level)}
        hits == {i \in around : match(RegionAt(w[i])) # {}}
        r    == RegionAt(w[Min(hits)])
    IN  IF hits = {} THEN {} ELSE {r.pages[Min(match(r))].phys + v - r.base}

(* A range that allocate_range_anywhere returns lies in the address space  *)
(* and in no other region, whatever was mapped before, and the tree that   *)
(* it walks holds exactly the regions, the lowest one as its minimum.      *)
RegionsApart ==
    /\ Holds(asTree, {asRegions[i].base : i \in DOMAIN asRegions})
    /\ \A i \in DOMAIN asRegions :
         /\ RegionPages(asRegions[i]) \subseteq 0 .. Total - 1
         /\ \A k \in DOMAIN asRegions \ {i} : RegionPages(asRegions[i]) \cap RegionPages(asRegions[k]) = {}

(* The page tables map every region page by page to the frames of its      *)
(* VmObject and nothing else, no table is empty (the ASSERTs of ~PageLevel *)
(* and of unset rely on it), and no frame is owned twice.  virt_to_phys,   *)
(* which asks the tree, never contradicts the tables: it is right about    *)
(* the first page of a region and knows nothing of the others.             *)
TablesMatchRegions ==
    LET leaves == {e \in asTables : e.to # TableEntry}
        leavesOf(r) == {[level |-> r.pages[k].level, to |-> r.pages[k].phys,
                         at |-> PageAddress(r, k) \div Span(r.pages[k].level)] : k \in DOMAIN r.pages}
    IN  /\ asPhase # "assert"
        /\ leaves = UNION {leavesOf(asRegions[i]) : i \in DOMAIN asRegions}
        /\ \A e \in asTables \ leaves :
             \E x \in asTables : x.level = e.level - 1 /\ x.at \div 2 = e.at
        /\ asFrames = UNION {OwnFrames(asRegions[i]) : i \in DOMAIN asRegions}
        /\ \A i, k \in DOMAIN asRegions :
             i # k => OwnFrames(asRegions[i]) \cap OwnFrames(asRegions[k]) = {}
        /\ \A i \in DOMAIN asRegions : \A v \in RegionPages(asRegions[i]) :
             VirtToPhys(v) = IF v < asRegions[i].base + Span(asRegions[i].pages[1].level)
                             THEN Translate(v) ELSE {}
=============================================================================
