-------------------------------- MODULE Boot --------------------------------
(***************************************************************************)
(* From the firmware to the first process: efi_main and traverse_directory *)
(* of boot/boot.cc, which load the kernel and copy the volume's files into *)
(* a list, and kernel_entry and kernel_init of kernel/entry.cc, which make *)
(* the files of the list and then reclaim the memory it is in.             *)
(*                                                                         *)
(* The firmware's memory is a sequence of pieces in the order of their     *)
(* addresses.  A name is its first character and its rest: a name of wide  *)
(* characters that is read as a string of bytes ends after the first.      *)
(***************************************************************************)
EXTENDS Integers, Sequences, SequencesExt

CONSTANTS Volumes,      \* what the volume may hold
          FirmwareMaps, \* the memory before anything is allocated
          KernelPages,  \* pages of the kernel's segment
          StackPages,   \* k_kernel_stack_page_count
          DmesgPages,   \* pages of the dmesg ring buffer
          SpareEntries  \* descriptors that fit in the extra page of the map

VARIABLES btPhase,  \* how far the boot is
          btStack,  \* the directories being read: path and what is left
          btList,   \* ram_fs
          btMemory, \* the firmware's memory map
          btMap,    \* boot_info->map and map_entry_count
          btFiles,  \* paths that exist in the kernel's RamFs
          btVolume  \* the volume

btVars == <<btPhase, btStack, btList, btMemory, btMap, btFiles, btVolume>>

BootInit ==
    /\ btPhase = "load"
    /\ btVolume \in Volumes /\ btMemory \in FirmwareMaps
    /\ btStack = <<>> /\ btList = <<>> /\ btMap = <<>> /\ btFiles = {<<>>}
-----------------------------------------------------------------------------
(* allocate_pages: n pages of the i-th piece, with a type and an owner *)
CanAllocate(i, n) == btMemory[i].type = "Conventional" /\ btMemory[i].pages >= n

Allocated(i, n, type, owner) ==
    LET left == [btMemory[i] EXCEPT !.pages = @ - n]
    IN  SubSeq(btMemory, 1, i - 1)
            \o <<[type |-> type, pages |-> n, owner |-> owner]>>
            \o (IF left.pages = 0 THEN <<>> ELSE <<left>>)
            \o SubSeq(btMemory, i + 1, Len(btMemory))

(* efi_main: the kernel goes to the place its program header names. *)
LoadKernel ==
    /\ btPhase = "load"
    /\ btPhase' = IF CanAllocate(1, KernelPages) THEN "files" ELSE "stopped"
    /\ btMemory' = IF CanAllocate(1, KernelPages) THEN Allocated(1, KernelPages, "Kernel", "kernel")
                   ELSE btMemory
    /\ btStack' = <<[path |-> <<>>, left |-> btVolume]>>
    /\ UNCHANGED <<btList, btMap, btFiles, btVolume>>

(* The names that are passed over, and how they are compared *)
SkippedNames == {[first |-> "k", rest |-> "ernel"], [first |-> "N", rest |-> "vVars"],
                 [first |-> ".", rest |-> ""], [first |-> ".", rest |-> "."]}

NarrowEqual(a, b) == a.first = b.first

Skipped(name) == \E s \in SkippedNames : NarrowEqual(name, s)

Reading == Last(btStack)

NextFile == btPhase = "files" /\ btStack # <<>> /\ Reading.left # <<>>

(* traverse_directory: one entry of the directory *)
SkipEntry ==
    /\ NextFile /\ Skipped(Head(Reading.left).name)
    /\ btStack' = [btStack EXCEPT ![Len(btStack)].left = Tail(@)]
    /\ UNCHANGED <<btPhase, btList, btMemory, btMap, btFiles, btVolume>>

LoadEntry(i) ==
    LET entry == Head(Reading.left)
        path == Append(Reading.path, entry.name)
        rest == [btStack EXCEPT ![Len(btStack)].left = Tail(@)]
    IN  /\ NextFile /\ ~Skipped(entry.name) /\ CanAllocate(i, 1)
        /\ btMemory' = Allocated(i, 1, "LoaderData", "files")
        /\ btList' = Append(btList, [path |-> path, dir |-> entry.dir])
        /\ btStack' = IF entry.dir THEN Append(rest, [path |-> path, left |-> entry.entries]) ELSE rest
        /\ UNCHANGED <<btPhase, btMap, btFiles, btVolume>>

(* The directory has been read to its end and is closed. *)
CloseDirectory ==
    /\ btPhase = "files" /\ btStack # <<>> /\ Reading.left = <<>>
    /\ btStack' = Front(btStack)
    /\ btPhase' = IF Len(btStack) = 1 THEN "stack" ELSE btPhase
    /\ UNCHANGED <<btList, btMemory, btMap, btFiles, btVolume>>

AllocateStack(i) ==
    /\ btPhase = "stack" /\ CanAllocate(i, StackPages)
    /\ btMemory' = Allocated(i, StackPages, "LoaderData", "stack")
    /\ btPhase' = "dmesg"
    /\ UNCHANGED <<btStack, btList, btMap, btFiles, btVolume>>

(* Fault: the dmesg area is memory of the loader. *)
AllocateDmesgLoader(i) ==
    /\ btPhase = "dmesg" /\ CanAllocate(i, DmesgPages)
    /\ btMemory' = Allocated(i, DmesgPages, "LoaderData", "dmesg")
    /\ btPhase' = "map"
    /\ UNCHANGED <<btStack, btList, btMap, btFiles, btVolume>>

AllocateDmesg(i) ==
    /\ btPhase = "dmesg" /\ CanAllocate(i, DmesgPages)
    /\ btMemory' = Allocated(i, DmesgPages, "Kernel", "dmesg")
    /\ btPhase' = "map"
    /\ UNCHANGED <<btStack, btList, btMap, btFiles, btVolume>>

(* An EFI_CHECK stops the boot loader. *)
NoMemory ==
    LET wanted == CASE NextFile \/ btPhase = "map" -> 1 [] btPhase = "stack" -> StackPages
                    [] btPhase = "dmesg" -> DmesgPages [] OTHER -> 0
    IN  /\ wanted > 0 /\ (NextFile => ~Skipped(Head(Reading.left).name))
        /\ \A i \in DOMAIN btMemory : ~CanAllocate(i, wanted)
        /\ btPhase' = "stopped"
        /\ UNCHANGED <<btStack, btList, btMemory, btMap, btFiles, btVolume>>

KernelType(type) ==
    CASE type = "Conventional" -> "Available"
      [] type \in {"BootServices", "LoaderData"} -> "Reclaimable"
      [] OTHER -> "Reserved"

(* The map of the firmware is asked for after its own memory has been      *)
(* allocated; the last of its descriptors is not counted.                  *)
MakeMap(i) ==
    /\ btPhase = "map" /\ CanAllocate(i, 1)
    /\ LET memory == Allocated(i, 1, "LoaderData", "map")
       IN  /\ btMemory' = memory
           /\ btMap' = [k \in 1 .. Len(memory) - 1 |->
                           [type |-> KernelType(memory[k].type), pages |-> memory[k].pages,
                            owner |-> memory[k].owner]]
           /\ btPhase' = IF Len(memory) <= Len(btMemory) + SpareEntries THEN "copy" ELSE "stopped"
    /\ UNCHANGED <<btStack, btList, btFiles, btVolume>>
-----------------------------------------------------------------------------
(* kernel_init: the next entry of ram_fs is made in the file system; a     *)
(* directory that is not there ends in the EXPECT.                         *)
CopyEntry ==
    /\ btPhase = "copy" /\ btList # <<>>
    /\ IF Front(Head(btList).path) \in btFiles
       THEN btFiles' = btFiles \cup {Head(btList).path} /\ btPhase' = btPhase
       ELSE btPhase' = "expect" /\ UNCHANGED btFiles
    /\ btList' = Tail(btList)
    /\ UNCHANGED <<btStack, btMemory, btMap, btVolume>>

(* MemoryManager::reclaim: what was reclaimable is available, but for the  *)
(* piece at address 0.                                                     *)
ReclaimBoot ==
    /\ btPhase = "copy" /\ btList = <<>>
    /\ btMap' = [k \in DOMAIN btMap |->
                    [btMap[k] EXCEPT !.type = IF @ = "Reclaimable" /\ k > 1 THEN "Available" ELSE @]]
    /\ btPhase' = "running"
    /\ UNCHANGED <<btStack, btList, btMemory, btFiles, btVolume>>

BootNext ==
    \/ LoadKernel \/ SkipEntry \/ CloseDirectory \/ NoMemory \/ CopyEntry \/ ReclaimBoot
    \/ \E i \in DOMAIN btMemory : \/ LoadEntry(i) \/ AllocateStack(i)
                                  \/ AllocateDmesg(i) \/ MakeMap(i)

BootSpec == BootInit /\ [][BootNext]_btVars
-----------------------------------------------------------------------------
(* What the kernel still uses is never memory that it gives to others: its *)
(* image and the dmesg area always, the files, the boot stack and the map  *)
(* itself until reclaim, after which "boot_info is invalid to access".     *)
KernelMemoryKept ==
    \A k \in DOMAIN btMap : btMap[k].type = "Available" =>
        /\ btMap[k].owner \notin {"kernel", "dmesg"}
        /\ btMap[k].owner \in {"files", "stack", "map"} => btPhase = "running"
=============================================================================
