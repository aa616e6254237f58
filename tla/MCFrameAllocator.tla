-------------------------- MODULE MCFrameAllocator --------------------------
(***************************************************************************)
(* Memory maps for FrameAllocator.  There are 12 frames and words of 4     *)
(* bits; the last entry of each map is the one that map_entry_count leaves *)
(* out.                                                                    *)
(***************************************************************************)
EXTENDS FrameAllocator

E(type, base, pages) == [type |-> type, base |-> base, pages |-> pages]

(* Low memory, boot services data, more memory, and the end of the map     *)
(* reserved; and one with reclaimable memory at 0 and with holes.          *)
PlainMaps == {
    [i \in 0 .. 4 |-> <<E("Available", 0, 5), E("Reclaimable", 5, 2), E("Available", 7, 3),
                        E("Reserved", 10, 2), E("Reserved", 12, 4)>>[i + 1]],
    [i \in 0 .. 4 |-> <<E("Reclaimable", 0, 2), E("Reclaimable", 5, 2), E("Available", 2, 3),
                        E("Available", 9, 3), E("Reserved", 12, 4)>>[i + 1]]}
=============================================================================
