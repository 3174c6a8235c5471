------------------------------ MODULE MCKHeap ------------------------------
(***************************************************************************)
(* The page allocator, the heap and the page tables for TLC: a memory map  *)
(* with page 0, one with a hole whose last region ends past the pages the  *)
(* bitmap tracks, one with regions that overlap, one listed a third time,  *)
(* and one too small for the page tables.                                  *)
(***************************************************************************)
EXTENDS Paging

MCRegion(start, count) == [start |-> start, count |-> count]

MCMaps == {<<MCRegion(0, 7)>>,
           <<MCRegion(5, 6), MCRegion(1, 3)>>,
           <<MCRegion(1, 4), MCRegion(3, 3), MCRegion(4, 1)>>,
           <<MCRegion(1, 2)>>}

(* A device that starts in the last half page below the limit, and one in  *)
(* another entry of the PML4.                                              *)
MCRegions == {[addr |-> 17, size |-> 4], [addr |-> 54, size |-> 1]}
=============================================================================
