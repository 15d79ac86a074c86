-------------------------------- MODULE Heap --------------------------------
(***************************************************************************)
(* What an allocator promises its callers, as GlobalAlloc states it: alloc *)
(* returns null or a block inside the heap with the size and the alignment *)
(* of the layout that overlaps no live block; dealloc ends one live block. *)
(***************************************************************************)
EXTENDS HeapBlocks

CONSTANTS HeapStart, HeapEnd, Layouts

VARIABLE live  \* the blocks the callers own

Init == live = {}

Fits(b) ==
    /\ HeapStart <= b.addr
    /\ End(b) <= HeapEnd
    /\ b.addr % b.layout.align = 0
    /\ \A o \in live : Disjoint(b, o)

Alloc ==
    \E b \in live' \ live :
        /\ b.layout \in Layouts
        /\ Fits(b)
        /\ live' = live \cup {b}

Dealloc == \E b \in live : live' = live \ {b}

Next == Alloc \/ Dealloc

Spec == Init /\ [][Next]_live

=============================================================================
