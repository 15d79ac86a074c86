------------------------ MODULE LinkedListAllocator ------------------------
(***************************************************************************)
(* kernel/src/allocator/linked_list.rs: the free memory is a singly linked *)
(* list of regions whose nodes are written into the regions themselves;    *)
(* alloc takes the first region that is large enough and gives back what   *)
(* lies behind the block, dealloc pushes the block in front of the list.   *)
(* Regions are never merged.                                               *)
(***************************************************************************)
EXTENDS HeapBlocks, Sequences, SequencesExt

CONSTANTS HeapStart, HeapSize, Layouts

ListNodeSize == 16   \* mem::size_of::<ListNode>()
ListNodeAlign == 8   \* mem::align_of::<ListNode>()

ASSUME LinkedListAssumption ==
    /\ HeapStart \in Nat /\ HeapStart % ListNodeAlign = 0
    /\ HeapSize \in Nat /\ HeapSize >= ListNodeSize
    /\ Layouts \subseteq [size : Nat \ {0}, align : Nat \ {0}]
    \* Alignments are powers of two: of any two, one divides the other.
    /\ \A l \in Layouts : ListNodeAlign % l.align = 0 \/ l.align % ListNodeAlign = 0

VARIABLES
    free,      \* the list: [addr, size] records, head.next first
    live,      \* the blocks the callers own
    panicked   \* an assert! of add_free_region failed

vars == <<free, live, panicked>>

\* size_align: align_to(align of ListNode), pad_to_align, max(size of ListNode).
adjusted_align(l) == IF l.align < ListNodeAlign THEN ListNodeAlign ELSE l.align

adjusted_size(l) ==
    LET padded == align_up(l.size, adjusted_align(l))
    IN  IF padded < ListNodeSize THEN ListNodeSize ELSE padded

end_addr(r) == r.addr + r.size

\* The asserts of add_free_region.
HoldsListNode(addr, size) ==
    align_up(addr, ListNodeAlign) = addr /\ size >= ListNodeSize

\* add_free_region in front of the list `rest'.
AddFreeRegion(rest, addr, size) ==
    IF HoldsListNode(addr, size)
    THEN free' = <<[addr |-> addr, size |-> size]>> \o rest /\ UNCHANGED panicked
    ELSE panicked' = TRUE /\ UNCHANGED free

Init ==
    /\ free = <<[addr |-> HeapStart, size |-> HeapSize]>>
    /\ live = {}
    /\ panicked = FALSE

\* Mutant: the rest of the region is not checked to hold a ListNode.
Suitable_AnyExcess(r, l) ==
    align_up(r.addr, adjusted_align(l)) + adjusted_size(l) <= end_addr(r)

\* alloc_from_region returns Ok: the block fits and what is left behind it is
\* nothing or can hold a ListNode.
Suitable(r, l) ==
    LET end == align_up(r.addr, adjusted_align(l)) + adjusted_size(l)
        excess == end_addr(r) - end
    IN  end <= end_addr(r) /\ (excess = 0 \/ excess >= ListNodeSize)

\* find_region: the first suitable region of the list.
FirstSuitable(i, l) ==
    /\ Suitable(free[i], l)
    /\ \A j \in 1 .. (i - 1) : ~Suitable(free[j], l)

\* Mutant: the region is used and stays in the list.
Alloc_KeepsRegion ==
    /\ ~panicked
    /\ \E l \in Layouts, i \in DOMAIN free :
          /\ FirstSuitable(i, l)
          /\ live' = live \cup
                {[addr |-> align_up(free[i].addr, adjusted_align(l)), layout |-> l]}
          /\ UNCHANGED <<free, panicked>>

\* Mutant: the rest is given back from the start of the region.
Alloc_RestTooLow ==
    /\ ~panicked
    /\ \E l \in Layouts, i \in DOMAIN free :
          LET r == free[i]
              start == align_up(r.addr, adjusted_align(l))
              excess == end_addr(r) - start - adjusted_size(l)
          IN  /\ FirstSuitable(i, l)
              /\ IF excess > 0
                 THEN AddFreeRegion(RemoveAt(free, i), r.addr, excess)
                 ELSE free' = RemoveAt(free, i) /\ UNCHANGED panicked
              /\ live' = live \cup {[addr |-> start, layout |-> l]}

\* alloc: the region leaves the list, the part behind the block goes back in
\* front of it; the part before an aligned block does not.
Alloc ==
    /\ ~panicked
    /\ \E l \in Layouts, i \in DOMAIN free :
          LET r == free[i]
              start == align_up(r.addr, adjusted_align(l))
              end == start + adjusted_size(l)
              excess == end_addr(r) - end
          IN  /\ FirstSuitable(i, l)
              /\ IF excess > 0
                 THEN AddFreeRegion(RemoveAt(free, i), end, excess)
                 ELSE free' = RemoveAt(free, i) /\ UNCHANGED panicked
              /\ live' = live \cup {[addr |-> start, layout |-> l]}

\* alloc: no suitable region, null.
AllocNull ==
    /\ ~panicked
    /\ \E l \in Layouts : \A i \in DOMAIN free : ~Suitable(free[i], l)
    /\ UNCHANGED vars

\* dealloc.
Dealloc ==
    /\ ~panicked
    /\ \E b \in live :
          /\ AddFreeRegion(free, b.addr, adjusted_size(b.layout))
          /\ live' = live \ {b}

Next == Alloc \/ AllocNull \/ Dealloc

Spec == Init /\ [][Next]_vars

-----------------------------------------------------------------------------

Regions == {free[i] : i \in DOMAIN free}

\* The memory a live block occupies, padding included.
Occupied(b) == [addr |-> b.addr, size |-> adjusted_size(b.layout)]

Apart(r, s) == end_addr(r) <= s.addr \/ end_addr(s) <= r.addr

\* The list nodes are written into free memory only: no region of the list
\* overlaps another one or the memory of a live block, and all lie in the
\* heap.
ListInFreeMemory ==
    /\ \A i, j \in DOMAIN free : i # j => Apart(free[i], free[j])
    /\ \A r \in Regions, b \in live : Apart(r, Occupied(b))
    /\ \A r \in Regions : HeapStart <= r.addr /\ end_addr(r) <= HeapStart + HeapSize

\* The asserts of add_free_region never fire: every region that is given
\* back can hold a ListNode.
AssertsHold == ~panicked

\* The linked-list allocator keeps the GlobalAlloc contract.
H == INSTANCE Heap WITH HeapEnd <- HeapStart + HeapSize
ImplementsHeap == H!Spec

=============================================================================
