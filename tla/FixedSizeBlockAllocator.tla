---------------------- MODULE FixedSizeBlockAllocator ----------------------
(***************************************************************************)
(* kernel/src/allocator/fixed_size_block.rs: one list of free blocks per   *)
(* block size, filled by dealloc and refilled from a fallback heap.  The   *)
(* fallback is the linked_list_allocator crate; it is external and         *)
(* modelled by what the code needs of it: a region that overlaps none it   *)
(* has handed out, in the first hole that is large enough, or an error.    *)
(***************************************************************************)
EXTENDS HeapBlocks, Sequences, SequencesExt, FiniteSets

CONSTANTS HeapStart, HeapSize, Layouts, MaxLive

BLOCK_SIZES == <<8, 16, 32, 64, 128, 256, 512, 1024, 2048, 4098>>

\* Layout::from_size_align returns Ok only for a power of two.
PowerOfTwo(n) == \E k \in 0 .. 16 : n = 2 ^ k

PointerSize == 8   \* mem::size_of::<ListNode>() and its alignment

ASSUME FixedSizeBlockAssumption ==
    /\ HeapStart \in Nat /\ HeapSize \in Nat
    /\ Layouts \subseteq [size : Nat \ {0}, align : Nat \ {0}]
    /\ MaxLive \in Nat
    \* Alignments are powers of two: of any two, one divides the other.
    /\ \A l \in Layouts, i \in DOMAIN BLOCK_SIZES :
          PowerOfTwo(BLOCK_SIZES[i]) =>
              BLOCK_SIZES[i] % l.align = 0 \/ l.align % BLOCK_SIZES[i] = 0

VARIABLES
    list_heads,  \* per block size, the addresses of its free blocks
    used,        \* the blocks the fallback heap has handed out
    live,        \* the blocks the callers own
    panicked     \* an unwrap or an assert! failed

vars == <<list_heads, used, live, panicked>>

Index == DOMAIN BLOCK_SIZES

\* list_index: the first block size that is large enough, 0 for None.
list_index(l) ==
    LET required == IF l.size > l.align THEN l.size ELSE l.align
    IN  SelectInSeq(BLOCK_SIZES, LAMBDA s : s >= required)

BlockLayout(i) == [size |-> BLOCK_SIZES[i], align |-> BLOCK_SIZES[i]]

Init ==
    /\ list_heads = [i \in Index |-> <<>>]
    /\ used = {}
    /\ live = {}
    /\ panicked = FALSE

-----------------------------------------------------------------------------
(* linked_list_allocator::Heap.                                            *)

\* Where a block can be placed: the aligned starts of holes.
Placements(l) ==
    {a \in {align_up(e, l.align) : e \in {HeapStart} \cup {End(u) : u \in used}} :
        LET b == [addr |-> a, layout |-> l] IN
        End(b) <= HeapStart + HeapSize /\ \A u \in used : Disjoint(b, u)}

\* fallback_alloc, for a caller that asked for layout `l' and gets one of
\* layout `f' or null.
FallbackAlloc(f, l) ==
    /\ Placements(f) # {}
    /\ LET a == Min(Placements(f)) IN     \* first fit
          /\ used' = used \cup {[addr |-> a, layout |-> f]}
          /\ live' = live \cup {[addr |-> a, layout |-> l]}
    /\ UNCHANGED <<list_heads, panicked>>

FallbackNull(f) == Placements(f) = {} /\ UNCHANGED vars

-----------------------------------------------------------------------------

Asked(l) == ~panicked /\ Cardinality(live) < MaxLive /\ l \in Layouts

\* Mutant: the block stays on its list.
AllocFromList_KeepsBlock(l) ==
    LET i == list_index(l) IN
    /\ Asked(l)
    /\ i # 0
    /\ list_heads[i] # <<>>
    /\ live' = live \cup {[addr |-> Head(list_heads[i]), layout |-> l]}
    /\ UNCHANGED <<used, panicked, list_heads>>

\* alloc: the list of the block size has a free block.
AllocFromList(l) ==
    LET i == list_index(l) IN
    /\ Asked(l)
    /\ i # 0
    /\ list_heads[i] # <<>>
    /\ live' = live \cup {[addr |-> Head(list_heads[i]), layout |-> l]}
    /\ list_heads' = [list_heads EXCEPT ![i] = Tail(@)]
    /\ UNCHANGED <<used, panicked>>

\* alloc: no block in the list, a new one from the fallback heap;
\* Layout::from_size_align(block_size, block_align).unwrap() comes first.
AllocNewBlock(l) ==
    LET i == list_index(l) IN
    /\ Asked(l)
    /\ i # 0
    /\ list_heads[i] = <<>>
    /\ PowerOfTwo(BLOCK_SIZES[i])
    /\ FallbackAlloc(BlockLayout(i), l) \/ FallbackNull(BlockLayout(i))

\* ... and that unwrap fails for a block size that is no power of two.
AllocLayoutPanic(l) ==
    LET i == list_index(l) IN
    /\ Asked(l)
    /\ i # 0
    /\ list_heads[i] = <<>>
    /\ ~PowerOfTwo(BLOCK_SIZES[i])
    /\ panicked' = TRUE
    /\ UNCHANGED <<list_heads, used, live>>

\* alloc: larger than every block size.
AllocLarge(l) ==
    /\ Asked(l)
    /\ list_index(l) = 0
    /\ FallbackAlloc(l, l) \/ FallbackNull(l)

\* Mutant: the block goes to the next larger size's list.
DeallocToList_LargerClass(b) ==
    LET i == list_index(b.layout) IN
    /\ ~panicked
    /\ i # 0
    /\ list_heads' = [list_heads EXCEPT ![i + 1] = <<b.addr>> \o @]
    /\ live' = live \ {b}
    /\ UNCHANGED <<used, panicked>>

\* dealloc: the block goes in front of the list of its size; its first bytes
\* become the list node.
DeallocToList(b) ==
    LET i == list_index(b.layout) IN
    /\ ~panicked
    /\ i # 0
    /\ PointerSize <= BLOCK_SIZES[i]      \* the two assert!s
    /\ list_heads' = [list_heads EXCEPT ![i] = <<b.addr>> \o @]
    /\ live' = live \ {b}
    /\ UNCHANGED <<used, panicked>>

\* dealloc of a large block: fallback_allocator.deallocate(ptr, layout).
DeallocLarge(b) ==
    /\ ~panicked
    /\ list_index(b.layout) = 0
    /\ used' = used \ {b}
    /\ live' = live \ {b}
    /\ UNCHANGED <<list_heads, panicked>>

PanicLoop == panicked /\ UNCHANGED vars

Next ==
    \/ \E l \in Layouts :
          AllocFromList(l) \/ AllocNewBlock(l) \/ AllocLayoutPanic(l) \/ AllocLarge(l)
    \/ \E b \in live : DeallocToList(b) \/ DeallocLarge(b)
    \/ PanicLoop

Spec == Init /\ [][Next]_vars

-----------------------------------------------------------------------------

\* The block of the fallback heap that serves the live block `b'.
Backing(b) ==
    IF list_index(b.layout) = 0 THEN b
    ELSE [addr |-> b.addr, layout |-> BlockLayout(list_index(b.layout))]

\* A block changes hands between its list and its callers and never leaves
\* its size: what is on list i, and what serves a live block of class i, is a
\* block of BLOCK_SIZES[i] that the fallback heap handed out, each exactly once.
BlocksKeepTheirClass ==
    /\ \A i \in Index : \A n \in DOMAIN list_heads[i] :
          [addr |-> list_heads[i][n], layout |-> BlockLayout(i)] \in used
    /\ \A b \in live : Backing(b) \in used
    /\ \A i \in Index :
          /\ IsInjective(list_heads[i])
          /\ \A b \in live : ~Contains(list_heads[i], b.addr)

\* The fixed-size block allocator keeps the GlobalAlloc contract.
H == INSTANCE Heap WITH HeapEnd <- HeapStart + HeapSize
ImplementsHeap == H!Spec

=============================================================================
