--------------------------- MODULE BumpAllocator ---------------------------
(***************************************************************************)
(* kernel/src/allocator/bump.rs, the kernel's #[global_allocator]: a       *)
(* pointer that only moves up, and a count of the live allocations that    *)
(* moves it back to the start when it reaches zero.  Each operation runs   *)
(* under the lock of Locked<BumpAllocator>, so it is one step.             *)
(***************************************************************************)
EXTENDS HeapBlocks, FiniteSets

CONSTANTS
    HeapStart,  \* HEAP_START
    HeapSize,   \* HEAP_SIZE
    Layouts     \* the layouts callers ask for

ASSUME BumpAssumption ==
    /\ HeapStart \in Nat \ {0}
    /\ HeapSize \in Nat \ {0}
    /\ Layouts \subseteq [size : Nat \ {0}, align : Nat \ {0}]

VARIABLES
    heap_start, heap_end, next, allocations,  \* BumpAllocator
    live                                      \* the blocks the callers own

vars == <<heap_start, heap_end, next, allocations, live>>

\* BumpAllocator::new.
Init ==
    /\ heap_start = 0
    /\ heap_end = 0
    /\ next = 0
    /\ allocations = 0
    /\ live = {}

\* Called once, by init_heap; before it every alloc returns null.
InitHeap ==
    /\ heap_end = 0
    /\ heap_start' = HeapStart
    /\ heap_end' = HeapStart + HeapSize
    /\ next' = HeapStart
    /\ UNCHANGED <<allocations, live>>

\* Mutant: the aligned start is computed but not charged to next.
Alloc_IgnoresPadding ==
    \E l \in Layouts :
        LET start == align_up(next, l.align)
            end == start + l.size
        IN  /\ end <= heap_end
            /\ next' = next + l.size
            /\ allocations' = allocations + 1
            /\ live' = live \cup {[addr |-> start, layout |-> l]}
            /\ UNCHANGED <<heap_start, heap_end>>

\* alloc: bump next past the aligned block.
Alloc ==
    \E l \in Layouts :
        LET start == align_up(next, l.align)
            end == start + l.size
        IN  /\ end <= heap_end
            /\ next' = end
            /\ allocations' = allocations + 1
            /\ live' = live \cup {[addr |-> start, layout |-> l]}
            /\ UNCHANGED <<heap_start, heap_end>>

\* alloc: out of memory (or the end overflows a usize): null.
AllocNull ==
    /\ \E l \in Layouts : align_up(next, l.align) + l.size > heap_end
    /\ UNCHANGED vars

\* Mutant: the arena is reset while one block is still live.
Dealloc_ResetsEarly ==
    \E b \in live :
        /\ allocations' = allocations - 1
        /\ next' = IF allocations - 1 <= 1 THEN heap_start ELSE next
        /\ live' = live \ {b}
        /\ UNCHANGED <<heap_start, heap_end>>

\* Mutant: the count is decremented and next never reset.
Dealloc_NeverResets ==
    \E b \in live :
        /\ allocations' = allocations - 1
        /\ live' = live \ {b}
        /\ UNCHANGED <<heap_start, heap_end, next>>

\* dealloc: the pointer and the layout are ignored; only the count matters.
Dealloc ==
    \E b \in live :
        /\ allocations' = allocations - 1
        /\ next' = IF allocations - 1 = 0 THEN heap_start ELSE next
        /\ live' = live \ {b}
        /\ UNCHANGED <<heap_start, heap_end>>

Next == InitHeap \/ Alloc \/ AllocNull \/ Dealloc

Spec == Init /\ [][Next]_vars

-----------------------------------------------------------------------------

TypeOK ==
    /\ heap_start \in Nat
    /\ heap_end \in Nat
    /\ next \in heap_start .. heap_end
    /\ allocations \in Nat
    /\ live \subseteq [addr : Nat, layout : Layouts]

\* Why ignoring the pointer in dealloc is safe: the count is exactly the
\* number of live blocks, every live block ends at or below next, and when
\* none is left the whole arena is available again.
NextTracksLive ==
    /\ IsFiniteSet(live)
    /\ allocations = Cardinality(live)
    /\ \A b \in live : heap_start <= b.addr /\ End(b) <= next
    /\ live = {} => next = heap_start
    /\ heap_end = 0 => heap_start = 0 /\ live = {}
    /\ heap_end # 0 => heap_start = HeapStart /\ heap_end = HeapStart + HeapSize

\* No two blocks owned by callers share a byte, although next moves back.
LiveDisjoint == \A a, b \in live : a # b => Disjoint(a, b)

\* The bump allocator keeps the GlobalAlloc contract.
H == INSTANCE Heap WITH HeapEnd <- HeapStart + HeapSize
ImplementsHeap == H!Spec

=============================================================================
