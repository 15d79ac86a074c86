----------------------------- MODULE HeapBlocks -----------------------------
(***************************************************************************)
(* Layouts, blocks and address arithmetic shared by the heap allocators of *)
(* kernel/src/allocator.  A layout is [size, align]; a block is            *)
(* [addr, layout], what one successful call of alloc handed out.           *)
(***************************************************************************)
EXTENDS Integers

\* A layout the GlobalAlloc contract admits: no zero size, align a power of 2.
Layout(maxSize, aligns) == [size : 1 .. maxSize, align : aligns]

\* (addr + align - 1) & !(align - 1): for a power of two, the next multiple.
\* The heap ends far below 2^63, so the sum does not overflow a usize.
align_up(addr, align) == ((addr + align - 1) \div align) * align

End(b) == b.addr + b.layout.size

Disjoint(a, b) == End(a) <= b.addr \/ End(b) <= a.addr

=============================================================================
