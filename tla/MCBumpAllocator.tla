-------------------------- MODULE MCBumpAllocator --------------------------
(* BumpAllocator with layouts of a few sizes and alignments.               *)
EXTENDS BumpAllocator

CONSTANTS MaxSize, Aligns

MCLayouts == Layout(MaxSize, Aligns)

=============================================================================
