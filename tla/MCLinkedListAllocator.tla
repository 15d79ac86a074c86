----------------------- MODULE MCLinkedListAllocator -----------------------
(* LinkedListAllocator with three layouts: one smaller than a ListNode,    *)
(* one that is padded, one with a large alignment.                         *)
EXTENDS LinkedListAllocator

MCLayouts ==
    {[size |-> 5, align |-> 1], [size |-> 20, align |-> 4], [size |-> 24, align |-> 32]}

=============================================================================
