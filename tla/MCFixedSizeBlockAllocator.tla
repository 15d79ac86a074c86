--------------------- MODULE MCFixedSizeBlockAllocator ---------------------
(* FixedSizeBlockAllocator with two layouts of class 32, one of 64 (by its *)
(* alignment), one of the largest class, and one beyond every class.       *)
EXTENDS FixedSizeBlockAllocator

MCLayouts ==
    {[size |-> 30, align |-> 2], [size |-> 24, align |-> 8], [size |-> 8, align |-> 64],
     [size |-> 3000, align |-> 8], [size |-> 4100, align |-> 16]}

=============================================================================
