------------------------ MODULE BumpAllocator_proofs ------------------------
(***************************************************************************)
(* Proofs about BumpAllocator.tla: for every heap and every set of layouts *)
(* the kernel's global allocator keeps the GlobalAlloc contract.           *)
(***************************************************************************)
EXTENDS BumpAllocator, FiniteSetTheorems, TLAPS

IInv == TypeOK /\ NextTracksLive /\ LiveDisjoint

\* align_up returns the next multiple of align.
LEMMA AlignUp ==
    ASSUME NEW a \in Nat, NEW n \in Nat \ {0}
    PROVE  /\ align_up(a, n) \in Nat
           /\ a <= align_up(a, n)
           /\ align_up(a, n) % n = 0
  <1> DEFINE q == (a + n - 1) \div n
  <1>1. q \in Nat /\ q * n <= a + n - 1 /\ a + n - 1 < q * n + n
    OBVIOUS
  <1> HIDE DEF q
  <1>2. q * n \in Nat /\ a <= q * n
    BY <1>1
  <1>3. (q * n) % n = 0
    BY <1>1
  <1> QED
    BY <1>2, <1>3 DEF align_up, q

\* A block that alloc returns starts at or above every live block's end and
\* lies in the heap.
LEMMA FreshBlock ==
    ASSUME IInv, NEW l \in Layouts,
           align_up(next, l.align) + l.size <= heap_end
    PROVE  LET b == [addr |-> align_up(next, l.align), layout |-> l] IN
           /\ b \in [addr : Nat, layout : Layouts]
           /\ next <= b.addr /\ b.addr < End(b)
           /\ heap_start <= b.addr /\ End(b) \in Nat /\ End(b) <= heap_end
           /\ b.addr % b.layout.align = 0
           /\ b \notin live
           /\ \A o \in live : Disjoint(b, o) /\ Disjoint(o, b)
  <1> DEFINE b == [addr |-> align_up(next, l.align), layout |-> l]
  <1>1. l.size \in Nat \ {0} /\ l.align \in Nat \ {0}
    BY BumpAssumption
  <1>2. next \in Nat /\ heap_start \in Nat /\ heap_start <= next
    BY DEF IInv, TypeOK
  <1>3. /\ b.addr \in Nat /\ next <= b.addr /\ b.addr % b.layout.align = 0
    BY <1>1, <1>2, AlignUp
  <1>4. End(b) \in Nat /\ b.addr < End(b) /\ End(b) <= heap_end
    BY <1>1, <1>3 DEF End
  <1>5. \A o \in live : End(o) <= b.addr /\ End(o) \in Nat
    <2> SUFFICES ASSUME NEW o \in live PROVE End(o) <= b.addr /\ End(o) \in Nat
      OBVIOUS
    <2>1. End(o) \in Nat
      BY BumpAssumption DEF IInv, TypeOK, End
    <2> QED
      BY <1>2, <1>3, <2>1 DEF IInv, NextTracksLive
  <1>6. b \notin live
    BY <1>3, <1>4, <1>5
  <1> QED
    BY <1>1, <1>2, <1>3, <1>4, <1>5, <1>6 DEF Disjoint

\* BumpAllocator::new satisfies the invariant.
LEMMA InitIInv == Init => IInv
  BY FS_EmptySet DEF Init, IInv, TypeOK, NextTracksLive, LiveDisjoint

\* Every operation preserves it: alloc adds the fresh block, dealloc removes
\* one and moves next back only when none is left.
LEMMA NextIInv == IInv /\ [Next]_vars => IInv'
  <1> SUFFICES ASSUME IInv, [Next]_vars PROVE IInv'
    OBVIOUS
  <1> USE BumpAssumption
  <1>1. CASE InitHeap
    BY <1>1 DEF InitHeap, IInv, TypeOK, NextTracksLive, LiveDisjoint
  <1>2. CASE Alloc
    <2>1. PICK l \in Layouts :
            LET b == [addr |-> align_up(next, l.align), layout |-> l] IN
            /\ align_up(next, l.align) + l.size <= heap_end
            /\ next' = End(b)
            /\ allocations' = allocations + 1
            /\ live' = live \cup {b}
            /\ UNCHANGED <<heap_start, heap_end>>
      BY <1>2 DEF Alloc, End
    <2> DEFINE b == [addr |-> align_up(next, l.align), layout |-> l]
    <2>2. /\ b \in [addr : Nat, layout : Layouts]
          /\ next <= b.addr /\ b.addr < End(b)
          /\ heap_start <= b.addr /\ End(b) \in Nat /\ End(b) <= heap_end
          /\ b \notin live
          /\ \A o \in live : Disjoint(b, o) /\ Disjoint(o, b)
      BY <2>1, FreshBlock
    <2>3. /\ next' = End(b) /\ live' = live \cup {b}
          /\ allocations' = allocations + 1 /\ UNCHANGED <<heap_start, heap_end>>
      BY <2>1
    <2> HIDE DEF b
    <2>4. TypeOK'
      BY <2>2, <2>3 DEF IInv, TypeOK
    <2>5. NextTracksLive'
      <3>1. IsFiniteSet(live') /\ allocations' = Cardinality(live')
        BY <2>2, <2>3, FS_AddElement DEF IInv, NextTracksLive
      <3>2. \A o \in live' : heap_start' <= o.addr /\ End(o) <= next'
        <4> SUFFICES ASSUME NEW o \in live PROVE heap_start <= o.addr /\ End(o) <= End(b)
          BY <2>2, <2>3
        <4>1. End(o) \in Nat /\ End(o) <= next /\ heap_start <= o.addr
          BY DEF IInv, TypeOK, NextTracksLive, End
        <4> QED
          BY <2>2, <4>1 DEF IInv, TypeOK
      <3> QED
        BY <2>2, <2>3, <3>1, <3>2 DEF IInv, TypeOK, NextTracksLive
    <2>6. LiveDisjoint'
      BY <2>2, <2>3 DEF IInv, LiveDisjoint
    <2> QED
      BY <2>4, <2>5, <2>6 DEF IInv
  <1>3. CASE AllocNull \/ UNCHANGED vars
    BY <1>3 DEF AllocNull, vars, IInv, TypeOK, NextTracksLive, LiveDisjoint
  <1>4. CASE Dealloc
    <2>1. PICK b \in live :
            /\ allocations' = allocations - 1
            /\ next' = IF allocations - 1 = 0 THEN heap_start ELSE next
            /\ live' = live \ {b}
            /\ UNCHANGED <<heap_start, heap_end>>
      BY <1>4 DEF Dealloc
    <2>2. /\ IsFiniteSet(live') /\ allocations' = Cardinality(live')
          /\ allocations' \in Nat
      <3>1. IsFiniteSet(live) /\ allocations = Cardinality(live)
        BY DEF IInv, NextTracksLive
      <3>2. /\ IsFiniteSet(live \ {b})
            /\ Cardinality(live \ {b}) = Cardinality(live) - 1
        BY <3>1, FS_RemoveElement
      <3>3. Cardinality(live \ {b}) \in Nat
        BY <3>2, FS_CardinalityType
      <3> QED
        BY <2>1, <3>1, <3>2, <3>3
    <2>3. allocations - 1 = 0 <=> live' = {}
      BY <2>1, <2>2, FS_EmptySet
    <2>4. TypeOK'
      BY <2>1, <2>2 DEF IInv, TypeOK
    <2>5. NextTracksLive'
      BY <2>1, <2>2, <2>3 DEF IInv, TypeOK, NextTracksLive
    <2>6. LiveDisjoint'
      BY <2>1 DEF IInv, LiveDisjoint
    <2> QED
      BY <2>4, <2>5, <2>6 DEF IInv
  <1> QED
    BY <1>1, <1>2, <1>3, <1>4 DEF Next

\* The allocator's fields stay consistent: next inside the heap's bounds.
THEOREM BumpTypeCorrect == Spec => []TypeOK
  <1>1. IInv => TypeOK
    BY DEF IInv
  <1> QED
    BY <1>1, InitIInv, NextIInv, PTL DEF Spec

\* The count that decides about the reset is the number of live blocks.
THEOREM BumpNextTracksLive == Spec => []NextTracksLive
  <1>1. IInv => NextTracksLive
    BY DEF IInv
  <1> QED
    BY <1>1, InitIInv, NextIInv, PTL DEF Spec

\* Live blocks never overlap, for any sequence of alloc and dealloc.
THEOREM BumpLiveDisjoint == Spec => []LiveDisjoint
  <1>1. IInv => LiveDisjoint
    BY DEF IInv
  <1> QED
    BY <1>1, InitIInv, NextIInv, PTL DEF Spec

\* The global allocator implements the GlobalAlloc contract.
THEOREM BumpImplementsHeap == Spec => ImplementsHeap
  <1>1. Init => H!Init
    BY DEF Init, H!Init
  <1>2. IInv /\ [Next]_vars => [H!Next]_live
    <2> SUFFICES ASSUME IInv, Next PROVE H!Next \/ UNCHANGED live
      BY DEF vars
    <2>1. CASE Alloc
      <3>1. PICK l \in Layouts :
              LET b == [addr |-> align_up(next, l.align), layout |-> l] IN
              /\ align_up(next, l.align) + l.size <= heap_end
              /\ live' = live \cup {b}
        BY <2>1 DEF Alloc
      <3> DEFINE b == [addr |-> align_up(next, l.align), layout |-> l]
      <3>2. /\ b.addr \in Nat /\ b.addr < End(b)
            /\ heap_start <= b.addr /\ End(b) \in Nat /\ End(b) <= heap_end
            /\ b.addr % b.layout.align = 0
            /\ b \notin live
            /\ \A o \in live : Disjoint(b, o)
        BY <3>1, FreshBlock
      <3>3. heap_start = HeapStart /\ heap_end = HeapStart + HeapSize
        BY <3>2 DEF IInv, TypeOK, NextTracksLive
      <3>4. H!Fits(b)
        BY <3>2, <3>3 DEF H!Fits, H!End, H!Disjoint, End, Disjoint
      <3> QED
        BY <3>1, <3>2, <3>4 DEF H!Next, H!Alloc
    <2>2. CASE Dealloc
      BY <2>2 DEF Dealloc, H!Next, H!Dealloc
    <2>3. CASE InitHeap \/ AllocNull
      BY <2>3 DEF InitHeap, AllocNull, vars
    <2> QED
      BY <2>1, <2>2, <2>3 DEF Next
  <1> QED
    BY <1>1, <1>2, InitIInv, NextIInv, PTL DEF Spec, ImplementsHeap, H!Spec

=============================================================================
