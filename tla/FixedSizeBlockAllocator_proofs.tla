------------------- MODULE FixedSizeBlockAllocator_proofs -------------------
(***************************************************************************)
(* Proofs about FixedSizeBlockAllocator.tla: for every heap and every set  *)
(* of layouts, blocks keep their class and the GlobalAlloc contract is     *)
(* kept, given a fallback heap that keeps it.                              *)
(***************************************************************************)
EXTENDS FixedSizeBlockAllocator, SequenceTheorems, WellFoundedInduction, TLAPS

HeapEnd == HeapStart + HeapSize

Block == [addr : Nat, layout : [size : Nat \ {0}, align : Nat \ {0}]]

\* The fallback heap's blocks lie in the heap, aligned and disjoint.
UsedSound ==
    /\ used \subseteq Block
    /\ \A u \in used :
          HeapStart <= u.addr /\ End(u) <= HeapEnd /\ u.addr % u.layout.align = 0
    /\ \A u, v \in used : u # v => Disjoint(u, v)

\* What is on a list is a block of that list's size.
ListsSound ==
    /\ list_heads \in [Index -> Seq(Nat)]
    /\ \A i \in Index : \A n \in 1 .. Len(list_heads[i]) :
          /\ [addr |-> list_heads[i][n], layout |-> BlockLayout(i)] \in used
          /\ PowerOfTwo(BLOCK_SIZES[i])

\* What a caller owns is backed by a block of its class, which nobody else has.
LiveSound ==
    /\ live \subseteq [addr : Nat, layout : Layouts]
    /\ \A b \in live : /\ Backing(b) \in used
                       /\ list_index(b.layout) # 0 =>
                             PowerOfTwo(BLOCK_SIZES[list_index(b.layout)])
    /\ \A a, b \in live : a # b => a.addr # b.addr

\* No block is on its list twice, or on a list and with a caller.
OneOwner ==
    \A i \in Index :
        /\ \A m, n \in 1 .. Len(list_heads[i]) : list_heads[i][m] = list_heads[i][n] => m = n
        /\ \A n \in 1 .. Len(list_heads[i]), b \in live : list_heads[i][n] # b.addr

IInv == UsedSound /\ ListsSound /\ LiveSound /\ OneOwner

\* What GlobalAlloc asks of the blocks that are out.
LiveInHeap ==
    /\ \A b \in live : /\ HeapStart <= b.addr /\ End(b) <= HeapEnd
                       /\ b.addr % b.layout.align = 0
    /\ \A a, b \in live : a # b => Disjoint(a, b)

-----------------------------------------------------------------------------
(* Sizes and addresses.                                                    *)

\* A set of natural numbers that is not empty has its minimum.
LEMMA MinInSet ==
    ASSUME NEW S, S \subseteq Nat, S # {}
    PROVE  Min(S) \in S
  <1>1. PICK x \in S : \A y \in S : ~(<<y, x>> \in OpToRel(<, Nat))
    BY WFMin, NatLessThanWellFounded
  <1>2. \A y \in S : x =< y
    <2> SUFFICES ASSUME NEW y \in S PROVE x =< y
      OBVIOUS
    <2>1. x \in Nat /\ y \in Nat
      OBVIOUS
    <2>2. ~(y < x)
      BY <1>1, <2>1 DEF OpToRel
    <2> QED
      BY <2>1, <2>2
  <1> QED
    BY <1>2 DEF Min

\* The table of sizes.
LEMMA BlockSizes ==
    /\ Index = 1 .. 10
    /\ \A i \in Index : BLOCK_SIZES[i] \in Nat \ {0}
    /\ \A i, j \in Index : BLOCK_SIZES[i] = BLOCK_SIZES[j] => i = j
  <1>1. Index = 1 .. 10
    BY DEF Index, BLOCK_SIZES
  <1>2. \A i \in 1 .. 10 : BLOCK_SIZES[i] \in Nat \ {0}
    BY DEF BLOCK_SIZES
  <1>3. \A i, j \in 1 .. 10 : BLOCK_SIZES[i] = BLOCK_SIZES[j] => i = j
    BY DEF BLOCK_SIZES
  <1> QED
    BY <1>1, <1>2, <1>3

\* list_index returns 0 or a class that is large enough.
LEMMA ListIndex ==
    ASSUME NEW l \in Layouts
    PROVE  /\ list_index(l) \in Index \cup {0}
           /\ list_index(l) # 0 => /\ l.size <= BLOCK_SIZES[list_index(l)]
                                   /\ l.align <= BLOCK_SIZES[list_index(l)]
  <1> DEFINE required == IF l.size > l.align THEN l.size ELSE l.align
             fits == {i \in 1 .. Len(BLOCK_SIZES) : BLOCK_SIZES[i] >= required}
  <1>1. l.size \in Nat /\ l.align \in Nat
    BY FixedSizeBlockAssumption
  <1>2. Len(BLOCK_SIZES) = 10
    BY DEF BLOCK_SIZES
  <1>3. list_index(l) = IF fits # {} THEN Min(fits) ELSE 0
    BY DEF list_index, SelectInSeq
  <1>4. fits \subseteq Index /\ fits \subseteq Nat
    BY <1>2, BlockSizes
  <1>5. fits # {} => Min(fits) \in fits
    BY <1>4, MinInSet
  <1>6. \A i \in fits : l.size <= BLOCK_SIZES[i] /\ l.align <= BLOCK_SIZES[i]
    <2> SUFFICES ASSUME NEW i \in fits
                 PROVE  l.size <= BLOCK_SIZES[i] /\ l.align <= BLOCK_SIZES[i]
      OBVIOUS
    <2>1. BLOCK_SIZES[i] \in Nat
      BY <1>4, BlockSizes
    <2>2. BLOCK_SIZES[i] >= required
      OBVIOUS
    <2>3. l.size <= required /\ l.align <= required /\ required \in Nat
      BY <1>1
    <2> QED
      BY <1>1, <2>1, <2>2, <2>3
  <1> HIDE DEF fits
  <1> QED
    BY <1>3, <1>4, <1>5, <1>6

\* align_up returns a multiple of align, not less than its argument.
LEMMA AlignUp ==
    ASSUME NEW a \in Nat, NEW n \in Nat \ {0}
    PROVE  /\ align_up(a, n) \in Nat
           /\ a <= align_up(a, n)
           /\ align_up(a, n) % n = 0
  <1> DEFINE q == (a + n - 1) \div n
  <1>1. q \in Nat /\ q * n <= a + n - 1 /\ a + n - 1 < q * n + n
    OBVIOUS
  <1> HIDE DEF q
  <1>2. q * n \in Nat /\ a <= q * n
    BY <1>1
  <1>3. (q * n) % n = 0
    BY <1>1
  <1> QED
    BY <1>2, <1>3 DEF align_up, q

\* An address aligned to n is aligned to what divides n.
LEMMA Divides ==
    ASSUME NEW a \in Nat, NEW n \in Nat \ {0}, NEW d \in Nat \ {0},
           a % n = 0, n % d = 0
    PROVE  a % d = 0
  <1>1. PICK q \in Nat : a = q * n
    <2> DEFINE q == a \div n
    <2>1. q \in Nat /\ a = q * n
      OBVIOUS
    <2> QED
      BY <2>1
  <1>2. PICK k \in Nat : n = k * d
    <2> DEFINE k == n \div d
    <2>1. k \in Nat /\ n = k * d
      OBVIOUS
    <2> QED
      BY <2>1
  <1> DEFINE m == q * k
  <1>3. m \in Nat /\ a = m * d
    BY <1>1, <1>2
  <1> HIDE DEF m
  <1> QED
    BY <1>3

\* Blocks that start at the same address overlap.
LEMMA SameStart ==
    ASSUME UsedSound, NEW u \in used, NEW v \in used, u.addr = v.addr
    PROVE  u = v
  BY DEF UsedSound, Block, Disjoint, End

\* Blocks of different classes are different.
LEMMA SameLayout ==
    ASSUME NEW i \in Index, NEW j \in Index, BlockLayout(i) = BlockLayout(j)
    PROVE  i = j
  <1>1. BLOCK_SIZES[i] = BLOCK_SIZES[j]
    BY DEF BlockLayout
  <1> QED
    BY <1>1, BlockSizes

\* A block is never on the lists of two classes.
LEMMA OneList ==
    ASSUME UsedSound, ListsSound, NEW i \in Index, NEW j \in Index,
           NEW m \in 1 .. Len(list_heads[i]), NEW n \in 1 .. Len(list_heads[j]),
           list_heads[i][m] = list_heads[j][n]
    PROVE  i = j
  <1> DEFINE u == [addr |-> list_heads[i][m], layout |-> BlockLayout(i)]
             v == [addr |-> list_heads[j][n], layout |-> BlockLayout(j)]
  <1>1. u \in used /\ v \in used
    BY DEF ListsSound
  <1>2. u = v
    BY <1>1, SameStart
  <1>3. BlockLayout(i) = BlockLayout(j)
    BY <1>2
  <1> QED
    BY <1>3, SameLayout

\* The block behind a live block starts where it starts and is no smaller.
LEMMA BackingCovers ==
    ASSUME NEW b \in [addr : Nat, layout : Layouts]
    PROVE  /\ Backing(b) \in Block
           /\ Backing(b).addr = b.addr
           /\ End(b) \in Nat /\ End(Backing(b)) \in Nat
           /\ b.addr < End(b) /\ End(b) <= End(Backing(b))
  <1> DEFINE i == list_index(b.layout)
  <1>1. /\ b.addr \in Nat /\ b.layout.size \in Nat \ {0} /\ b.layout.align \in Nat \ {0}
        /\ b.layout \in [size : Nat \ {0}, align : Nat \ {0}]
    BY FixedSizeBlockAssumption
  <1>2. CASE i = 0
    BY <1>1, <1>2 DEF Backing, Block, End
  <1>3. CASE i # 0
    <2>1. /\ BLOCK_SIZES[i] \in Nat \ {0} /\ b.layout.size <= BLOCK_SIZES[i]
      BY <1>3, ListIndex, BlockSizes
    <2>2. Backing(b) = [addr |-> b.addr, layout |-> [size |-> BLOCK_SIZES[i], align |-> BLOCK_SIZES[i]]]
      BY <1>3 DEF Backing, BlockLayout
    <2> HIDE DEF i
    <2> QED
      BY <1>1, <2>1, <2>2 DEF Block, End
  <1> QED
    BY <1>2, <1>3

\* What the invariant says of callers: blocks in the heap, aligned, disjoint.
LEMMA LiveBlocksSound == IInv => LiveInHeap
  <1> SUFFICES ASSUME IInv PROVE LiveInHeap
    OBVIOUS
  <1>1. \A b \in live : /\ b \in [addr : Nat, layout : Layouts] /\ Backing(b) \in used
                        /\ Backing(b).addr = b.addr
                        /\ End(b) \in Nat /\ End(Backing(b)) \in Nat
                        /\ b.addr < End(b) /\ End(b) <= End(Backing(b))
    BY BackingCovers DEF IInv, LiveSound
  <1>2. ASSUME NEW b \in live PROVE HeapStart <= b.addr /\ End(b) <= HeapEnd
    <2>1. HeapStart <= b.addr /\ End(Backing(b)) <= HeapEnd /\ HeapEnd \in Nat
      BY <1>1, FixedSizeBlockAssumption DEF IInv, UsedSound, HeapEnd
    <2> QED
      BY <1>1, <2>1
  <1>3. ASSUME NEW b \in live PROVE b.addr % b.layout.align = 0
    <2> DEFINE i == list_index(b.layout)
    <2>1. Backing(b).addr % Backing(b).layout.align = 0
      BY <1>1 DEF IInv, UsedSound
    <2>2. CASE i = 0
      BY <2>1, <2>2 DEF Backing
    <2>3. CASE i # 0
      <3>1. /\ b.layout \in Layouts /\ b.layout.align \in Nat \ {0} /\ b.addr \in Nat
        BY <1>1, FixedSizeBlockAssumption
      <3>2. i \in Index /\ BLOCK_SIZES[i] \in Nat \ {0} /\ b.layout.align <= BLOCK_SIZES[i]
        BY <2>3, <3>1, ListIndex, BlockSizes
      <3>3. b.addr % BLOCK_SIZES[i] = 0
        BY <2>1, <2>3, <1>1 DEF Backing, BlockLayout
      <3>4. PowerOfTwo(BLOCK_SIZES[i])
        BY <2>3 DEF IInv, LiveSound
      <3>5. BLOCK_SIZES[i] % b.layout.align = 0 \/ b.layout.align % BLOCK_SIZES[i] = 0
        BY <3>1, <3>2, <3>4, FixedSizeBlockAssumption DEF Index
      <3> DEFINE n == BLOCK_SIZES[i]
                 d == b.layout.align
      <3>6. n % d = 0
        <4>1. n \in Nat \ {0} /\ d \in Nat \ {0} /\ d <= n /\ (n % d = 0 \/ d % n = 0)
          BY <3>1, <3>2, <3>5
        <4> HIDE DEF n, d
        <4>2. CASE d % n = 0
          <5>1. d = n
            <6>1. CASE d < n
              <7>1. d % n = d
                BY <4>1, <6>1
              <7> QED
                BY <4>1, <4>2, <7>1
            <6> QED
              BY <4>1, <6>1
          <5>2. n % n = 0
            BY <4>1
          <5> QED
            BY <5>1, <5>2
        <4> QED
          BY <4>1, <4>2
      <3> QED
        BY <3>1, <3>2, <3>3, <3>6, Divides
    <2> QED
      BY <2>2, <2>3
  <1>4. ASSUME NEW a \in live, NEW b \in live, a # b PROVE Disjoint(a, b)
    <2>1. a.addr # b.addr
      BY <1>4 DEF IInv, LiveSound
    <2>2. Backing(a) # Backing(b)
      BY <1>1, <2>1
    <2>3. Disjoint(Backing(a), Backing(b))
      BY <1>1, <2>2 DEF IInv, UsedSound
    <2>4. a.addr \in Nat /\ b.addr \in Nat
      BY <1>1
    <2> QED
      BY <1>1, <2>3, <2>4 DEF Disjoint
  <1> QED
    BY <1>2, <1>3, <1>4 DEF LiveInHeap

\* The same of the state after a step.
LEMMA LiveBlocksStaySound == IInv' => LiveInHeap'
  BY LiveBlocksSound, PTL

-----------------------------------------------------------------------------
(* The fallback heap.                                                      *)

\* fallback_alloc returns a block that overlaps none of those handed out.
LEMMA FallbackFresh ==
    ASSUME UsedSound, NEW f \in [size : Nat \ {0}, align : Nat \ {0}], Placements(f) # {}
    PROVE  LET u == [addr |-> Min(Placements(f)), layout |-> f] IN
           /\ u \in Block
           /\ HeapStart <= u.addr /\ End(u) <= HeapEnd /\ u.addr % f.align = 0
           /\ \A v \in used : Disjoint(u, v) /\ v.addr # u.addr
  <1> DEFINE a == Min(Placements(f))
             u == [addr |-> a, layout |-> f]
  <1>1. \A p \in Placements(f) :
          \E e \in {HeapStart} \cup {End(v) : v \in used} : p = align_up(e, f.align)
    BY DEF Placements
  <1>2. \A e \in {HeapStart} \cup {End(v) : v \in used} : e \in Nat /\ HeapStart <= e
    BY FixedSizeBlockAssumption DEF UsedSound, Block, End
  <1>3. \A p \in Placements(f) : p \in Nat /\ HeapStart <= p /\ p % f.align = 0
    <2> SUFFICES ASSUME NEW p \in Placements(f)
                 PROVE  p \in Nat /\ HeapStart <= p /\ p % f.align = 0
      OBVIOUS
    <2>1. PICK e \in {HeapStart} \cup {End(v) : v \in used} : p = align_up(e, f.align)
      BY <1>1
    <2>2. e \in Nat /\ HeapStart <= e /\ HeapStart \in Nat /\ f.align \in Nat \ {0}
      BY <1>2, FixedSizeBlockAssumption
    <2> QED
      BY <2>1, <2>2, AlignUp
  <1>4. a \in Placements(f)
    BY <1>3, MinInSet
  <1>5. End(u) <= HeapEnd /\ \A v \in used : Disjoint(u, v)
    BY <1>4 DEF Placements, HeapEnd
  <1>6. a \in Nat /\ HeapStart <= a /\ a % f.align = 0
    BY <1>3, <1>4
  <1> HIDE DEF a
  <1>7. u \in Block
    BY <1>6 DEF Block
  <1>8. \A v \in used : v.addr # u.addr
    BY <1>5, <1>7 DEF UsedSound, Block, Disjoint, End
  <1> QED
    BY <1>5, <1>6, <1>7, <1>8 DEF a

\* Disjointness is symmetric.
LEMMA DisjointSymmetric ==
    ASSUME NEW a, NEW b, Disjoint(a, b)
    PROVE  Disjoint(b, a)
  BY DEF Disjoint

-----------------------------------------------------------------------------
(* The invariant.                                                          *)

\* FixedSizeBlockAllocator::new satisfies the invariant.
LEMMA InitIInv == Init => IInv
  <1> SUFFICES ASSUME Init PROVE IInv
    OBVIOUS
  <1>1. /\ list_heads \in [Index -> Seq(Nat)]
        /\ \A i \in Index : Len(list_heads[i]) = 0
    BY DEF Init
  <1> QED
    BY <1>1 DEF Init, IInv, UsedSound, ListsSound, LiveSound, OneOwner

\* A block that is new to everybody is given to the caller.
LEMMA FallbackAllocIInv ==
    ASSUME IInv, NEW l \in Layouts, NEW f \in [size : Nat \ {0}, align : Nat \ {0}],
           FallbackAlloc(f, l),
           \A a \in Nat : Backing([addr |-> a, layout |-> l]) = [addr |-> a, layout |-> f],
           list_index(l) # 0 => PowerOfTwo(BLOCK_SIZES[list_index(l)])
    PROVE  IInv' /\ \E b : /\ b \notin live /\ b.layout = l
                           /\ live' = live \cup {b}
  <1> DEFINE a == Min(Placements(f))
             u == [addr |-> a, layout |-> f]
             b == [addr |-> a, layout |-> l]
  <1>1. used' = used \cup {u} /\ live' = live \cup {b} /\ list_heads' = list_heads
    BY DEF FallbackAlloc
  <1>2. /\ u \in Block
        /\ HeapStart <= u.addr /\ End(u) <= HeapEnd /\ u.addr % u.layout.align = 0
        /\ \A v \in used : Disjoint(u, v) /\ v.addr # u.addr
    BY FallbackFresh DEF IInv, FallbackAlloc
  <1>3. a \in Nat /\ Backing(b) = u /\ b \in [addr : Nat, layout : Layouts]
    BY <1>2 DEF Block
  <1>4. u.addr = a /\ b.addr = a /\ b.layout = l
    OBVIOUS
  <1> HIDE DEF a, u, b
  <1>5. UsedSound'
    BY <1>1, <1>2, DisjointSymmetric DEF IInv, UsedSound
  <1>6. ListsSound'
    BY <1>1 DEF IInv, ListsSound
  <1>7. \A o \in live : o.addr # b.addr
    BY <1>2, <1>4, BackingCovers DEF IInv, LiveSound
  <1>8. LiveSound'
    <2>1. live' \subseteq [addr : Nat, layout : Layouts]
      BY <1>1, <1>3 DEF IInv, LiveSound
    <2>2. \A o \in live' : /\ Backing(o) \in used'
                           /\ list_index(o.layout) # 0 =>
                                 PowerOfTwo(BLOCK_SIZES[list_index(o.layout)])
      BY <1>1, <1>3, <1>4 DEF IInv, LiveSound
    <2>3. \A o, q \in live' : o # q => o.addr # q.addr
      BY <1>1, <1>7 DEF IInv, LiveSound
    <2> QED
      BY <2>1, <2>2, <2>3 DEF LiveSound, Backing
  <1>9. OneOwner'
    <2>1. ASSUME NEW i \in Index, NEW n \in 1 .. Len(list_heads[i])
          PROVE  list_heads[i][n] # b.addr
      <3> DEFINE v == [addr |-> list_heads[i][n], layout |-> BlockLayout(i)]
      <3>1. v \in used
        BY DEF IInv, ListsSound
      <3> QED
        BY <1>2, <1>4, <3>1
    <2> QED
      BY <1>1, <2>1 DEF IInv, OneOwner
  <1> QED
    BY <1>1, <1>4, <1>5, <1>6, <1>7, <1>8, <1>9 DEF IInv

\* alloc with an empty list.
LEMMA AllocNewBlockIInv ==
    ASSUME IInv, NEW l \in Layouts, AllocNewBlock(l)
    PROVE  IInv' /\ \/ UNCHANGED live
                    \/ \E b : b \notin live /\ b.layout = l /\ live' = live \cup {b}
  <1> DEFINE i == list_index(l)
  <1>1. /\ i # 0 /\ PowerOfTwo(BLOCK_SIZES[i])
        /\ FallbackAlloc(BlockLayout(i), l) \/ FallbackNull(BlockLayout(i))
    BY DEF AllocNewBlock
  <1>2. BLOCK_SIZES[i] \in Nat \ {0}
    BY <1>1, ListIndex, BlockSizes
  <1>3. CASE FallbackAlloc(BlockLayout(i), l)
    <2>1. BlockLayout(i) \in [size : Nat \ {0}, align : Nat \ {0}]
      BY <1>2 DEF BlockLayout
    <2>2. \A a \in Nat : Backing([addr |-> a, layout |-> l]) = [addr |-> a, layout |-> BlockLayout(i)]
      BY <1>1 DEF Backing
    <2> QED
      BY <1>1, <1>3, <2>1, <2>2, FallbackAllocIInv
  <1>4. CASE FallbackNull(BlockLayout(i))
    BY <1>4 DEF FallbackNull, vars, IInv, UsedSound, ListsSound, LiveSound, OneOwner, Backing
  <1> QED
    BY <1>1, <1>3, <1>4

\* alloc beyond every class.
LEMMA AllocLargeIInv ==
    ASSUME IInv, NEW l \in Layouts, AllocLarge(l)
    PROVE  IInv' /\ \/ UNCHANGED live
                    \/ \E b : b \notin live /\ b.layout = l /\ live' = live \cup {b}
  <1>1. list_index(l) = 0 /\ (FallbackAlloc(l, l) \/ FallbackNull(l))
    BY DEF AllocLarge
  <1>2. CASE FallbackAlloc(l, l)
    <2>1. l \in [size : Nat \ {0}, align : Nat \ {0}]
      BY FixedSizeBlockAssumption
    <2>2. \A a \in Nat : Backing([addr |-> a, layout |-> l]) = [addr |-> a, layout |-> l]
      BY <1>1 DEF Backing
    <2> QED
      BY <1>1, <1>2, <2>1, <2>2, FallbackAllocIInv
  <1>3. CASE FallbackNull(l)
    BY <1>3 DEF FallbackNull, vars, IInv, UsedSound, ListsSound, LiveSound, OneOwner, Backing
  <1> QED
    BY <1>1, <1>2, <1>3

\* alloc from a list: the head of the list changes hands.
LEMMA AllocFromListIInv ==
    ASSUME IInv, NEW l \in Layouts, AllocFromList(l)
    PROVE  IInv' /\ \E b : b \notin live /\ b.layout = l /\ live' = live \cup {b}
  <1> DEFINE i == list_index(l)
             s == list_heads[i]
             b == [addr |-> Head(s), layout |-> l]
  <1>1. /\ i # 0 /\ s # <<>> /\ live' = live \cup {b} /\ used' = used
        /\ list_heads' = [list_heads EXCEPT ![i] = Tail(s)]
    BY DEF AllocFromList
  <1>2. i \in Index /\ s \in Seq(Nat)
    BY <1>1, ListIndex DEF IInv, ListsSound
  <1>3. /\ Len(s) \in Nat \ {0} /\ Head(s) = s[1] /\ s[1] \in Nat
        /\ Tail(s) \in Seq(Nat) /\ Len(Tail(s)) = Len(s) - 1
        /\ \A n \in 1 .. Len(Tail(s)) : Tail(s)[n] = s[n + 1]
    BY <1>1, <1>2, HeadTailProperties, LenProperties, EmptySeq, ElementOfSeq
  <1>4. 1 \in 1 .. Len(s) /\ b.addr = s[1] /\ b.layout = l
    BY <1>3
  <1>5. list_heads' \in [Index -> Seq(Nat)]
    BY <1>1, <1>2, <1>3 DEF IInv, ListsSound
  \* Every entry of a list was an entry of it, and not the first of list i.
  <1>6. ASSUME NEW j \in Index, NEW n \in 1 .. Len(list_heads'[j])
        PROVE  \E m \in 1 .. Len(list_heads[j]) :
                  /\ list_heads'[j][n] = list_heads[j][m]
                  /\ j = i => m = n + 1
                  /\ j # i => m = n
    <2>1. CASE j = i
      <3>1. list_heads'[j] = Tail(s) /\ list_heads[j] = s
        BY <1>1, <1>2, <2>1 DEF IInv, ListsSound
      <3>2. n + 1 \in 1 .. Len(s) /\ list_heads'[j][n] = s[n + 1]
        BY <1>3, <3>1
      <3> QED
        BY <2>1, <3>1, <3>2
    <2>2. CASE j # i
      BY <1>1, <1>2, <2>2 DEF IInv, ListsSound
    <2> QED
      BY <2>1, <2>2
  <1>7. \A o \in live : o.addr # b.addr
    BY <1>2, <1>4 DEF IInv, OneOwner
  <1>8. ASSUME NEW j \in Index, NEW n \in 1 .. Len(list_heads'[j])
        PROVE  list_heads'[j][n] # b.addr
    <2>1. PICK m \in 1 .. Len(list_heads[j]) :
            list_heads'[j][n] = list_heads[j][m] /\ (j = i => m = n + 1)
      BY <1>6
    <2>2. CASE j = i
      <3>1. m # 1
        <4>1. Len(list_heads'[j]) \in Nat
          BY <1>5, LenProperties
        <4> QED
          BY <2>1, <2>2, <4>1
      <3> QED
        BY <1>2, <1>4, <2>1, <2>2, <3>1 DEF IInv, OneOwner
    <2>3. CASE j # i
      BY <1>2, <1>4, <2>1, <2>3, OneList DEF IInv
    <2> QED
      BY <2>2, <2>3
  <1>9. Backing(b) \in used /\ PowerOfTwo(BLOCK_SIZES[i]) /\ b \in [addr : Nat, layout : Layouts]
    <2>1. [addr |-> s[1], layout |-> BlockLayout(i)] \in used /\ PowerOfTwo(BLOCK_SIZES[i])
      BY <1>2, <1>4 DEF IInv, ListsSound
    <2>2. Backing(b) = [addr |-> s[1], layout |-> BlockLayout(i)]
      BY <1>1, <1>4 DEF Backing
    <2> QED
      BY <1>3, <2>1, <2>2
  <1> HIDE DEF b, s
  <1>10. UsedSound'
    BY <1>1 DEF IInv, UsedSound
  <1>11. ListsSound'
    <2>1. ASSUME NEW j \in Index, NEW n \in 1 .. Len(list_heads'[j])
          PROVE  /\ [addr |-> list_heads'[j][n], layout |-> BlockLayout(j)] \in used
                 /\ PowerOfTwo(BLOCK_SIZES[j])
      BY <1>6 DEF IInv, ListsSound
    <2> QED
      BY <1>1, <1>5, <2>1 DEF ListsSound
  <1>12. LiveSound'
    <2>1. live' \subseteq [addr : Nat, layout : Layouts]
      BY <1>1, <1>9 DEF IInv, LiveSound
    <2>2. \A o \in live' : /\ Backing(o) \in used
                           /\ list_index(o.layout) # 0 =>
                                 PowerOfTwo(BLOCK_SIZES[list_index(o.layout)])
      BY <1>1, <1>4, <1>9 DEF IInv, LiveSound
    <2>3. \A o, q \in live' : o # q => o.addr # q.addr
      BY <1>1, <1>7 DEF IInv, LiveSound
    <2> QED
      BY <1>1, <2>1, <2>2, <2>3 DEF LiveSound, Backing
  <1>13. OneOwner'
    <2>1. ASSUME NEW j \in Index, NEW m \in 1 .. Len(list_heads'[j]), NEW n \in 1 .. Len(list_heads'[j]),
                 list_heads'[j][m] = list_heads'[j][n]
          PROVE  m = n
      <3>1. PICK mm \in 1 .. Len(list_heads[j]) :
              list_heads'[j][m] = list_heads[j][mm] /\ (j = i => mm = m + 1) /\ (j # i => mm = m)
        BY <1>6
      <3>2. PICK nn \in 1 .. Len(list_heads[j]) :
              list_heads'[j][n] = list_heads[j][nn] /\ (j = i => nn = n + 1) /\ (j # i => nn = n)
        BY <1>6
      <3>3. mm = nn
        BY <2>1, <3>1, <3>2 DEF IInv, OneOwner
      <3>4. Len(list_heads'[j]) \in Nat
        BY <1>5, LenProperties
      <3> QED
        BY <3>1, <3>2, <3>3, <3>4
    <2>2. ASSUME NEW j \in Index, NEW n \in 1 .. Len(list_heads'[j]), NEW o \in live'
          PROVE  list_heads'[j][n] # o.addr
      <3>1. CASE o = b
        BY <1>8, <3>1
      <3>2. CASE o # b
        <4>1. PICK m \in 1 .. Len(list_heads[j]) : list_heads'[j][n] = list_heads[j][m]
          BY <1>6
        <4>2. o \in live
          BY <1>1, <3>2
        <4> QED
          BY <4>1, <4>2 DEF IInv, OneOwner
      <3> QED
        BY <3>1, <3>2
    <2> QED
      BY <2>1, <2>2 DEF OneOwner
  <1> QED
    BY <1>1, <1>4, <1>7, <1>10, <1>11, <1>12, <1>13 DEF IInv

\* dealloc to a list: the block becomes its head.
LEMMA DeallocToListIInv ==
    ASSUME IInv, NEW b \in live, DeallocToList(b)
    PROVE  IInv'
  <1> DEFINE i == list_index(b.layout)
             s == list_heads[i]
             t == <<b.addr>> \o s
  <1>1. /\ i # 0 /\ live' = live \ {b} /\ used' = used
        /\ list_heads' = [list_heads EXCEPT ![i] = t]
    BY DEF DeallocToList
  <1>2. /\ b \in [addr : Nat, layout : Layouts] /\ i \in Index /\ s \in Seq(Nat)
        /\ Len(s) \in Nat
    BY <1>1, ListIndex, LenProperties DEF IInv, LiveSound, ListsSound
  <1>3. /\ t \in Seq(Nat) /\ Len(t) = Len(s) + 1
        /\ \A n \in 1 .. Len(t) : t[n] = IF n = 1 THEN b.addr ELSE s[n - 1]
    <2>1. <<b.addr>> \in Seq(Nat) /\ Len(<<b.addr>>) = 1 /\ <<b.addr>>[1] = b.addr
      BY <1>2
    <2> QED
      BY <1>2, <2>1, ConcatProperties
  <1> HIDE DEF t
  <1>4. list_heads' \in [Index -> Seq(Nat)]
    BY <1>1, <1>2, <1>3 DEF IInv, ListsSound
  \* An entry of a list is the new head of list i, or was there before.
  <1>5. ASSUME NEW j \in Index, NEW n \in 1 .. Len(list_heads'[j])
        PROVE  \/ j = i /\ n = 1 /\ list_heads'[j][n] = b.addr
               \/ \E m \in 1 .. Len(list_heads[j]) :
                     /\ list_heads'[j][n] = list_heads[j][m]
                     /\ j = i => n = m + 1
                     /\ j # i => n = m
    <2>1. CASE j = i
      <3>1. list_heads'[j] = t /\ list_heads[j] = s
        BY <1>1, <1>2, <2>1 DEF IInv, ListsSound
      <3>2. CASE n = 1
        BY <1>3, <2>1, <3>1, <3>2
      <3>3. CASE n # 1
        <4>1. n - 1 \in 1 .. Len(s) /\ t[n] = s[n - 1] /\ n = (n - 1) + 1
          BY <1>2, <1>3, <3>1, <3>3
        <4> QED
          BY <2>1, <3>1, <4>1
      <3> QED
        BY <3>2, <3>3
    <2>2. CASE j # i
      BY <1>1, <1>2, <2>2 DEF IInv, ListsSound
    <2> QED
      BY <2>1, <2>2
  <1>6. [addr |-> b.addr, layout |-> BlockLayout(i)] \in used /\ PowerOfTwo(BLOCK_SIZES[i])
    BY <1>1 DEF IInv, LiveSound, Backing
  <1> HIDE DEF s, i
  <1>7. UsedSound'
    BY <1>1 DEF IInv, UsedSound
  <1>8. ListsSound'
    <2>1. ASSUME NEW j \in Index, NEW n \in 1 .. Len(list_heads'[j])
          PROVE  /\ [addr |-> list_heads'[j][n], layout |-> BlockLayout(j)] \in used
                 /\ PowerOfTwo(BLOCK_SIZES[j])
      <3>1. CASE j = i /\ list_heads'[j][n] = b.addr
        BY <1>6, <3>1
      <3>2. CASE \E m \in 1 .. Len(list_heads[j]) : list_heads'[j][n] = list_heads[j][m]
        BY <3>2 DEF IInv, ListsSound
      <3> QED
        BY <1>5, <3>1, <3>2
    <2> QED
      BY <1>1, <1>4, <2>1 DEF ListsSound
  <1>9. LiveSound'
    BY <1>1 DEF IInv, LiveSound, Backing
  <1>10. OneOwner'
    <2>1. ASSUME NEW j \in Index, NEW m \in 1 .. Len(list_heads'[j]), NEW n \in 1 .. Len(list_heads'[j]),
                 list_heads'[j][m] = list_heads'[j][n]
          PROVE  m = n
      <3>1. \A k \in 1 .. Len(list_heads[j]) : list_heads[j][k] # b.addr
        BY DEF IInv, OneOwner
      <3>2. CASE m = 1 /\ j = i /\ list_heads'[j][m] = b.addr
        BY <1>5, <2>1, <3>1, <3>2
      <3>3. CASE \E mm \in 1 .. Len(list_heads[j]) :
                   /\ list_heads'[j][m] = list_heads[j][mm]
                   /\ j = i => m = mm + 1
                   /\ j # i => m = mm
        <4>1. PICK mm \in 1 .. Len(list_heads[j]) :
                /\ list_heads'[j][m] = list_heads[j][mm]
                /\ j = i => m = mm + 1
                /\ j # i => m = mm
          BY <3>3
        <4>2. list_heads'[j][n] # b.addr
          BY <2>1, <3>1, <4>1
        <4>3. PICK nn \in 1 .. Len(list_heads[j]) :
                /\ list_heads'[j][n] = list_heads[j][nn]
                /\ j = i => n = nn + 1
                /\ j # i => n = nn
          BY <1>5, <4>2
        <4>4. mm = nn
          BY <2>1, <4>1, <4>3 DEF IInv, OneOwner
        <4> QED
          BY <4>1, <4>3, <4>4
      <3> QED
        BY <1>5, <3>2, <3>3
    <2>2. ASSUME NEW j \in Index, NEW n \in 1 .. Len(list_heads'[j]), NEW o \in live'
          PROVE  list_heads'[j][n] # o.addr
      <3>1. o \in live /\ o # b /\ o.addr # b.addr
        BY <1>1 DEF IInv, LiveSound
      <3>2. CASE \E m \in 1 .. Len(list_heads[j]) : list_heads'[j][n] = list_heads[j][m]
        BY <3>1, <3>2 DEF IInv, OneOwner
      <3> QED
        BY <1>5, <3>1, <3>2
    <2> QED
      BY <2>1, <2>2 DEF OneOwner
  <1> QED
    BY <1>7, <1>8, <1>9, <1>10 DEF IInv

\* dealloc of a large block: it leaves the fallback heap, and nobody has
\* another block at its address.
LEMMA DeallocLargeIInv ==
    ASSUME IInv, NEW b \in live, DeallocLarge(b)
    PROVE  IInv'
  <1>1. used' = used \ {b} /\ live' = live \ {b} /\ list_heads' = list_heads
    BY DEF DeallocLarge
  <1>2. UsedSound'
    BY <1>1 DEF IInv, UsedSound
  <1>3. ListsSound'
    <2>1. ASSUME NEW i \in Index, NEW n \in 1 .. Len(list_heads[i])
          PROVE  [addr |-> list_heads[i][n], layout |-> BlockLayout(i)] # b
      BY DEF IInv, OneOwner
    <2> QED
      BY <1>1, <2>1 DEF IInv, ListsSound
  <1>4. LiveSound'
    <2>1. ASSUME NEW o \in live' PROVE Backing(o) \in used'
      <3>1. o \in live /\ o.addr # b.addr
        BY <1>1 DEF IInv, LiveSound
      <3>2. Backing(o).addr = o.addr /\ Backing(o) \in used
        BY <3>1, BackingCovers DEF IInv, LiveSound
      <3> QED
        BY <1>1, <3>1, <3>2
    <2> QED
      BY <1>1, <2>1 DEF IInv, LiveSound, Backing
  <1>5. OneOwner'
    BY <1>1 DEF IInv, OneOwner
  <1> QED
    BY <1>2, <1>3, <1>4, <1>5 DEF IInv

\* A step that leaves the blocks alone.
LEMMA UnchangedIInv ==
    ASSUME IInv, UNCHANGED <<list_heads, used, live>>
    PROVE  IInv'
  BY DEF IInv, UsedSound, ListsSound, LiveSound, OneOwner, Backing

\* Every operation preserves the invariant, and changes the callers' blocks
\* by one.
LEMMA NextIInv ==
    ASSUME IInv, [Next]_vars
    PROVE  IInv' /\ \/ UNCHANGED live
                    \/ \E b \in live : live' = live \ {b}
                    \/ \E b : b \notin live /\ b.layout \in Layouts /\ live' = live \cup {b}
  <1>1. CASE \E l \in Layouts : AllocFromList(l)
    BY <1>1, AllocFromListIInv
  <1>2. CASE \E l \in Layouts : AllocNewBlock(l)
    BY <1>2, AllocNewBlockIInv
  <1>3. CASE \E l \in Layouts : AllocLarge(l)
    BY <1>3, AllocLargeIInv
  <1>4. CASE (\E l \in Layouts : AllocLayoutPanic(l)) \/ PanicLoop \/ UNCHANGED vars
    <2>1. UNCHANGED <<list_heads, used, live>>
      BY <1>4 DEF AllocLayoutPanic, PanicLoop, vars
    <2> QED
      BY <2>1, UnchangedIInv
  <1>5. CASE \E b \in live : DeallocToList(b)
    <2>1. PICK b \in live : DeallocToList(b)
      BY <1>5
    <2>2. live' = live \ {b}
      BY <2>1 DEF DeallocToList
    <2> QED
      BY <2>1, <2>2, DeallocToListIInv
  <1>6. CASE \E b \in live : DeallocLarge(b)
    <2>1. PICK b \in live : DeallocLarge(b)
      BY <1>6
    <2>2. live' = live \ {b}
      BY <2>1 DEF DeallocLarge
    <2> QED
      BY <2>1, <2>2, DeallocLargeIInv
  <1> QED
    BY <1>1, <1>2, <1>3, <1>4, <1>5, <1>6 DEF Next

\* The invariant holds throughout.
LEMMA AlwaysIInv == Spec => []IInv
  <1>1. IInv /\ [Next]_vars => IInv'
    BY NextIInv
  <1> QED
    BY <1>1, InitIInv, PTL DEF Spec

-----------------------------------------------------------------------------

\* Through any sequence of alloc and dealloc, blocks go back to the list of
\* the class they were taken from, and are on one list, or with one caller.
THEOREM FixedSizeBlocksKeepTheirClass == Spec => []BlocksKeepTheirClass
  <1>1. IInv => BlocksKeepTheirClass
    <2> SUFFICES ASSUME IInv PROVE BlocksKeepTheirClass
      OBVIOUS
    <2>1. \A i \in Index : DOMAIN list_heads[i] = 1 .. Len(list_heads[i])
      BY LenProperties DEF IInv, ListsSound
    <2> QED
      BY <2>1 DEF IInv, ListsSound, LiveSound, OneOwner, BlocksKeepTheirClass, IsInjective, Contains
  <1> QED
    BY <1>1, AlwaysIInv, PTL

\* The fixed-size block allocator implements the GlobalAlloc contract.
THEOREM FixedSizeImplementsHeap == Spec => ImplementsHeap
  <1>1. Init => H!Init
    BY DEF Init, H!Init
  <1>2. IInv /\ [Next]_vars => [H!Next]_live
    <2> SUFFICES ASSUME IInv, [Next]_vars PROVE H!Next \/ UNCHANGED live
      OBVIOUS
    <2>1. CASE \E b \in live : live' = live \ {b}
      BY <2>1 DEF H!Next, H!Dealloc
    <2>2. CASE \E b : b \notin live /\ b.layout \in Layouts /\ live' = live \cup {b}
      <3>1. PICK b : b \notin live /\ b.layout \in Layouts /\ live' = live \cup {b}
        BY <2>2
      <3>2. IInv'
        BY NextIInv
      <3>3. /\ HeapStart <= b.addr /\ End(b) <= HeapEnd /\ b.addr % b.layout.align = 0
            /\ \A o \in live : Disjoint(b, o)
        BY <3>1, <3>2, LiveBlocksStaySound DEF LiveInHeap, Disjoint, End
      <3>4. H!Fits(b)
        BY <3>3 DEF H!Fits, H!End, H!Disjoint, End, Disjoint, HeapEnd
      <3> QED
        BY <3>1, <3>4 DEF H!Next, H!Alloc
    <2> QED
      BY <2>1, <2>2, NextIInv
  <1> QED
    BY <1>1, <1>2, AlwaysIInv, PTL DEF Spec, ImplementsHeap, H!Spec

=============================================================================
