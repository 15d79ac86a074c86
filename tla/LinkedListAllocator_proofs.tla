--------------------- MODULE LinkedListAllocator_proofs ---------------------
(***************************************************************************)
(* Proofs about LinkedListAllocator.tla: for every heap and every set of   *)
(* layouts, nodes are written into free memory only, the asserts of        *)
(* add_free_region hold, and the GlobalAlloc contract is kept.             *)
(***************************************************************************)
EXTENDS LinkedListAllocator, SequenceTheorems, TLAPS

Region == [addr : Nat, size : Nat]

HeapEnd == HeapStart + HeapSize

\* Memory that add_free_region accepts: in the heap, with room for a node.
Usable(r) ==
    /\ r.addr % ListNodeAlign = 0
    /\ ListNodeSize <= r.size
    /\ HeapStart <= r.addr
    /\ end_addr(r) <= HeapEnd

\* A list of usable regions that do not overlap.
SoundList(s) ==
    /\ s \in Seq(Region)
    /\ \A i \in 1 .. Len(s) : Usable(s[i])
    /\ \A i, j \in 1 .. Len(s) : i # j => Apart(s[i], s[j])

BlocksUsable ==
    /\ live \subseteq [addr : Nat, layout : Layouts]
    /\ \A b \in live : Usable(Occupied(b))

BlocksApart == \A a, b \in live : a # b => Apart(Occupied(a), Occupied(b))

ListApart == \A i \in 1 .. Len(free), b \in live : Apart(free[i], Occupied(b))

IInv ==
    /\ panicked = FALSE
    /\ SoundList(free)
    /\ BlocksUsable
    /\ BlocksApart
    /\ ListApart

-----------------------------------------------------------------------------
(* Alignment and size_align.                                               *)

\* align_up returns a multiple of align, not less than its argument.
LEMMA AlignUp ==
    ASSUME NEW a \in Nat, NEW n \in Nat \ {0}
    PROVE  /\ align_up(a, n) \in Nat
           /\ a <= align_up(a, n)
           /\ align_up(a, n) % n = 0
           /\ \E q \in Nat : align_up(a, n) = q * n
  <1> DEFINE q == (a + n - 1) \div n
  <1>1. q \in Nat /\ q * n <= a + n - 1 /\ a + n - 1 < q * n + n
    OBVIOUS
  <1> HIDE DEF q
  <1>2. q * n \in Nat /\ a <= q * n
    BY <1>1
  <1>3. (q * n) % n = 0
    BY <1>1
  <1> QED
    BY <1>1, <1>2, <1>3 DEF align_up, q

\* An address that is aligned already stays where it is.
LEMMA AlignUpAligned ==
    ASSUME NEW a \in Nat, a % ListNodeAlign = 0
    PROVE  align_up(a, ListNodeAlign) = a
  BY DEF align_up, ListNodeAlign

\* A multiple of a multiple is a multiple.
LEMMA MultipleOfMultiple ==
    ASSUME NEW d \in Nat \ {0}, NEW n \in Nat \ {0}, n % d = 0, NEW q \in Nat
    PROVE  (q * n) % d = 0
  <1>1. PICK k \in Nat : n = k * d
    <2> DEFINE k == n \div d
    <2>1. k \in Nat /\ n = k * d
      OBVIOUS
    <2> QED
      BY <2>1
  <1>2. q * n = (q * k) * d /\ q * k \in Nat
    BY <1>1
  <1> DEFINE m == q * k
  <1> HIDE DEF m
  <1>3. m \in Nat => (m * d) % d = 0
    OBVIOUS
  <1> QED
    BY <1>2, <1>3 DEF m

\* The sum of two aligned numbers is aligned.
LEMMA AlignedSum ==
    ASSUME NEW a \in Nat, NEW b \in Nat, a % ListNodeAlign = 0, b % ListNodeAlign = 0
    PROVE  (a + b) % ListNodeAlign = 0
  BY DEF ListNodeAlign

\* size_align: the adjusted layout covers the one asked for, holds a node,
\* and its alignment serves both.
LEMMA SizeAlign ==
    ASSUME NEW l \in Layouts
    PROVE  /\ l.size \in Nat \ {0} /\ l.align \in Nat \ {0}
           /\ adjusted_align(l) \in Nat \ {0}
           /\ adjusted_align(l) % ListNodeAlign = 0
           /\ adjusted_align(l) % l.align = 0
           /\ adjusted_size(l) \in Nat
           /\ adjusted_size(l) % ListNodeAlign = 0
           /\ ListNodeSize <= adjusted_size(l)
           /\ l.size <= adjusted_size(l)
  <1>1. l.size \in Nat \ {0} /\ l.align \in Nat \ {0}
    BY LinkedListAssumption
  <1>2. /\ adjusted_align(l) \in Nat \ {0}
        /\ adjusted_align(l) % ListNodeAlign = 0
        /\ adjusted_align(l) % l.align = 0
    <2>1. CASE l.align < ListNodeAlign
      <3>1. ListNodeAlign % l.align = 0
        BY <1>1, <2>1, LinkedListAssumption DEF ListNodeAlign
      <3> QED
        BY <2>1, <3>1 DEF adjusted_align, ListNodeAlign
    <2>2. CASE ~(l.align < ListNodeAlign)
      <3>1. l.align % ListNodeAlign = 0
        <4>1. CASE ListNodeAlign % l.align = 0
          <5>1. l.align = 8
            BY <1>1, <2>2, <4>1 DEF ListNodeAlign
          <5> QED
            BY <5>1 DEF ListNodeAlign
        <4> QED
          BY <4>1, LinkedListAssumption
      <3>2. l.align % l.align = 0
        BY <1>1
      <3> QED
        BY <1>1, <2>2, <3>1, <3>2 DEF adjusted_align
    <2> QED
      BY <2>1, <2>2
  <1> DEFINE padded == align_up(l.size, adjusted_align(l))
  <1>3. padded \in Nat /\ l.size <= padded /\ padded % ListNodeAlign = 0
    <2>1. padded \in Nat /\ l.size <= padded
      BY <1>1, <1>2, AlignUp
    <2>2. PICK q \in Nat : padded = q * adjusted_align(l)
      BY <1>1, <1>2, AlignUp
    <2>3. padded % ListNodeAlign = 0
      BY <1>2, <2>2, MultipleOfMultiple DEF ListNodeAlign
    <2> QED
      BY <2>1, <2>3
  <1> HIDE DEF padded
  <1>4. adjusted_size(l) = IF padded < ListNodeSize THEN ListNodeSize ELSE padded
    BY DEF adjusted_size, padded
  <1>5. /\ adjusted_size(l) \in Nat
        /\ adjusted_size(l) % ListNodeAlign = 0
        /\ ListNodeSize <= adjusted_size(l)
        /\ l.size <= adjusted_size(l)
    BY <1>1, <1>3, <1>4 DEF ListNodeAlign, ListNodeSize
  <1> QED
    BY <1>1, <1>2, <1>5

-----------------------------------------------------------------------------
(* The list.                                                               *)

\* What is left of a list when one region is taken out.
LEMMA RemoveAtElements ==
    ASSUME NEW S, NEW s \in Seq(S), NEW i \in 1 .. Len(s)
    PROVE  /\ RemoveAt(s, i) \in Seq(S)
           /\ Len(RemoveAt(s, i)) = Len(s) - 1
           /\ \A j \in 1 .. (Len(s) - 1) :
                 RemoveAt(s, i)[j] = IF j < i THEN s[j] ELSE s[j + 1]
  <1> DEFINE front == SubSeq(s, 1, i - 1)
             back == SubSeq(s, i + 1, Len(s))
  <1>1. Len(s) \in Nat /\ \A j \in 1 .. Len(s) : s[j] \in S
    BY ElementOfSeq, LenProperties
  <1>2. /\ front \in Seq(S)
        /\ Len(front) = i - 1
        /\ \A j \in 1 .. (i - 1) : front[j] = s[j]
    BY <1>1, SubSeqProperties
  <1>3. /\ back \in Seq(S)
        /\ Len(back) = Len(s) - i
        /\ \A j \in 1 .. (Len(s) - i) : back[j] = s[i + j]
    BY <1>1, SubSeqProperties
  <1> HIDE DEF front, back
  <1> DEFINE t == front \o back
  <1>4. /\ t \in Seq(S)
        /\ Len(t) = Len(front) + Len(back)
        /\ \A j \in 1 .. Len(front) + Len(back) :
              t[j] = IF j <= Len(front) THEN front[j] ELSE back[j - Len(front)]
    BY <1>2, <1>3, ConcatProperties
  <1> HIDE DEF t
  <1> DEFINE m == Len(front)
             n == Len(back)
             k == Len(s)
  <1>m. m = i - 1 /\ n = k - i /\ k \in Nat /\ i \in 1 .. k
    BY <1>1, <1>2, <1>3
  <1>t. \A j \in 1 .. m + n : t[j] = IF j <= m THEN front[j] ELSE back[j - m]
    BY <1>4
  <1>f. \A j \in 1 .. m : front[j] = s[j]
    BY <1>2
  <1>b. \A j \in 1 .. n : back[j] = s[i + j]
    BY <1>3
  <1> HIDE DEF m, n, k
  <1>5. ASSUME NEW j \in 1 .. (k - 1)
        PROVE  t[j] = IF j < i THEN s[j] ELSE s[j + 1]
    <2>1. CASE j < i
      BY <1>m, <1>t, <1>f, <2>1
    <2>2. CASE ~(j < i)
      <3>1. j - m \in 1 .. n /\ i + (j - m) = j + 1 /\ j \in 1 .. m + n /\ ~(j <= m)
        BY <1>m, <2>2
      <3>2. t[j] = back[j - m]
        BY <1>t, <3>1
      <3>3. back[j - m] = s[i + (j - m)]
        BY <1>b, <3>1
      <3> QED
        BY <2>2, <3>1, <3>2, <3>3
    <2> QED
      BY <2>1, <2>2
  <1>6. RemoveAt(s, i) = t
    BY DEF RemoveAt, front, back, t
  <1>7. Len(t) = Len(s) - 1
    BY <1>1, <1>2, <1>3, <1>4
  <1> QED
    BY <1>4, <1>5, <1>6, <1>7 DEF k

\* A list stays sound without one of its regions.
LEMMA RemoveKeepsSound ==
    ASSUME NEW s, SoundList(s), NEW i \in 1 .. Len(s)
    PROVE  SoundList(RemoveAt(s, i))
  <1> DEFINE t == RemoveAt(s, i)
  <1>1. s \in Seq(Region) /\ Len(s) \in Nat
    BY LenProperties DEF SoundList
  <1>2. /\ t \in Seq(Region) /\ Len(t) = Len(s) - 1
        /\ \A j \in 1 .. Len(t) : t[j] = IF j < i THEN s[j] ELSE s[j + 1]
    BY <1>1, RemoveAtElements
  <1> HIDE DEF t
  <1>3. \A j \in 1 .. Len(t) : Usable(t[j])
    BY <1>1, <1>2 DEF SoundList
  <1>4. ASSUME NEW j \in 1 .. Len(t), NEW k \in 1 .. Len(t), j # k
        PROVE  Apart(t[j], t[k])
    <2> DEFINE jj == IF j < i THEN j ELSE j + 1
               kk == IF k < i THEN k ELSE k + 1
    <2>1. jj \in 1 .. Len(s) /\ kk \in 1 .. Len(s) /\ jj # kk
      BY <1>1, <1>2, <1>4
    <2>2. t[j] = s[jj] /\ t[k] = s[kk]
      BY <1>2
    <2> QED
      BY <2>1, <2>2 DEF SoundList
  <1> QED
    BY <1>2, <1>3, <1>4 DEF SoundList, t

\* A list stays sound with a usable region in front that overlaps none of it.
LEMMA AddKeepsSound ==
    ASSUME NEW s, SoundList(s), NEW r \in Region, Usable(r),
           \A i \in 1 .. Len(s) : Apart(r, s[i])
    PROVE  SoundList(<<r>> \o s)
  <1> DEFINE t == <<r>> \o s
  <1>1. s \in Seq(Region) /\ Len(s) \in Nat
    BY LenProperties DEF SoundList
  <1>2. <<r>> \in Seq(Region) /\ Len(<<r>>) = 1 /\ <<r>>[1] = r
    OBVIOUS
  <1>3. /\ t \in Seq(Region) /\ Len(t) = Len(s) + 1
        /\ \A j \in 1 .. Len(t) : t[j] = IF j = 1 THEN r ELSE s[j - 1]
    BY <1>1, <1>2, ConcatProperties
  <1> HIDE DEF t
  <1>4. \A j \in 1 .. Len(t) : Usable(t[j])
    BY <1>1, <1>3 DEF SoundList
  <1>5. ASSUME NEW j \in 1 .. Len(t), NEW k \in 1 .. Len(t), j # k
        PROVE  Apart(t[j], t[k])
    <2>1. CASE j = 1
      BY <1>1, <1>3, <1>5, <2>1 DEF Apart
    <2>2. CASE k = 1
      BY <1>1, <1>3, <1>5, <2>2 DEF Apart
    <2>3. CASE j # 1 /\ k # 1
      BY <1>1, <1>3, <1>5, <2>3 DEF SoundList
    <2> QED
      BY <2>1, <2>2, <2>3
  <1> QED
    BY <1>3, <1>4, <1>5 DEF SoundList, t

-----------------------------------------------------------------------------
(* The invariant.                                                          *)

\* The asserts accept usable memory: add_free_region goes on to the list.
LEMMA UsableIsAccepted ==
    ASSUME NEW a \in Nat, NEW n \in Nat, NEW rest, Usable([addr |-> a, size |-> n]),
           AddFreeRegion(rest, a, n)
    PROVE  free' = <<[addr |-> a, size |-> n]>> \o rest /\ panicked' = panicked
  <1>1. a % ListNodeAlign = 0 /\ ListNodeSize <= n
    BY DEF Usable
  <1>2. HoldsListNode(a, n)
    BY <1>1, AlignUpAligned DEF HoldsListNode, ListNodeSize
  <1> QED
    BY <1>2 DEF AddFreeRegion

\* The block alloc takes from a region lies inside it, at an address aligned
\* for the caller, and what is left behind it can hold a node.
LEMMA BlockInRegion ==
    ASSUME NEW r \in Region, Usable(r), NEW l \in Layouts, Suitable(r, l)
    PROVE  LET start == align_up(r.addr, adjusted_align(l))
               end == start + adjusted_size(l)
               excess == end_addr(r) - end
               block == [addr |-> start, layout |-> l]
           IN  /\ start \in Nat /\ end \in Nat /\ excess \in Nat
               /\ r.addr <= start /\ end <= end_addr(r)
               /\ start % l.align = 0
               /\ block \in [addr : Nat, layout : Layouts]
               /\ Occupied(block) \in Region /\ Usable(Occupied(block))
               /\ end_addr(Occupied(block)) = end
               /\ excess > 0 => Usable([addr |-> end, size |-> excess])
  <1> DEFINE start == align_up(r.addr, adjusted_align(l))
             size == adjusted_size(l)
             end == start + size
             excess == end_addr(r) - end
             block == [addr |-> start, layout |-> l]
  <1>1. /\ adjusted_align(l) \in Nat \ {0}
        /\ adjusted_align(l) % ListNodeAlign = 0
        /\ adjusted_align(l) % l.align = 0
        /\ l.align \in Nat \ {0}
        /\ size \in Nat /\ size % ListNodeAlign = 0 /\ ListNodeSize <= size
    BY SizeAlign
  <1>2. r.addr \in Nat /\ r.size \in Nat /\ end_addr(r) \in Nat
    BY DEF Region, end_addr
  <1>3. start \in Nat /\ r.addr <= start
    BY <1>1, <1>2, AlignUp
  <1>4. start % ListNodeAlign = 0 /\ start % l.align = 0
    <2>1. PICK q \in Nat : start = q * adjusted_align(l)
      BY <1>1, <1>2, AlignUp
    <2> QED
      BY <1>1, <2>1, MultipleOfMultiple DEF ListNodeAlign
  <1>5. end <= end_addr(r) /\ (excess = 0 \/ excess >= ListNodeSize)
    BY DEF Suitable
  <1>6. Occupied(block) = [addr |-> start, size |-> size]
    BY DEF Occupied
  <1>7. HeapStart \in Nat /\ HeapStart <= r.addr /\ end_addr(r) <= HeapEnd /\ HeapEnd \in Nat
    BY LinkedListAssumption DEF Usable, HeapEnd
  <1> HIDE DEF start, size
  <1>8. end \in Nat /\ excess \in Nat /\ end % ListNodeAlign = 0
    <2>1. start \in Nat /\ size \in Nat /\ end_addr(r) \in Nat
      BY <1>1, <1>2, <1>3
    <2>2. end \in Nat /\ excess \in Nat
      BY <1>5, <2>1
    <2>3. end % ListNodeAlign = 0
      BY <1>1, <1>4, <2>1, AlignedSum
    <2> QED
      BY <2>2, <2>3
  <1>9. Occupied(block) \in Region /\ Usable(Occupied(block)) /\ end_addr(Occupied(block)) = end
    BY <1>1, <1>2, <1>3, <1>4, <1>5, <1>6, <1>7 DEF Usable, Region, end_addr
  <1>10. excess > 0 => Usable([addr |-> end, size |-> excess])
    <2> SUFFICES ASSUME excess > 0 PROVE Usable([addr |-> end, size |-> excess])
      OBVIOUS
    <2> DEFINE e == end
               x == excess
    <2>1. e \in Nat /\ x \in Nat /\ e % ListNodeAlign = 0 /\ e + x = end_addr(r)
      BY <1>2, <1>8
    <2>2. x >= ListNodeSize /\ HeapStart <= e
      BY <1>1, <1>2, <1>3, <1>5, <1>7, <1>8
    <2> HIDE DEF e, x
    <2>3. Usable([addr |-> e, size |-> x])
      BY <1>7, <2>1, <2>2 DEF Usable, end_addr, ListNodeSize
    <2> QED
      BY <2>3 DEF e, x
  <1> HIDE DEF end, excess
  <1> QED
    BY <1>1, <1>3, <1>4, <1>5, <1>8, <1>9, <1>10 DEF start, size, end, excess

\* What lies inside a region is apart from whatever the region is apart from.
LEMMA InsideIsApart ==
    ASSUME NEW r \in Region, NEW s \in Region, NEW t \in Region, Apart(r, s),
           r.addr <= t.addr, end_addr(t) <= end_addr(r)
    PROVE  Apart(t, s) /\ Apart(s, t)
  BY DEF Apart, end_addr, Region

\* LinkedListAllocator::init satisfies the invariant.
LEMMA InitIInv == Init => IInv
  <1> SUFFICES ASSUME Init PROVE IInv
    OBVIOUS
  <1> DEFINE r == [addr |-> HeapStart, size |-> HeapSize]
  <1>1. r \in Region /\ Usable(r)
    BY LinkedListAssumption DEF Region, Usable, end_addr, HeapEnd
  <1>2. free = <<r>>
    BY DEF Init
  <1> HIDE DEF r
  <1>3. free \in Seq(Region) /\ Len(free) = 1 /\ free[1] = r
    BY <1>1, <1>2
  <1>4. SoundList(free)
    BY <1>1, <1>3 DEF SoundList
  <1> QED
    BY <1>4 DEF Init, IInv, BlocksUsable, BlocksApart, ListApart

\* Live blocks occupy regions of memory.
LEMMA OccupiedIsRegion ==
    ASSUME BlocksUsable, NEW b \in live
    PROVE  Occupied(b) \in Region /\ Usable(Occupied(b)) /\ b.layout \in Layouts
  BY SizeAlign DEF BlocksUsable, Occupied, Region

\* alloc moves memory from a region of the list to a new live block; the part
\* behind the block stays free.
LEMMA AllocIInv == IInv /\ Alloc => IInv'
  <1> SUFFICES ASSUME IInv, Alloc PROVE IInv'
    OBVIOUS
  <1>1. PICK l \in Layouts, i \in DOMAIN free :
          LET r == free[i]
              start == align_up(r.addr, adjusted_align(l))
              end == start + adjusted_size(l)
              excess == end_addr(r) - end
          IN  /\ Suitable(r, l)
              /\ IF excess > 0
                 THEN AddFreeRegion(RemoveAt(free, i), end, excess)
                 ELSE free' = RemoveAt(free, i) /\ UNCHANGED panicked
              /\ live' = live \cup {[addr |-> start, layout |-> l]}
    BY DEF Alloc, FirstSuitable
  <1> DEFINE r == free[i]
             start == align_up(r.addr, adjusted_align(l))
             end == start + adjusted_size(l)
             excess == end_addr(r) - end
             block == [addr |-> start, layout |-> l]
             rest == RemoveAt(free, i)
             left == [addr |-> end, size |-> excess]
  <1>2. free \in Seq(Region) /\ Len(free) \in Nat /\ i \in 1 .. Len(free) /\ r \in Region /\ Usable(r)
    BY LenProperties, ElementOfSeq DEF IInv, SoundList
  <1>3. /\ start \in Nat /\ end \in Nat /\ excess \in Nat
        /\ r.addr <= start /\ end <= end_addr(r)
        /\ block \in [addr : Nat, layout : Layouts]
        /\ Occupied(block) \in Region /\ Usable(Occupied(block))
        /\ end_addr(Occupied(block)) = end /\ Occupied(block).addr = start
        /\ excess > 0 => Usable(left)
    BY <1>1, <1>2, BlockInRegion DEF Occupied
  <1>4. /\ live' = live \cup {block}
        /\ panicked' = FALSE
        /\ free' = IF excess > 0 THEN <<left>> \o rest ELSE rest
    <2>1. CASE excess > 0
      <3>1. AddFreeRegion(rest, end, excess) /\ live' = live \cup {block}
        BY <1>1, <2>1
      <3> QED
        BY <1>3, <2>1, <3>1, UsableIsAccepted DEF IInv
    <2>2. CASE ~(excess > 0)
      BY <1>1, <2>2 DEF IInv
    <2> QED
      BY <2>1, <2>2
  <1>5. /\ left \in Region /\ end_addr(left) = end_addr(r) /\ left.addr = end
        /\ r.addr <= end
    <2>1. r.addr \in Nat /\ end_addr(r) \in Nat
      BY <1>2 DEF Region, end_addr
    <2>2. adjusted_size(l) \in Nat
      BY SizeAlign
    <2>3. r.addr <= end
      BY <1>3, <2>1, <2>2
    <2>4. end + excess = end_addr(r)
      BY <1>3, <2>1
    <2> HIDE DEF end, excess
    <2>5. left \in Region /\ left.addr = end /\ end_addr(left) = end + excess
      BY <1>3 DEF Region, end_addr
    <2> QED
      BY <2>3, <2>4, <2>5
  <1>6. /\ SoundList(rest)
        /\ \A j \in 1 .. Len(rest) : Apart(r, rest[j]) /\ rest[j] \in Region
        /\ \A j \in 1 .. Len(rest), b \in live : Apart(rest[j], Occupied(b))
    <2>1. SoundList(rest) /\ rest \in Seq(Region) /\ Len(rest) = Len(free) - 1
      BY <1>2, RemoveKeepsSound, RemoveAtElements DEF IInv
    <2>2. ASSUME NEW j \in 1 .. Len(rest)
          PROVE  \E k \in 1 .. Len(free) : k # i /\ rest[j] = free[k]
      <3>1. rest[j] = IF j < i THEN free[j] ELSE free[j + 1]
        BY <1>2, <2>1, RemoveAtElements
      <3>2. j \in 1 .. Len(free) /\ j + 1 \in 1 .. Len(free)
        BY <1>2, <2>1
      <3>3. CASE j < i
        <4>1. j # i
          BY <1>2, <3>3
        <4> QED
          BY <3>1, <3>2, <3>3, <4>1
      <3>4. CASE ~(j < i)
        <4>1. j + 1 # i
          BY <1>2, <3>2, <3>4
        <4> QED
          BY <3>1, <3>2, <3>4, <4>1
      <3> QED
        BY <3>3, <3>4
    <2>3. \A j \in 1 .. Len(rest) : rest[j] \in Region
      BY <2>1, ElementOfSeq
    <2> QED
      BY <1>2, <2>1, <2>2, <2>3 DEF IInv, SoundList, ListApart
  <1> HIDE DEF r, start, end, excess, block, rest, left
  <1>7. \A b \in live : Occupied(b) \in Region /\ Apart(r, Occupied(b))
    BY <1>2, OccupiedIsRegion DEF IInv, ListApart, r
  <1>8. \A b \in live : Apart(Occupied(block), Occupied(b)) /\ Apart(Occupied(b), Occupied(block))
    BY <1>2, <1>3, <1>7, InsideIsApart
  <1>9. \A b \in live : Apart(left, Occupied(b))
    <2>1. end_addr(r) \in Nat
      BY <1>2 DEF end_addr, Region
    <2> QED
      BY <1>2, <1>5, <1>7, <2>1, InsideIsApart
  <1>10. \A j \in 1 .. Len(rest) : Apart(left, rest[j]) /\ Apart(rest[j], Occupied(block))
    <2> SUFFICES ASSUME NEW j \in 1 .. Len(rest)
                 PROVE  Apart(left, rest[j]) /\ Apart(rest[j], Occupied(block))
      OBVIOUS
    <2>1. rest[j] \in Region /\ Apart(r, rest[j])
      BY <1>6
    <2>2. end_addr(r) \in Nat
      BY <1>2 DEF end_addr, Region
    <2> QED
      BY <1>2, <1>3, <1>5, <2>1, <2>2, InsideIsApart
  <1>11. Apart(left, Occupied(block))
    BY <1>3, <1>5 DEF Apart
  <1>12. BlocksUsable' /\ BlocksApart'
    BY <1>3, <1>4, <1>8 DEF IInv, BlocksUsable, BlocksApart
  <1>13. SoundList(free') /\ ListApart'
    <2>1. CASE excess > 0
      <3>1. free' = <<left>> \o rest
        BY <1>4, <2>1
      <3>2. SoundList(free')
        BY <1>3, <1>5, <1>6, <1>10, <2>1, <3>1, AddKeepsSound
      <3>3. /\ Len(free') = Len(rest) + 1 /\ Len(rest) \in Nat
            /\ \A j \in 1 .. Len(free') : free'[j] = IF j = 1 THEN left ELSE rest[j - 1]
        <4>1. rest \in Seq(Region)
          BY <1>6 DEF SoundList
        <4>2. <<left>> \in Seq(Region) /\ Len(<<left>>) = 1 /\ <<left>>[1] = left
          BY <1>5
        <4> QED
          BY <3>1, <4>1, <4>2, ConcatProperties, LenProperties
      <3>4. ASSUME NEW j \in 1 .. Len(free'), NEW b \in live'
            PROVE  Apart(free'[j], Occupied(b))
        <4>1. CASE j = 1
          BY <1>4, <1>9, <1>11, <3>3, <4>1
        <4>2. CASE j # 1
          <5>1. j - 1 \in 1 .. Len(rest) /\ free'[j] = rest[j - 1]
            BY <3>3, <4>2
          <5> QED
            BY <1>4, <1>6, <1>10, <5>1
        <4> QED
          BY <4>1, <4>2
      <3>5. ListApart'
        BY <3>4 DEF ListApart, Occupied
      <3> QED
        BY <3>2, <3>5
    <2>2. CASE ~(excess > 0)
      <3>1. free' = rest
        BY <1>4, <2>2
      <3>2. \A j \in 1 .. Len(free'), b \in live' : Apart(free'[j], Occupied(b))
        BY <1>4, <1>6, <1>10, <3>1
      <3>3. ListApart'
        BY <3>2 DEF ListApart, Occupied
      <3> QED
        BY <1>6, <3>1, <3>3
    <2> QED
      BY <2>1, <2>2
  <1> QED
    BY <1>4, <1>12, <1>13 DEF IInv

\* dealloc turns the memory of a live block into a region.
LEMMA DeallocIInv == IInv /\ Dealloc => IInv'
  <1> SUFFICES ASSUME IInv, Dealloc PROVE IInv'
    OBVIOUS
  <1>1. PICK b \in live :
          AddFreeRegion(free, b.addr, adjusted_size(b.layout)) /\ live' = live \ {b}
    BY DEF Dealloc
  <1> DEFINE r == [addr |-> b.addr, size |-> adjusted_size(b.layout)]
  <1>2. r = Occupied(b) /\ r \in Region /\ Usable(r)
    BY OccupiedIsRegion DEF IInv, Occupied
  <1>3. free' = <<r>> \o free /\ panicked' = FALSE
    <2>1. b.addr \in Nat /\ adjusted_size(b.layout) \in Nat
      BY <1>2 DEF Region
    <2> QED
      BY <1>1, <1>2, <2>1, UsableIsAccepted DEF IInv
  <1> HIDE DEF r
  <1>4. \A j \in 1 .. Len(free) : Apart(r, free[j])
    BY <1>2 DEF IInv, ListApart, Apart
  <1>5. SoundList(free')
    BY <1>2, <1>3, <1>4, AddKeepsSound DEF IInv
  <1>6. /\ Len(free') = Len(free) + 1 /\ Len(free) \in Nat
        /\ \A j \in 1 .. Len(free') : free'[j] = IF j = 1 THEN r ELSE free[j - 1]
    <2>1. free \in Seq(Region)
      BY DEF IInv, SoundList
    <2>2. <<r>> \in Seq(Region) /\ Len(<<r>>) = 1 /\ <<r>>[1] = r
      BY <1>2
    <2> QED
      BY <1>3, <2>1, <2>2, ConcatProperties, LenProperties
  <1>7. ASSUME NEW j \in 1 .. Len(free'), NEW o \in live'
        PROVE  Apart(free'[j], Occupied(o))
    <2>1. o \in live /\ o # b
      BY <1>1
    <2>2. CASE j = 1
      BY <1>2, <1>6, <2>1, <2>2 DEF IInv, BlocksApart
    <2>3. CASE j # 1
      <3>1. j - 1 \in 1 .. Len(free) /\ free'[j] = free[j - 1]
        BY <1>6, <2>3
      <3> QED
        BY <2>1, <3>1 DEF IInv, ListApart
    <2> QED
      BY <2>2, <2>3
  <1>8. ListApart'
    BY <1>7 DEF ListApart, Occupied
  <1>9. BlocksUsable' /\ BlocksApart'
    BY <1>1 DEF IInv, BlocksUsable, BlocksApart
  <1> QED
    BY <1>3, <1>5, <1>8, <1>9 DEF IInv

\* Every operation preserves the invariant.
LEMMA NextIInv == IInv /\ [Next]_vars => IInv'
  <1>1. IInv /\ (AllocNull \/ UNCHANGED vars) => IInv'
    BY DEF AllocNull, vars, IInv, SoundList, BlocksUsable, BlocksApart, ListApart
  <1> QED
    BY <1>1, AllocIInv, DeallocIInv DEF Next

-----------------------------------------------------------------------------

\* Whatever the order of alloc and dealloc, a ListNode is only ever written to
\* memory that no other region and no caller's block occupies.
THEOREM LinkedListInFreeMemory == Spec => []ListInFreeMemory
  <1>1. IInv => ListInFreeMemory
    <2> SUFFICES ASSUME IInv PROVE ListInFreeMemory
      OBVIOUS
    <2>1. DOMAIN free = 1 .. Len(free)
      BY LenProperties DEF IInv, SoundList
    <2> QED
      BY <2>1 DEF IInv, SoundList, ListApart, Usable, HeapEnd, ListInFreeMemory, Regions
  <1> QED
    BY <1>1, InitIInv, NextIInv, PTL DEF Spec

\* The asserts of add_free_region never fire.
THEOREM LinkedListAssertsHold == Spec => []AssertsHold
  <1>1. IInv => AssertsHold
    BY DEF IInv, AssertsHold
  <1> QED
    BY <1>1, InitIInv, NextIInv, PTL DEF Spec

\* The linked-list allocator implements the GlobalAlloc contract: the padding
\* of size_align only ever makes blocks larger than their callers know.
THEOREM LinkedListImplementsHeap == Spec => ImplementsHeap
  <1>1. Init => H!Init
    BY DEF Init, H!Init
  <1>2. IInv /\ [Next]_vars => [H!Next]_live
    <2> SUFFICES ASSUME IInv, Next PROVE H!Next \/ UNCHANGED live
      BY DEF vars
    <2>1. CASE Alloc
      <3>1. PICK l \in Layouts, i \in DOMAIN free :
              /\ Suitable(free[i], l)
              /\ live' = live \cup
                    {[addr |-> align_up(free[i].addr, adjusted_align(l)), layout |-> l]}
        BY <2>1 DEF Alloc, FirstSuitable
      <3> DEFINE r == free[i]
                 b == [addr |-> align_up(r.addr, adjusted_align(l)), layout |-> l]
      <3>2. i \in 1 .. Len(free) /\ r \in Region /\ Usable(r)
        BY LenProperties, ElementOfSeq DEF IInv, SoundList
      <3>3. /\ b.addr \in Nat /\ r.addr <= b.addr /\ b.addr % b.layout.align = 0
            /\ end_addr(Occupied(b)) <= end_addr(r)
            /\ Occupied(b) \in Region /\ Occupied(b).addr = b.addr
        BY <3>1, <3>2, BlockInRegion DEF Occupied
      <3>4. \A o \in live \cup {b} :
              /\ o.addr \in Nat /\ End(o) \in Nat /\ o.addr < End(o)
              /\ End(o) <= end_addr(Occupied(o))
              /\ Occupied(o).addr = o.addr /\ end_addr(Occupied(o)) \in Nat
        <4> SUFFICES ASSUME NEW o \in live \cup {b}
                     PROVE  /\ o.addr \in Nat /\ End(o) \in Nat /\ o.addr < End(o)
                            /\ End(o) <= end_addr(Occupied(o))
                            /\ Occupied(o).addr = o.addr /\ end_addr(Occupied(o)) \in Nat
          OBVIOUS
        <4>1. o.addr \in Nat /\ o.layout \in Layouts
          BY <3>3 DEF IInv, BlocksUsable
        <4>2. /\ o.layout.size \in Nat \ {0} /\ adjusted_size(o.layout) \in Nat
              /\ o.layout.size <= adjusted_size(o.layout)
          BY <4>1, SizeAlign
        <4> QED
          BY <4>1, <4>2 DEF End, Occupied, end_addr
      <3>5. \A o \in live : Apart(Occupied(b), Occupied(o))
        <4> SUFFICES ASSUME NEW o \in live PROVE Apart(Occupied(b), Occupied(o))
          OBVIOUS
        <4>1. Apart(r, Occupied(o)) /\ Occupied(o) \in Region
          BY <3>2, OccupiedIsRegion DEF IInv, ListApart
        <4> QED
          BY <3>2, <3>3, <4>1, InsideIsApart
      <3> HIDE DEF b, r
      <3>6. \A o \in live : Disjoint(b, o) /\ o # b
        BY <3>4, <3>5 DEF Apart, Disjoint
      <3>7. HeapStart <= b.addr /\ End(b) <= HeapStart + HeapSize
        <4>1. /\ HeapStart \in Nat /\ HeapSize \in Nat /\ r.addr \in Nat /\ end_addr(r) \in Nat
              /\ HeapStart <= r.addr /\ end_addr(r) <= HeapStart + HeapSize
          BY <3>2, LinkedListAssumption DEF Usable, HeapEnd, Region, end_addr
        <4> QED
          BY <3>3, <3>4, <4>1
      <3>8. H!Fits(b)
        BY <3>3, <3>6, <3>7 DEF H!Fits, H!End, H!Disjoint, End, Disjoint
      <3>9. live' = live \cup {b} /\ b \in live' \ live /\ b.layout \in Layouts
        BY <3>1, <3>6 DEF b, r
      <3> QED
        BY <3>8, <3>9 DEF H!Next, H!Alloc
    <2>2. CASE Dealloc
      BY <2>2 DEF Dealloc, H!Next, H!Dealloc
    <2>3. CASE AllocNull
      BY <2>3 DEF AllocNull, vars
    <2> QED
      BY <2>1, <2>2, <2>3 DEF Next
  <1> QED
    BY <1>1, <1>2, InitIInv, NextIInv, PTL DEF Spec, ImplementsHeap, H!Spec

=============================================================================
