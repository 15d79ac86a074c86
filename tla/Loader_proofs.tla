--------------------------- MODULE Loader_proofs ---------------------------
(***************************************************************************)
(* Proofs about FrameAllocator.tla: for every memory map whose usable      *)
(* regions share no frame, each frame is handed out once.  About           *)
(* Paging.tla, for every such map and every placement of the areas that    *)
(* keeps them apart: no frame is used twice, no page is mapped twice, and  *)
(* free never takes a page from another block.  Then about Loader.tla: for *)
(* every set of ELF files, init writes the segments into pages it has      *)
(* mapped for them.                                                        *)
(***************************************************************************)
EXTENDS Loader, SequenceTheorems, WellFoundedInduction, TLAPS

-----------------------------------------------------------------------------
(* The frames of the memory map.  FramesUpTo is a recursive function; that *)
(* it obeys its definition, and what it computes, is proved from the least *)
(* number of regions for which it would not.                               *)

\* A set of numbers has a least one.
LEMMA LeastNumber ==
    ASSUME NEW S, S \subseteq Nat, S # {}
    PROVE  \E m \in S : \A n \in S : m <= n
  <1>1. PICK m \in S : \A n \in S : ~(<<n, m>> \in OpToRel(<, Nat))
    BY WFMin, NatLessThanWellFounded
  <1>2. ASSUME NEW n \in S PROVE m <= n
    <2>1. m \in Nat /\ n \in Nat
      OBVIOUS
    <2>2. ~(n < m)
      BY <1>1, <2>1 DEF OpToRel
    <2> QED
      BY <2>1, <2>2
  <1> QED
    BY <1>2

Regions == [start : Nat, end : Nat, usable : BOOLEAN]

\* A frame some byte of which is in the region.
Touches(r, f) == r.start \div FrameSize <= f /\ f <= (r.end - 1) \div FrameSize

\* A list of frames, none of them twice.
OnceEach(s) == s \in Seq(Nat) /\ \A h, j \in 1 .. Len(s) : s[h] = s[j] => h = j

\* Two regions, one of which ends in a frame before that of the other.
LEMMA NoCommonFrame ==
    ASSUME NEW r \in Regions, NEW q \in Regions, NEW f \in Nat, Touches(r, f),
           (r.end - 1) \div FrameSize < q.start \div FrameSize
    PROVE  ~Touches(q, f)
  <1> DEFINE last == (r.end - 1) \div FrameSize
             first == q.start \div FrameSize
  <1>1. r.end \in Nat /\ q.start \in Nat
    BY DEF Regions
  <1>2. last \in Int
    BY <1>1 DEF FrameSize
  <1>3. first \in Int
    BY <1>1 DEF FrameSize
  <1>4. f <= last /\ last < first
    BY DEF Touches
  <1> HIDE DEF last, first
  <1>5. ~(first <= f)
    BY <1>2, <1>3, <1>4
  <1> QED
    BY <1>5 DEF Touches, first

\* The frames of one region: different, and all of them of the region.
LEMMA RegionFrames ==
    ASSUME NEW r \in Regions, r.start <= r.end
    PROVE  /\ OnceEach(FramesOf(r))
           /\ \A k \in 1 .. Len(FramesOf(r)) : Touches(r, FramesOf(r)[k])
  <1> DEFINE first == r.start \div FrameSize
             count == (r.end - r.start + FrameSize - 1) \div FrameSize
  <1>1. r.start \in Nat /\ r.end \in Nat
    BY DEF Regions
  <1>2. first \in Nat /\ count \in Nat
    BY <1>1 DEF FrameSize
  <1>3. ASSUME NEW k \in 1 .. count
        PROVE  /\ (r.start + (k - 1) * FrameSize) \div FrameSize = first + (k - 1)
               /\ first + (k - 1) \in Nat
               /\ first + (k - 1) <= (r.end - 1) \div FrameSize
    <2>1. k \in Int /\ k >= 1 /\ k <= (r.end - r.start + 4095) \div 4096
      BY <1>1, <1>2 DEF FrameSize
    <2>2. 4096 * k <= r.end - r.start + 4095
      BY <1>1, <2>1
    <2>3. first + (k - 1) <= (r.end - 1) \div 4096
      BY <1>1, <2>1, <2>2 DEF FrameSize
    <2>4. (r.start + (k - 1) * 4096) \div 4096 = first + (k - 1)
      BY <1>1, <2>1 DEF FrameSize
    <2> QED
      BY <1>2, <2>1, <2>3, <2>4 DEF FrameSize
  <1>4. FramesOf(r) = [k \in 1 .. count |-> first + (k - 1)]
    BY <1>3 DEF FramesOf
  <1> HIDE DEF first, count
  <1>5. FramesOf(r) \in Seq(Nat) /\ Len(FramesOf(r)) = count
    BY <1>2, <1>3, <1>4
  <1>6. \A k \in 1 .. count : FramesOf(r)[k] = first + (k - 1)
    BY <1>4
  <1>7. \A h, j \in 1 .. count : FramesOf(r)[h] = FramesOf(r)[j] => h = j
    BY <1>2, <1>6
  <1>8. ASSUME NEW k \in 1 .. count PROVE Touches(r, FramesOf(r)[k])
    <2>1. first <= first + (k - 1)
      BY <1>2
    <2>2. first + (k - 1) <= (r.end - 1) \div FrameSize
      BY <1>3
    <2> QED
      BY <1>6, <2>1, <2>2 DEF Touches, first
  <1> QED
    BY <1>5, <1>7, <1>8 DEF OnceEach

\* A region gives its frames or none.
LEMMA UsableRegionFrames ==
    ASSUME NEW r \in Regions, r.start <= r.end
    PROVE  /\ OnceEach(UsableFramesOf(r))
           /\ \A k \in 1 .. Len(UsableFramesOf(r)) :
                 r.usable /\ Touches(r, UsableFramesOf(r)[k])
  <1>1. CASE r.usable
    BY <1>1, RegionFrames DEF UsableFramesOf
  <1>2. CASE ~r.usable
    <2>1. UsableFramesOf(r) = <<>>
      BY <1>2 DEF UsableFramesOf
    <2>2. <<>> \in Seq(Nat) /\ Len(<<>>) = 0
      OBVIOUS
    <2> QED
      BY <2>1, <2>2 DEF OnceEach
  <1> QED
    BY <1>1, <1>2

\* Two lists without a common frame, one after the other.
LEMMA OnceEachConcat ==
    ASSUME NEW s, NEW t, OnceEach(s), OnceEach(t),
           \A h \in 1 .. Len(s), j \in 1 .. Len(t) : s[h] # t[j]
    PROVE  OnceEach(s \o t)
  <1>1. s \in Seq(Nat) /\ t \in Seq(Nat) /\ Len(s) \in Nat /\ Len(t) \in Nat
    BY DEF OnceEach
  <1>2. /\ s \o t \in Seq(Nat) /\ Len(s \o t) = Len(s) + Len(t)
        /\ \A h \in 1 .. (Len(s) + Len(t)) :
              (s \o t)[h] = IF h <= Len(s) THEN s[h] ELSE t[h - Len(s)]
    BY <1>1, ConcatProperties
  <1> SUFFICES ASSUME NEW h \in 1 .. (Len(s) + Len(t)), NEW j \in 1 .. (Len(s) + Len(t)),
                      (s \o t)[h] = (s \o t)[j]
               PROVE  h = j
    BY <1>2 DEF OnceEach
  <1>3. CASE h <= Len(s) /\ j <= Len(s)
    BY <1>1, <1>2, <1>3 DEF OnceEach
  <1>4. CASE h <= Len(s) /\ j > Len(s)
    <2>1. h \in 1 .. Len(s) /\ j - Len(s) \in 1 .. Len(t) /\ ~(j <= Len(s))
      BY <1>1, <1>4
    <2>2. s[h] = t[j - Len(s)]
      BY <1>2, <1>4, <2>1
    <2> QED
      BY <2>1, <2>2
  <1>5. CASE h > Len(s) /\ j <= Len(s)
    <2>1. j \in 1 .. Len(s) /\ h - Len(s) \in 1 .. Len(t) /\ ~(h <= Len(s))
      BY <1>1, <1>5
    <2>2. s[j] = t[h - Len(s)]
      BY <1>2, <1>5, <2>1
    <2> QED
      BY <2>1, <2>2
  <1>6. CASE h > Len(s) /\ j > Len(s)
    <2>1. /\ h - Len(s) \in 1 .. Len(t) /\ j - Len(s) \in 1 .. Len(t)
          /\ ~(h <= Len(s)) /\ ~(j <= Len(s))
      BY <1>1, <1>6
    <2>2. t[h - Len(s)] = t[j - Len(s)]
      BY <1>2, <2>1
    <2>3. h - Len(s) = j - Len(s)
      BY <2>1, <2>2 DEF OnceEach
    <2> QED
      BY <1>1, <2>3
  <1> QED
    BY <1>1, <1>3, <1>4, <1>5, <1>6

\* The right-hand side of the recursive definition of FramesUpTo.
UpToStep(map, f) ==
    [n \in 0 .. Len(map) |-> IF n = 0 THEN <<>> ELSE f[n - 1] \o UsableFramesOf(map[n])]

\* FramesUpTo obeys its definition if some function does.
LEMMA UpToChoose ==
    ASSUME NEW map, \E f : f = UpToStep(map, f)
    PROVE  FramesUpTo(map) = UpToStep(map, FramesUpTo(map))
  <1>1. FramesUpTo(map) = CHOOSE f : f = UpToStep(map, f)
    BY DEF FramesUpTo, UpToStep
  <1> QED
    BY <1>1

\* f is what FramesUpTo is to be for the first n regions.
UpToIn(map, n, f) ==
    /\ f = [h \in 0 .. n |-> f[h]]
    /\ f[0] = <<>>
    /\ \A h \in 1 .. n : f[h] = f[h - 1] \o UsableFramesOf(map[h])

\* One region more.
LEMMA UpToExtend ==
    ASSUME NEW map, NEW n \in Nat \ {0}, NEW f, UpToIn(map, n - 1, f)
    PROVE  \E g : UpToIn(map, n, g)
  <1> DEFINE new == f[n - 1] \o UsableFramesOf(map[n])
             g == [h \in 0 .. n |-> IF h = n THEN new ELSE f[h]]
  <1>1. f[0] = <<>> /\ \A h \in 1 .. (n - 1) : f[h] = f[h - 1] \o UsableFramesOf(map[h])
    BY DEF UpToIn
  <1>2. \A h \in 0 .. n : g[h] = IF h = n THEN new ELSE f[h]
    OBVIOUS
  <1>3. g = [h \in 0 .. n |-> g[h]]
    OBVIOUS
  <1> HIDE DEF g, new
  <1>4. g[0] = <<>>
    BY <1>1, <1>2
  <1>5. ASSUME NEW h \in 1 .. n PROVE g[h] = g[h - 1] \o UsableFramesOf(map[h])
    <2>1. g[h - 1] = f[h - 1]
      BY <1>2
    <2>2. CASE h = n
      <3>1. n \in 0 .. n /\ f[h - 1] = f[n - 1] /\ map[h] = map[n]
        BY <2>2
      <3>2. g[h] = new
        BY <1>2, <2>2, <3>1, Zenon
      <3> QED
        BY <2>1, <3>1, <3>2 DEF new
    <2>3. CASE h # n
      <3>1. h \in 1 .. (n - 1) /\ g[h] = f[h]
        BY <1>2, <2>3
      <3> QED
        BY <1>1, <2>1, <3>1
    <2> QED
      BY <2>2, <2>3
  <1> QED
    BY <1>3, <1>4, <1>5 DEF UpToIn

\* There is such a function for every memory map.
LEMMA UpToExists ==
    ASSUME NEW map, NEW n \in Nat
    PROVE  \E f : UpToIn(map, n, f)
  <1> DEFINE Bad == {h \in Nat : ~\E f : UpToIn(map, h, f)}
  <1>1. SUFFICES ASSUME Bad # {} PROVE FALSE
    OBVIOUS
  <1>2. PICK m \in Bad : \A h \in Bad : m <= h
    BY <1>1, LeastNumber
  <1>3. m # 0
    <2>1. UpToIn(map, 0, [h \in 0 .. 0 |-> <<>>])
      BY DEF UpToIn
    <2> QED
      BY <2>1
  <1>4. m \in Nat \ {0} /\ m - 1 \in Nat /\ m - 1 \notin Bad
    BY <1>2, <1>3
  <1>5. \E f : UpToIn(map, m - 1, f)
    BY <1>4
  <1>6. \E f : UpToIn(map, m, f)
    BY <1>4, <1>5, UpToExtend
  <1> QED
    BY <1>6

\* FramesUpTo is what its definition says.
LEMMA UpToDef ==
    ASSUME NEW map, Len(map) \in Nat
    PROVE  UpToIn(map, Len(map), FramesUpTo(map))
  <1> DEFINE N == Len(map)
             v == FramesUpTo(map)
  <1>1. PICK f : UpToIn(map, N, f)
    BY UpToExists
  <1>2. f = UpToStep(map, f)
    <2>1. /\ f = [h \in 0 .. N |-> f[h]] /\ f[0] = <<>>
          /\ \A h \in 1 .. N : f[h] = f[h - 1] \o UsableFramesOf(map[h])
      BY <1>1 DEF UpToIn
    <2>2. \A h \in 0 .. N : h = 0 \/ h \in 1 .. N
      OBVIOUS
    <2>3. \A h \in 0 .. N : f[h] = UpToStep(map, f)[h]
      BY <2>1, <2>2 DEF UpToStep
    <2>4. UpToStep(map, f) = [h \in 0 .. N |-> UpToStep(map, f)[h]]
      BY DEF UpToStep
    <2> QED
      BY <2>1, <2>3, <2>4, Zenon
  <1>3. v = UpToStep(map, v)
    BY <1>2, UpToChoose
  <1> HIDE DEF v
  <1>4. /\ \A h \in 0 .. N : v[h] = IF h = 0 THEN <<>>
                                    ELSE v[h - 1] \o UsableFramesOf(map[h])
        /\ v = [h \in 0 .. N |-> v[h]]
    BY <1>3 DEF UpToStep
  <1>5. \A h \in 1 .. N : h # 0 /\ h \in 0 .. N
    OBVIOUS
  <1>6. v[0] = <<>> /\ \A h \in 1 .. N : v[h] = v[h - 1] \o UsableFramesOf(map[h])
    BY <1>4, <1>5
  <1> QED
    BY <1>4, <1>6 DEF UpToIn, v

\* The frames of the first n regions: each once, and each of a usable one of
\* these regions.
SoundUpTo(map, n) ==
    LET s == FramesUpTo(map)[n] IN
    /\ OnceEach(s)
    /\ \A k \in 1 .. Len(s) : \E h \in 1 .. n : map[h].usable /\ Touches(map[h], s[k])

\* The next region shares no frame with the ones before.
LEMMA SoundExtend ==
    ASSUME NEW map, IsMemoryMap(map), NEW n \in 1 .. Len(map), SoundUpTo(map, n - 1)
    PROVE  SoundUpTo(map, n)
  <1> DEFINE s == FramesUpTo(map)[n - 1]
             t == UsableFramesOf(map[n])
  <1>1. /\ Len(map) \in Nat /\ n \in Nat
        /\ \A h \in 1 .. Len(map) : map[h] \in Regions /\ map[h].start <= map[h].end
    <2>1. map \in Seq(Regions) /\ \A h \in 1 .. Len(map) : map[h].start <= map[h].end
      BY DEF IsMemoryMap, Regions
    <2>2. Len(map) \in Nat /\ \A h \in 1 .. Len(map) : map[h] \in Regions
      BY <2>1
    <2> QED
      BY <2>1, <2>2
  <1>2. FramesUpTo(map)[n] = s \o t
    BY <1>1, UpToDef DEF UpToIn
  <1>3. /\ OnceEach(s)
        /\ \A k \in 1 .. Len(s) : \E h \in 1 .. (n - 1) : map[h].usable /\ Touches(map[h], s[k])
    BY DEF SoundUpTo
  <1>4. /\ OnceEach(t)
        /\ \A k \in 1 .. Len(t) : map[n].usable /\ Touches(map[n], t[k])
    BY <1>1, UsableRegionFrames
  <1> HIDE DEF s, t
  <1>5. ASSUME NEW k \in 1 .. Len(s), NEW j \in 1 .. Len(t) PROVE s[k] # t[j]
    <2>1. PICK h \in 1 .. (n - 1) : map[h].usable /\ Touches(map[h], s[k])
      BY <1>3
    <2>2. map[n].usable /\ Touches(map[n], t[j])
      BY <1>4
    <2>3. h \in 1 .. Len(map) /\ h # n
      BY <1>1
    <2>4. \/ (map[h].end - 1) \div FrameSize < map[n].start \div FrameSize
          \/ (map[n].end - 1) \div FrameSize < map[h].start \div FrameSize
      BY <2>1, <2>2, <2>3 DEF IsMemoryMap
    <2>5. s[k] \in Nat /\ t[j] \in Nat
      BY <1>3, <1>4 DEF OnceEach
    <2>6. map[h] \in Regions /\ map[n] \in Regions
      BY <1>1, <2>3
    <2> QED
      BY <2>1, <2>2, <2>4, <2>5, <2>6, NoCommonFrame
  <1>6. OnceEach(s \o t)
    BY <1>3, <1>4, <1>5, OnceEachConcat
  <1>7. /\ s \in Seq(Nat) /\ t \in Seq(Nat) /\ Len(s) \in Nat /\ Len(t) \in Nat
        /\ Len(s \o t) = Len(s) + Len(t)
        /\ \A h \in 1 .. (Len(s) + Len(t)) :
              (s \o t)[h] = IF h <= Len(s) THEN s[h] ELSE t[h - Len(s)]
    <2>1. s \in Seq(Nat) /\ t \in Seq(Nat)
      BY <1>3, <1>4 DEF OnceEach
    <2> QED
      BY <2>1, ConcatProperties
  <1>8. ASSUME NEW k \in 1 .. Len(s \o t)
        PROVE  \E h \in 1 .. n : map[h].usable /\ Touches(map[h], (s \o t)[k])
    <2>1. CASE k <= Len(s)
      <3>1. k \in 1 .. Len(s) /\ (s \o t)[k] = s[k]
        BY <1>7, <2>1
      <3>2. PICK h \in 1 .. (n - 1) : map[h].usable /\ Touches(map[h], s[k])
        BY <1>3, <3>1
      <3>3. h \in 1 .. n
        BY <1>1
      <3> QED
        BY <3>1, <3>2, <3>3
    <2>2. CASE k > Len(s)
      <3>1. k - Len(s) \in 1 .. Len(t) /\ (s \o t)[k] = t[k - Len(s)] /\ n \in 1 .. n
        BY <1>1, <1>7, <2>2
      <3> QED
        BY <1>4, <3>1
    <2> QED
      BY <1>7, <2>1, <2>2
  <1> QED
    BY <1>2, <1>6, <1>8 DEF SoundUpTo

\* BootInfoFrameAllocator::usable_frames yields no frame twice and only frames
\* of usable regions, for every memory map whose usable regions share no frame.
THEOREM UsableFramesOnce ==
    ASSUME NEW map, IsMemoryMap(map)
    PROVE  LET frames == usable_frames(map) IN
           /\ frames \in Seq(Nat)
           /\ \A h, j \in 1 .. Len(frames) : frames[h] = frames[j] => h = j
           /\ \A k \in 1 .. Len(frames) : \E h \in 1 .. Len(map) :
                 map[h].usable /\ Touches(map[h], frames[k])
  <1> DEFINE Bad == {n \in Nat : n <= Len(map) /\ ~SoundUpTo(map, n)}
  <1>1. Len(map) \in Nat
    BY DEF IsMemoryMap
  <1>2. Bad = {}
    <2> SUFFICES ASSUME Bad # {} PROVE FALSE
      OBVIOUS
    <2>1. PICK m \in Bad : \A n \in Bad : m <= n
      BY LeastNumber
    <2>2. m # 0
      <3>1. FramesUpTo(map)[0] = <<>>
        BY <1>1, UpToDef DEF UpToIn
      <3>2. <<>> \in Seq(Nat) /\ Len(<<>>) = 0
        OBVIOUS
      <3>3. SoundUpTo(map, 0)
        BY <3>1, <3>2 DEF SoundUpTo, OnceEach
      <3> QED
        BY <3>3
    <2>3. m \in 1 .. Len(map) /\ m - 1 \in Nat /\ m - 1 <= Len(map) /\ m - 1 \notin Bad
      BY <1>1, <2>1, <2>2
    <2>4. SoundUpTo(map, m - 1)
      BY <2>3
    <2>5. SoundUpTo(map, m)
      BY <2>3, <2>4, SoundExtend
    <2> QED
      BY <2>5
  <1>3. SoundUpTo(map, Len(map))
    BY <1>1, <1>2
  <1> QED
    BY <1>3 DEF SoundUpTo, OnceEach, usable_frames

-----------------------------------------------------------------------------
(* Paging.                                                                 *)

\* The areas, in order, and the frames of the memory map, all different.
LEMMA Areas ==
    /\ HeapPage \in Nat /\ HeapPages \in Nat
    /\ RamdiskPage \in Nat /\ RamdiskPages \in Nat
    /\ KernelArea \in Nat /\ UserArea \in Nat /\ AreaPages \in Nat
    /\ HeapPage + HeapPages <= RamdiskPage
    /\ RamdiskPage + RamdiskPages <= KernelArea
    /\ KernelArea + AreaPages <= UserArea
    /\ Bytes \subseteq Nat
  BY PagingAssumption

LEMMA DistinctFrames ==
    /\ Len(Frames) \in Nat
    /\ \A k \in 1 .. Len(Frames) : Frames[k] \in Nat
    /\ \A k, j \in 1 .. Len(Frames) : Frames[k] = Frames[j] => k = j
  <1>1. IsMemoryMap(MemoryMap)
    BY PagingAssumption
  <1>2. /\ Frames \in Seq(Nat)
        /\ \A k, j \in 1 .. Len(Frames) : Frames[k] = Frames[j] => k = j
    BY <1>1, UsableFramesOnce DEF Frames
  <1> QED
    BY <1>2

\* A block has at least the pages that free unmaps, and at least two.
LEMMA PagesForBytes ==
    ASSUME NEW b \in Nat
    PROVE  /\ div_ceil(b, FrameSize) \in Nat
           /\ PagesFor(b) \in Nat
           /\ div_ceil(b, FrameSize) <= PagesFor(b)
           /\ 2 <= PagesFor(b)
  <1>1. div_ceil(b, FrameSize) \in Nat
    BY DEF div_ceil, FrameSize
  <1> QED
    BY <1>1 DEF PagesFor

\* A frame the allocator has not reached yet is not in use.
LEMMA NextFrameUnused ==
    ASSUME IInv, NEW k \in Nat, next < k, k <= Len(Frames)
    PROVE  /\ k \in 1 .. Len(Frames)
           /\ Frames[k] \in Nat
           /\ \A m \in mapping : m.frame # Frames[k]
           /\ \A t \in tables : t.frame # Frames[k]
  <1>1. next \in Nat /\ k \in 1 .. Len(Frames)
    BY DistinctFrames DEF IInv, TypeOK
  <1>2. Frames[k] \in Nat
    BY <1>1, DistinctFrames
  <1>3. \A f : HasBeenHandedOut(f) => f # Frames[k]
    BY <1>1, DistinctFrames DEF HasBeenHandedOut
  <1> QED
    BY <1>1, <1>2, <1>3 DEF IInv, FramesBelowNext

\* Before anything is mapped the invariant holds.
LEMMA InitIInv == Init => IInv
  <1> SUFFICES ASSUME Init PROVE IInv
    OBVIOUS
  <1>1. TypeOK
    <2>1. next_virt \in KernelArea .. (KernelArea + AreaPages)
      BY Areas DEF Init
    <2>2. next_virt_user \in UserArea .. (UserArea + AreaPages)
      BY Areas DEF Init
    <2>3. /\ req \in [base : Nat, n : Nat, i : Nat, bytes : Nat, flags : Flags]
          /\ req.i <= req.n
      BY DEF Init, NoReq, Flags
    <2> QED
      BY <2>1, <2>2, <2>3 DEF Init, TypeOK
  <1>2. FramesHandedOutOnce /\ FramesBelowNext
    BY DEF Init, FramesHandedOutOnce, FramesBelowNext
  <1>3. PagesInAreas /\ RequestProgress
    BY DEF Init, PagesInAreas, RequestProgress, NoReq
  <1>4. LiveBlocksMapped /\ LiveBlocksApart
    BY DEF Init, LiveBlocksMapped, LiveBlocksApart
  <1> QED
    BY <1>1, <1>2, <1>3, <1>4 DEF IInv

\* A step that takes the frames next + 1 .. next' for a page and for `new'
\* tables uses no frame twice.
LEMMA TakeFrames ==
    ASSUME IInv, NEW m0, NEW new,
           next + 1 <= Len(Frames),
           m0.frame = Frames[next + 1],
           mapping' = mapping \cup {m0},
           tables' = tables \cup new,
           next' \in Nat, next < next',
           \A t, u \in new : t = u,
           \A t \in new : next + 2 <= Len(Frames) /\ next + 2 <= next'
                             /\ t.frame = Frames[next + 2]
    PROVE  FramesHandedOutOnce' /\ FramesBelowNext'
  <1>0. next \in Nat /\ Len(Frames) \in Nat
    BY DistinctFrames DEF IInv, TypeOK
  <1>1. /\ next + 1 \in 1 .. Len(Frames)
        /\ \A m \in mapping : m.frame # Frames[next + 1]
        /\ \A t \in tables : t.frame # Frames[next + 1]
    BY <1>0, NextFrameUnused
  <1>2. next + 2 <= Len(Frames) =>
          /\ next + 2 \in 1 .. Len(Frames)
          /\ \A m \in mapping : m.frame # Frames[next + 2]
          /\ \A t \in tables : t.frame # Frames[next + 2]
    BY <1>0, NextFrameUnused
  <1>3. next + 2 <= Len(Frames) => Frames[next + 1] # Frames[next + 2]
    BY <1>0, <1>1, <1>2, DistinctFrames
  <1>4. FramesHandedOutOnce'
    <2>1. \A m, o \in mapping' : m.frame = o.frame => m = o
      BY <1>1 DEF IInv, FramesHandedOutOnce
    <2>2. \A t, u \in tables' : t.frame = u.frame => t = u
      BY <1>2 DEF IInv, FramesHandedOutOnce
    <2>3. \A m \in mapping', t \in tables' : m.frame # t.frame
      BY <1>1, <1>2, <1>3 DEF IInv, FramesHandedOutOnce
    <2> QED
      BY <2>1, <2>2, <2>3 DEF FramesHandedOutOnce
  <1>5. FramesBelowNext'
    <2>1. \A f : HasBeenHandedOut(f) => HasBeenHandedOut(f)'
      BY <1>0 DEF HasBeenHandedOut
    <2>2. \A f : f = Frames[next + 1] => HasBeenHandedOut(f)'
      BY <1>0, <1>1 DEF HasBeenHandedOut
    <2>3. \A f : (\E t \in new : f = t.frame) => HasBeenHandedOut(f)'
      BY <1>0, <1>2 DEF HasBeenHandedOut
    <2>4. \A m \in mapping' : HasBeenHandedOut(m.frame)'
      BY <2>1, <2>2 DEF IInv, FramesBelowNext
    <2>5. \A t \in tables' : HasBeenHandedOut(t.frame)'
      BY <2>1, <2>3 DEF IInv, FramesBelowNext
    <2> QED
      BY <2>4, <2>5 DEF FramesBelowNext
  <1> QED
    BY <1>4, <1>5

\* Mapping the next page of a request keeps the page side of the invariant.
LEMMA MapNextPage ==
    ASSUME IInv, Mapping, NEW m0,
           m0.page = req.base + req.i,
           mapping' = mapping \cup {m0},
           req' = [req EXCEPT !.i = @ + 1],
           UNCHANGED <<next_virt, next_virt_user, live, boot>>
    PROVE  PagesInAreas' /\ RequestProgress' /\ LiveBlocksMapped' /\ LiveBlocksApart'
  <1>0. /\ req.base \in Nat /\ req.i \in Nat /\ req.n \in Nat /\ req.i < req.n
        /\ req \in [base : Nat, n : Nat, i : Nat, bytes : Nat, flags : Flags]
    BY DEF IInv, TypeOK, Mapping
  <1>4. /\ req'.base = req.base /\ req'.n = req.n /\ req'.i = req.i + 1
        /\ req'.bytes = req.bytes
    BY <1>0
  <1>8. \A p : InAreas(p)' <=> InAreas(p)
    BY DEF InAreas
  <1>9. /\ \A p : Mapped(p) => Mapped(p)'
        /\ \A p : Mapped(p)' => Mapped(p) \/ p = req.base + req.i
        /\ \A p : p = req.base + req.i => Mapped(p)'
    BY DEF Mapped
  <1>10. PagesInAreas'
    <2>1. InAreas(req.base + req.i)
      BY <1>0 DEF IInv, RequestProgress
    <2> QED
      BY <1>8, <2>1 DEF IInv, PagesInAreas
  <1>11. RequestProgress'
    <2>1. ASSUME NEW k \in 0 .. (req'.i - 1) PROVE Mapped(req.base + k)'
      <3>1. k = req.i \/ k \in 0 .. (req.i - 1)
        BY <1>0, <1>4
      <3>2. k \in 0 .. (req.i - 1) => Mapped(req.base + k)
        BY DEF IInv, RequestProgress
      <3> QED
        BY <1>4, <1>9, <3>1, <3>2
    <2>2. ASSUME NEW k \in req'.i .. (req'.n - 1) PROVE ~Mapped(req.base + k)'
      <3>1. k \in req.i .. (req.n - 1) /\ req.base + k # req.base + req.i
        BY <1>0, <1>4
      <3>2. ~Mapped(req.base + k)
        BY <3>1 DEF IInv, RequestProgress
      <3> QED
        BY <1>4, <1>9, <3>1, <3>2
    <2>3. ASSUME NEW k \in 0 .. (req'.n - 1) PROVE InAreas(req.base + k)'
      <3>1. InAreas(req.base + k)
        BY <1>4 DEF IInv, RequestProgress
      <3> QED
        BY <1>4, <1>8, <3>1
    <2>4. \A b, n : HandedOut(b, n)' <=> HandedOut(b, n)
      BY DEF HandedOut
    <2>5. ASSUME req'.bytes > 0
          PROVE  /\ req'.n = PagesFor(req'.bytes)
                 /\ HandedOut(req.base, req.n)'
                 /\ \A b \in live' : Apart(b.base, b.pages, req'.base, req'.n)
      BY <1>4, <2>4, <2>5 DEF IInv, RequestProgress
    <2> QED
      BY <2>1, <2>2, <2>3, <2>5 DEF RequestProgress
  <1>12. LiveBlocksMapped' /\ LiveBlocksApart'
    BY <1>9 DEF IInv, LiveBlocksMapped, LiveBlocksApart, HandedOut
  <1> QED
    BY <1>10, <1>11, <1>12

\* Frames do not change hands when nothing is mapped.
LEMMA SameFrames ==
    ASSUME IInv, mapping' \subseteq mapping, UNCHANGED tables,
           next' \in Nat, next <= next'
    PROVE  FramesHandedOutOnce' /\ FramesBelowNext'
  <1>1. FramesHandedOutOnce'
    BY DEF IInv, FramesHandedOutOnce
  <1>2. \A f : HasBeenHandedOut(f) => HasBeenHandedOut(f)'
    BY DEF IInv, TypeOK, HasBeenHandedOut
  <1>3. FramesBelowNext'
    BY <1>2 DEF IInv, FramesBelowNext
  <1> QED
    BY <1>1, <1>3

\* A new request for pages that are not mapped and, when it can be freed,
\* belong to no block.
LEMMA NewRequest ==
    ASSUME IInv, NEW base \in Nat, NEW n \in Nat, NEW bytes \in Nat,
           NEW flags \in Flags,
           req' = Request(base, n, bytes, flags),
           UNCHANGED <<next, mapping, tables, live, panicked>>,
           \A p \in Nat : InAreas(p) => InAreas(p)',
           \A k \in 0 .. (n - 1) : ~InAreas(base + k),
           \A k \in 0 .. (n - 1) : \A p : p = base + k => InAreas(p)',
           \A b, c \in Nat : HandedOut(b, c) => HandedOut(b, c)',
           bytes > 0 => /\ n = PagesFor(bytes)
                        /\ HandedOut(base, n)'
                        /\ \A b \in live : Apart(b.base, b.pages, base, n),
           next_virt' \in KernelArea .. (KernelArea + AreaPages),
           next_virt_user' \in UserArea .. (UserArea + AreaPages),
           boot' \in {"heap", "ramdisk", "run"}
    PROVE  IInv'
  <1>1. /\ req'.base = base /\ req'.n = n /\ req'.i = 0 /\ req'.bytes = bytes
        /\ req' \in [base : Nat, n : Nat, i : Nat, bytes : Nat, flags : Flags]
    BY DEF Request
  <1>2. TypeOK'
    BY <1>1 DEF IInv, TypeOK
  <1>3. FramesHandedOutOnce' /\ FramesBelowNext'
    <2>1. next \in Nat
      BY DEF IInv, TypeOK
    <2> QED
      BY <2>1, SameFrames
  <1>4. PagesInAreas'
    BY DEF IInv, TypeOK, PagesInAreas
  <1>5. \A p : Mapped(p)' <=> Mapped(p)
    BY DEF Mapped
  <1>6. RequestProgress'
    <2>1. ASSUME NEW k \in 0 .. (req'.i - 1) PROVE Mapped(req.base + k)'
      BY <1>1
    <2>2. ASSUME NEW k \in req'.i .. (req'.n - 1) PROVE ~Mapped(req.base + k)'
      <3>1. ~InAreas(base + k)
        BY <1>1
      <3>2. ~Mapped(base + k)
        BY <3>1 DEF IInv, PagesInAreas, Mapped
      <3> QED
        BY <1>1, <1>5, <3>2
    <2>3. ASSUME NEW k \in 0 .. (req'.n - 1) PROVE InAreas(req.base + k)'
      BY <1>1
    <2>4. ASSUME req'.bytes > 0
          PROVE  /\ req'.n = PagesFor(req'.bytes)
                 /\ HandedOut(req.base, req.n)'
                 /\ \A b \in live' : Apart(b.base, b.pages, req'.base, req'.n)
      BY <1>1, <2>4
    <2> QED
      BY <2>1, <2>2, <2>3, <2>4 DEF RequestProgress
  <1>7. LiveBlocksMapped'
    BY <1>5 DEF IInv, LiveBlocksMapped
  <1>8. LiveBlocksApart'
    BY DEF IInv, TypeOK, LiveBlocksApart
  <1> QED
    BY <1>2, <1>3, <1>4, <1>6, <1>7, <1>8 DEF IInv

\* The mapping loop.
LEMMA MapPageStep == IInv /\ MapPage => IInv'
  <1> SUFFICES ASSUME IInv, MapPage PROVE IInv'
    OBVIOUS
  <1> DEFINE m0 == [page |-> req.base + req.i, frame |-> Frames[next + 1],
                    flags |-> req.flags]
  <1>1. next \in Nat /\ req.base + req.i \in Nat /\ req.flags \in Flags
        /\ Frames[next + 1] \in Nat
    <2>1. next \in Nat /\ req.base + req.i \in Nat /\ req.flags \in Flags
      BY DEF IInv, TypeOK
    <2>2. next + 1 \in 1 .. Len(Frames)
      BY <2>1, DistinctFrames DEF MapPage
    <2> QED
      BY <2>1, <2>2, DistinctFrames
  <1>2. FramesHandedOutOnce' /\ FramesBelowNext'
    <2>1. mapping' = mapping \cup {m0} /\ tables' = tables \cup {}
          /\ next' = next + 1 /\ next + 1 <= Len(Frames)
      BY DEF MapPage
    <2>2. m0.frame = Frames[next + 1] /\ next' \in Nat /\ next < next'
      BY <1>1, <2>1
    <2>3. PICK new : new = {}
      OBVIOUS
    <2>4. /\ tables' = tables \cup new
          /\ \A t, u \in new : t = u
          /\ \A t \in new : next + 2 <= Len(Frames) /\ next + 2 <= next'
                                /\ t.frame = Frames[next + 2]
      BY <2>1, <2>3
    <2> HIDE DEF m0
    <2> QED
      BY <2>1, <2>2, <2>4, TakeFrames
  <1>3. PagesInAreas' /\ RequestProgress' /\ LiveBlocksMapped' /\ LiveBlocksApart'
    <2>1. /\ mapping' = mapping \cup {m0} /\ Mapping
          /\ req' = [req EXCEPT !.i = @ + 1]
          /\ UNCHANGED <<next_virt, next_virt_user, live, boot>>
      BY DEF MapPage
    <2>2. m0.page = req.base + req.i
      OBVIOUS
    <2> HIDE DEF m0
    <2> QED
      BY <2>1, <2>2, MapNextPage
  <1>4. TypeOK'
    <2>1. m0 \in [page : Nat, frame : Nat, flags : Flags]
      BY <1>1
    <2>2. mapping' = mapping \cup {m0}
      BY DEF MapPage
    <2>3. /\ req' \in [base : Nat, n : Nat, i : Nat, bytes : Nat, flags : Flags]
          /\ req'.i <= req'.n
      <3>1. req' = [req EXCEPT !.i = @ + 1] /\ req.i < req.n
        BY DEF MapPage, Mapping
      <3> QED
        BY <3>1 DEF IInv, TypeOK
    <2> HIDE DEF m0
    <2>4. mapping' \subseteq [page : Nat, frame : Nat, flags : Flags]
      BY <2>1, <2>2 DEF IInv, TypeOK
    <2>5. next' \in Nat
      BY <1>1 DEF MapPage
    <2>6. UNCHANGED <<tables, next_virt, next_virt_user, live, boot, panicked>>
      BY DEF MapPage
    <2> QED
      BY <2>3, <2>4, <2>5, <2>6 DEF IInv, TypeOK
  <1> QED
    BY <1>2, <1>3, <1>4 DEF IInv

LEMMA MapPageAndTableStep == IInv /\ MapPageAndTable => IInv'
  <1> SUFFICES ASSUME IInv, MapPageAndTable PROVE IInv'
    OBVIOUS
  <1> DEFINE m0 == [page |-> req.base + req.i, frame |-> Frames[next + 1],
                    flags |-> req.flags]
             t0 == [group |-> group(req.base + req.i), frame |-> Frames[next + 2]]
  <1>1. next \in Nat /\ req.base + req.i \in Nat /\ req.flags \in Flags
        /\ Frames[next + 1] \in Nat /\ Frames[next + 2] \in Nat
        /\ group(req.base + req.i) \in Nat
    <2>1. next \in Nat /\ req.base + req.i \in Nat /\ req.flags \in Flags
      BY DEF IInv, TypeOK
    <2>2. next + 1 \in 1 .. Len(Frames) /\ next + 2 \in 1 .. Len(Frames)
      BY <2>1, DistinctFrames DEF MapPageAndTable
    <2>3. group(req.base + req.i) \in Nat
      <3>1. \A p \in Nat, d \in Nat \ {0} : p \div d \in Nat
        OBVIOUS
      <3>2. TableSpan \in Nat \ {0}
        BY PagingAssumption
      <3> QED
        BY <2>1, <3>1, <3>2 DEF group
    <2> QED
      BY <2>1, <2>2, <2>3, DistinctFrames
  <1>2. FramesHandedOutOnce' /\ FramesBelowNext'
    <2>1. mapping' = mapping \cup {m0} /\ tables' = tables \cup {t0}
          /\ next' = next + 2 /\ next + 2 <= Len(Frames)
      BY DEF MapPageAndTable
    <2>2. /\ m0.frame = Frames[next + 1] /\ next' \in Nat /\ next < next'
          /\ next + 1 <= Len(Frames) /\ next + 2 <= next'
          /\ t0.frame = Frames[next + 2]
      BY <1>1, <2>1, DistinctFrames
    <2> HIDE DEF m0, t0
    <2>3. PICK new : new = {t0}
      OBVIOUS
    <2>4. /\ tables' = tables \cup new
          /\ \A t, u \in new : t = u
          /\ \A t \in new : next + 2 <= Len(Frames) /\ next + 2 <= next'
                                /\ t.frame = Frames[next + 2]
      BY <2>1, <2>2, <2>3
    <2> QED
      BY <2>1, <2>2, <2>4, TakeFrames
  <1>3. PagesInAreas' /\ RequestProgress' /\ LiveBlocksMapped' /\ LiveBlocksApart'
    <2>1. /\ mapping' = mapping \cup {m0} /\ Mapping
          /\ req' = [req EXCEPT !.i = @ + 1]
          /\ UNCHANGED <<next_virt, next_virt_user, live, boot>>
      BY DEF MapPageAndTable
    <2>2. m0.page = req.base + req.i
      OBVIOUS
    <2> HIDE DEF m0
    <2> QED
      BY <2>1, <2>2, MapNextPage
  <1>4. TypeOK'
    <2>1. /\ m0 \in [page : Nat, frame : Nat, flags : Flags]
          /\ t0 \in [group : Nat, frame : Nat]
      BY <1>1
    <2>2. mapping' = mapping \cup {m0} /\ tables' = tables \cup {t0}
      BY DEF MapPageAndTable
    <2>3. /\ req' \in [base : Nat, n : Nat, i : Nat, bytes : Nat, flags : Flags]
          /\ req'.i <= req'.n
      <3>1. req' = [req EXCEPT !.i = @ + 1] /\ req.i < req.n
        BY DEF MapPageAndTable, Mapping
      <3> QED
        BY <3>1 DEF IInv, TypeOK
    <2> HIDE DEF m0, t0
    <2>4. /\ mapping' \subseteq [page : Nat, frame : Nat, flags : Flags]
          /\ tables' \subseteq [group : Nat, frame : Nat]
      BY <2>1, <2>2 DEF IInv, TypeOK
    <2>5. next' \in Nat
      BY <1>1 DEF MapPageAndTable
    <2>6. UNCHANGED <<next_virt, next_virt_user, live, boot, panicked>>
      BY DEF MapPageAndTable
    <2> QED
      BY <2>3, <2>4, <2>5, <2>6 DEF IInv, TypeOK
  <1> QED
    BY <1>2, <1>3, <1>4 DEF IInv

LEMMA MapFailsStep == IInv /\ MapFails => IInv'
  <1> SUFFICES ASSUME IInv, MapFails PROVE IInv'
    OBVIOUS
  <1>1. next' \in Nat /\ next <= next'
    BY DEF MapFails, IInv, TypeOK
  <1>2. UNCHANGED <<mapping, tables, next_virt, next_virt_user, req, live, boot>>
    BY DEF MapFails
  <1>3. FramesHandedOutOnce' /\ FramesBelowNext'
    BY <1>1, <1>2, SameFrames
  <1>4. TypeOK'
    BY <1>1, <1>2 DEF MapFails, IInv, TypeOK
  <1>5. PagesInAreas' /\ LiveBlocksMapped' /\ LiveBlocksApart'
    BY <1>2 DEF IInv, PagesInAreas, InAreas, LiveBlocksMapped, Mapped,
                LiveBlocksApart, HandedOut
  <1>6. RequestProgress'
    BY <1>2 DEF IInv, RequestProgress, InAreas, Mapped, HandedOut
  <1> QED
    BY <1>3, <1>4, <1>5, <1>6 DEF IInv

\* A finished request becomes a block: it overlaps no other.
LEMMA ReturnStep == IInv /\ Return => IInv'
  <1> SUFFICES ASSUME IInv, Return PROVE IInv'
    OBVIOUS
  <1> DEFINE b0 == [base |-> req.base, pages |-> req.n, bytes |-> req.bytes]
  <1>1. /\ UNCHANGED <<next, mapping, tables, next_virt, next_virt_user, boot, panicked>>
        /\ req' = NoReq /\ req.i = req.n
        /\ live' = live \/ (live' = live \cup {b0} /\ req.bytes # 0)
    BY DEF Return
  <1>2. /\ req.base \in Nat /\ req.n \in Nat /\ req.bytes \in Nat /\ req.i \in Nat
        /\ next \in Nat
    BY DEF IInv, TypeOK
  <1>3. b0 \in [base : Nat, pages : Nat, bytes : Nat]
    BY <1>2
  <1>4. TypeOK'
    <2>1. /\ req' \in [base : Nat, n : Nat, i : Nat, bytes : Nat, flags : Flags]
          /\ req'.i <= req'.n
      BY <1>1 DEF NoReq, Flags
    <2>2. live' \subseteq [base : Nat, pages : Nat, bytes : Nat]
      BY <1>1, <1>3 DEF IInv, TypeOK
    <2> QED
      BY <1>1, <2>1, <2>2 DEF IInv, TypeOK
  <1>5. FramesHandedOutOnce' /\ FramesBelowNext'
    BY <1>1, <1>2, SameFrames
  <1>6. PagesInAreas'
    BY <1>1 DEF IInv, PagesInAreas, InAreas
  <1>7. RequestProgress'
    BY <1>1 DEF RequestProgress, NoReq
  <1>8. \A p : Mapped(p)' <=> Mapped(p)
    BY <1>1 DEF Mapped
  <1>9. LiveBlocksMapped'
    <2> SUFFICES ASSUME NEW b \in live', NEW k \in 0 .. (b.pages - 1)
                 PROVE  Mapped(b.base + k)
      BY <1>8 DEF LiveBlocksMapped
    <2>1. CASE b \in live
      BY <2>1 DEF IInv, LiveBlocksMapped
    <2>2. CASE b = b0
      BY <1>1, <2>2 DEF IInv, RequestProgress
    <2> QED
      BY <1>1, <2>1, <2>2
  <1>10. LiveBlocksApart'
    <2>1. \A b, n : HandedOut(b, n)' <=> HandedOut(b, n)
      BY <1>1 DEF HandedOut
    <2>2. CASE live' = live
      BY <2>1, <2>2 DEF IInv, LiveBlocksApart
    <2>3. CASE live' = live \cup {b0} /\ req.bytes # 0
      <3>1. req.bytes > 0
        BY <1>2, <2>3
      <3>2. /\ b0.pages = PagesFor(b0.bytes)
            /\ HandedOut(b0.base, b0.pages)
            /\ \A b \in live : Apart(b.base, b.pages, b0.base, b0.pages)
        BY <3>1 DEF IInv, RequestProgress
      <3>3. \A b \in live : Apart(b0.base, b0.pages, b.base, b.pages)
        BY <3>2 DEF Apart
      <3> HIDE DEF b0
      <3>4. \A b \in live' : b.pages = PagesFor(b.bytes) /\ HandedOut(b.base, b.pages)
        BY <2>3, <3>2 DEF IInv, LiveBlocksApart
      <3>5. \A b, c \in live' : b # c => Apart(b.base, b.pages, c.base, c.pages)
        BY <2>3, <3>2, <3>3 DEF IInv, LiveBlocksApart
      <3> QED
        BY <2>1, <3>4, <3>5 DEF LiveBlocksApart
    <2> QED
      BY <1>1, <2>2, <2>3
  <1> QED
    BY <1>4, <1>5, <1>6, <1>7, <1>9, <1>10 DEF IInv

\* free: the pages it unmaps lie in its own block.
LEMMA FreeStep == IInv /\ Free => IInv'
  <1> SUFFICES ASSUME IInv, Free PROVE IInv'
    OBVIOUS
  <1>1. PICK b0 \in live :
          /\ Idle
          /\ mapping' = {m \in mapping : m.page < b0.base
                            \/ m.page >= b0.base + div_ceil(b0.bytes, FrameSize)}
          /\ live' = live \ {b0}
          /\ UNCHANGED <<next, tables, next_virt, next_virt_user, req, boot, panicked>>
    BY DEF Free
  <1>2. /\ b0.base \in Nat /\ b0.pages \in Nat /\ b0.bytes \in Nat /\ next \in Nat
        /\ b0.pages = PagesFor(b0.bytes)
    BY DEF IInv, TypeOK, LiveBlocksApart
  <1>3. /\ div_ceil(b0.bytes, FrameSize) \in Nat
        /\ div_ceil(b0.bytes, FrameSize) <= b0.pages
    BY <1>2, PagesForBytes
  <1>4. mapping' \subseteq mapping
    BY <1>1
  <1>5. TypeOK'
    BY <1>1 DEF IInv, TypeOK
  <1>6. FramesHandedOutOnce' /\ FramesBelowNext'
    BY <1>1, <1>2, <1>4, SameFrames
  <1>7. PagesInAreas'
    BY <1>1 DEF IInv, PagesInAreas, InAreas
  <1>8. RequestProgress'
    BY <1>1 DEF Idle, RequestProgress, NoReq
  <1>9. LiveBlocksMapped'
    <2> SUFFICES ASSUME NEW b \in live', NEW k \in 0 .. (b.pages - 1)
                 PROVE  \E m \in mapping' : m.page = b.base + k
      BY DEF LiveBlocksMapped, Mapped
    <2>1. b \in live /\ b # b0 /\ b.base \in Nat /\ b.pages \in Nat
      BY <1>1 DEF IInv, TypeOK
    <2>2. Apart(b.base, b.pages, b0.base, b0.pages)
      BY <2>1 DEF IInv, LiveBlocksApart
    <2>3. PICK m \in mapping : m.page = b.base + k
      BY <2>1 DEF IInv, LiveBlocksMapped, Mapped
    <2>4. m.page < b0.base \/ m.page >= b0.base + div_ceil(b0.bytes, FrameSize)
      BY <1>2, <1>3, <2>1, <2>2, <2>3 DEF Apart
    <2> QED
      BY <1>1, <2>3, <2>4
  <1>10. LiveBlocksApart'
    <2>1. \A b, n : HandedOut(b, n)' <=> HandedOut(b, n)
      BY <1>1 DEF HandedOut
    <2> QED
      BY <1>1, <2>1 DEF IInv, LiveBlocksApart
  <1> QED
    BY <1>5, <1>6, <1>7, <1>8, <1>9, <1>10 DEF IInv

\* kernel_main maps the heap and the ramdisk, whose areas are empty.
LEMMA MapHeapStep == IInv /\ MapHeap => IInv'
  <1> SUFFICES ASSUME IInv, MapHeap PROVE IInv'
    OBVIOUS
  <1>1. /\ req' = Request(HeapPage, HeapPages, 0, "kernel")
        /\ boot = "heap" /\ boot' = "ramdisk"
        /\ UNCHANGED <<next, mapping, tables, next_virt, next_virt_user, live, panicked>>
    BY DEF MapHeap
  <1>2. HeapPage \in Nat /\ HeapPages \in Nat /\ 0 \in Nat /\ ~(0 > 0) /\ "kernel" \in Flags
    BY Areas DEF Flags
  <1>3. /\ next_virt' \in KernelArea .. (KernelArea + AreaPages)
        /\ next_virt_user' \in UserArea .. (UserArea + AreaPages)
        /\ boot' \in {"heap", "ramdisk", "run"}
    BY <1>1 DEF IInv, TypeOK
  <1>4. \A p : InAreas(p) => InAreas(p)'
    BY <1>1 DEF InAreas
  <1>5. ASSUME NEW k \in 0 .. (HeapPages - 1)
        PROVE  ~InAreas(HeapPage + k) /\ \A p : p = HeapPage + k => InAreas(p)'
    <2>1. /\ k \in Nat /\ k < HeapPages /\ HeapPage + k \in Nat
          /\ HeapPage + k < KernelArea /\ HeapPage + k < UserArea
          /\ HeapPage <= HeapPage + k /\ HeapPage + k < HeapPage + HeapPages
      BY Areas
    <2> QED
      BY <1>1, <2>1, Areas DEF InAreas
  <1>6. \A b, c : HandedOut(b, c) => HandedOut(b, c)'
    BY <1>1 DEF HandedOut
  <1> QED
    BY <1>1, <1>2, <1>3, <1>4, <1>5, <1>6, NewRequest

LEMMA MapRamdiskStep == IInv /\ MapRamdisk => IInv'
  <1> SUFFICES ASSUME IInv, MapRamdisk PROVE IInv'
    OBVIOUS
  <1>1. /\ req' = Request(RamdiskPage, RamdiskPages, 0, "kernel")
        /\ boot = "ramdisk" /\ boot' = "run"
        /\ UNCHANGED <<next, mapping, tables, next_virt, next_virt_user, live, panicked>>
    BY DEF MapRamdisk
  <1>2. RamdiskPage \in Nat /\ RamdiskPages \in Nat /\ 0 \in Nat /\ ~(0 > 0) /\ "kernel" \in Flags
    BY Areas DEF Flags
  <1>3. /\ next_virt' \in KernelArea .. (KernelArea + AreaPages)
        /\ next_virt_user' \in UserArea .. (UserArea + AreaPages)
        /\ boot' \in {"heap", "ramdisk", "run"}
    BY <1>1 DEF IInv, TypeOK
  <1>4. \A p : InAreas(p) => InAreas(p)'
    BY <1>1 DEF InAreas
  <1>5. ASSUME NEW k \in 0 .. (RamdiskPages - 1)
        PROVE  ~InAreas(RamdiskPage + k) /\ \A p : p = RamdiskPage + k => InAreas(p)'
    <2>1. /\ k \in Nat /\ k < RamdiskPages /\ RamdiskPage + k \in Nat
          /\ RamdiskPage + k < KernelArea /\ RamdiskPage + k < UserArea
          /\ RamdiskPage <= RamdiskPage + k /\ RamdiskPage + k < RamdiskPage + RamdiskPages
      BY Areas
    <2> QED
      BY <1>1, <2>1, Areas DEF InAreas
  <1>6. \A b, c : HandedOut(b, c) => HandedOut(b, c)'
    BY <1>1 DEF HandedOut
  <1> QED
    BY <1>1, <1>2, <1>3, <1>4, <1>5, <1>6, NewRequest

\* NEXT_VIRT only grows: a request gets pages nobody had before.
LEMMA AllocPagesStep ==
    ASSUME IInv, NEW n \in Nat, NEW b \in Nat, b > 0 => n = PagesFor(b), AllocPages(n, b)
    PROVE  IInv'
  <1>1. /\ req' = Request(next_virt, n, b, "kernel")
        /\ boot = "run" /\ next_virt' = next_virt + n
        /\ next_virt + n <= KernelArea + AreaPages
        /\ UNCHANGED <<next, mapping, tables, next_virt_user, live, boot, panicked>>
    BY DEF AllocPages
  <1>2. "kernel" \in Flags
    BY DEF Flags
  <1>3. /\ next_virt \in Nat /\ KernelArea <= next_virt /\ next_virt <= KernelArea + AreaPages
        /\ next_virt_user \in Nat /\ UserArea <= next_virt_user
        /\ next_virt_user <= UserArea + AreaPages
    BY Areas DEF IInv, TypeOK
  <1>4. /\ next_virt' \in KernelArea .. (KernelArea + AreaPages)
        /\ next_virt_user' \in UserArea .. (UserArea + AreaPages)
        /\ boot' \in {"heap", "ramdisk", "run"}
    BY <1>1, <1>2, <1>3, Areas
  <1>5. \A p \in Nat : InAreas(p) => InAreas(p)'
    <2> SUFFICES ASSUME NEW p \in Nat, InAreas(p) PROVE InAreas(p)'
      OBVIOUS
    <2>1. \/ HeapPage <= p /\ p < HeapPage + HeapPages
          \/ RamdiskPage <= p /\ p < RamdiskPage + RamdiskPages
          \/ KernelArea <= p /\ p < next_virt
          \/ UserArea <= p /\ p < next_virt_user
      BY DEF InAreas
    <2>2. p < next_virt => p < next_virt + n
      BY <1>2, <1>3
    <2> QED
      BY <1>1, <2>1, <2>2 DEF InAreas
  <1>6. ASSUME NEW k \in 0 .. (n - 1)
        PROVE  ~InAreas(next_virt + k) /\ \A p : p = next_virt + k => InAreas(p)'
    <2>1. /\ next_virt + k \in Nat /\ KernelArea <= next_virt + k /\ next_virt <= next_virt + k
          /\ next_virt + k < next_virt + n /\ next_virt + k < KernelArea + AreaPages
      BY <1>1, <1>2, <1>3, Areas
    <2>2. \A p : p = next_virt + k => InAreas(p)'
      BY <1>1, <2>1 DEF InAreas
    <2>3. ~InAreas(next_virt + k)
      BY <1>3, <2>1, Areas DEF InAreas
    <2> QED
      BY <2>2, <2>3
  <1>7. \A c, d \in Nat : HandedOut(c, d) => HandedOut(c, d)'
    <2> SUFFICES ASSUME NEW c \in Nat, NEW d \in Nat, HandedOut(c, d) PROVE HandedOut(c, d)'
      OBVIOUS
    <2>1. c + d <= next_virt => c + d <= next_virt + n
      BY <1>2, <1>3
    <2> QED
      BY <1>1, <2>1 DEF HandedOut
  <1>8. \A c : c = next_virt => HandedOut(c, n)'
    BY <1>1, <1>3 DEF HandedOut
  <1>9. \A c \in live : Apart(c.base, c.pages, next_virt, n)
    <2> SUFFICES ASSUME NEW c \in live PROVE Apart(c.base, c.pages, next_virt, n)
      OBVIOUS
    <2>1. HandedOut(c.base, c.pages) /\ c.base \in Nat /\ c.pages \in Nat
      BY DEF IInv, TypeOK, LiveBlocksApart
    <2> QED
      BY <1>1, <1>2, <1>3, <2>1, Areas DEF HandedOut, Apart
  <1>10. PICK base : base = next_virt
    OBVIOUS
  <1> QED
    BY <1>1, <1>2, <1>3, <1>4, <1>5, <1>6, <1>7, <1>8, <1>9, <1>10, NewRequest

LEMMA AllocPagesUserStep ==
    ASSUME IInv, NEW n \in Nat, NEW b \in Nat, b > 0 => n = PagesFor(b), AllocPagesUser(n, b)
    PROVE  IInv'
  <1>1. /\ req' = Request(next_virt_user, n, b, "user")
        /\ boot = "run" /\ next_virt_user' = next_virt_user + n
        /\ next_virt_user + n <= UserArea + AreaPages
        /\ UNCHANGED <<next, mapping, tables, next_virt, live, boot, panicked>>
    BY DEF AllocPagesUser
  <1>2. "user" \in Flags
    BY DEF Flags
  <1>3. /\ next_virt \in Nat /\ KernelArea <= next_virt /\ next_virt <= KernelArea + AreaPages
        /\ next_virt_user \in Nat /\ UserArea <= next_virt_user
        /\ next_virt_user <= UserArea + AreaPages
    BY Areas DEF IInv, TypeOK
  <1>4. /\ next_virt' \in KernelArea .. (KernelArea + AreaPages)
        /\ next_virt_user' \in UserArea .. (UserArea + AreaPages)
        /\ boot' \in {"heap", "ramdisk", "run"}
    BY <1>1, <1>2, <1>3, Areas
  <1>5. \A p \in Nat : InAreas(p) => InAreas(p)'
    <2> SUFFICES ASSUME NEW p \in Nat, InAreas(p) PROVE InAreas(p)'
      OBVIOUS
    <2>1. \/ HeapPage <= p /\ p < HeapPage + HeapPages
          \/ RamdiskPage <= p /\ p < RamdiskPage + RamdiskPages
          \/ KernelArea <= p /\ p < next_virt
          \/ UserArea <= p /\ p < next_virt_user
      BY DEF InAreas
    <2>2. p < next_virt_user => p < next_virt_user + n
      BY <1>2, <1>3
    <2> QED
      BY <1>1, <2>1, <2>2 DEF InAreas
  <1>6. ASSUME NEW k \in 0 .. (n - 1)
        PROVE  ~InAreas(next_virt_user + k) /\ \A p : p = next_virt_user + k => InAreas(p)'
    <2>1. /\ next_virt_user + k \in Nat /\ UserArea <= next_virt_user + k /\ next_virt_user <= next_virt_user + k
          /\ next_virt_user + k < next_virt_user + n /\ next_virt_user + k < UserArea + AreaPages
      BY <1>1, <1>2, <1>3, Areas
    <2>2. \A p : p = next_virt_user + k => InAreas(p)'
      BY <1>1, <2>1 DEF InAreas
    <2>3. ~InAreas(next_virt_user + k)
      BY <1>3, <2>1, Areas DEF InAreas
    <2> QED
      BY <2>2, <2>3
  <1>7. \A c, d \in Nat : HandedOut(c, d) => HandedOut(c, d)'
    <2> SUFFICES ASSUME NEW c \in Nat, NEW d \in Nat, HandedOut(c, d) PROVE HandedOut(c, d)'
      OBVIOUS
    <2>1. c + d <= next_virt_user => c + d <= next_virt_user + n
      BY <1>2, <1>3
    <2> QED
      BY <1>1, <2>1 DEF HandedOut
  <1>8. \A c : c = next_virt_user => HandedOut(c, n)'
    BY <1>1, <1>3 DEF HandedOut
  <1>9. \A c \in live : Apart(c.base, c.pages, next_virt_user, n)
    <2> SUFFICES ASSUME NEW c \in live PROVE Apart(c.base, c.pages, next_virt_user, n)
      OBVIOUS
    <2>1. HandedOut(c.base, c.pages) /\ c.base \in Nat /\ c.pages \in Nat
      BY DEF IInv, TypeOK, LiveBlocksApart
    <2> QED
      BY <1>1, <1>2, <1>3, <2>1, Areas DEF HandedOut, Apart
  <1>10. PICK base : base = next_virt_user
    OBVIOUS
  <1> QED
    BY <1>1, <1>2, <1>3, <1>4, <1>5, <1>6, <1>7, <1>8, <1>9, <1>10, NewRequest

\* A step that maps and unmaps nothing keeps the invariant.
LEMMA SameMemory ==
    ASSUME IInv, panicked' \in BOOLEAN,
           UNCHANGED <<next, mapping, tables, next_virt, next_virt_user, req, live, boot>>
    PROVE  IInv'
  <1>1. \A p : InAreas(p)' <=> InAreas(p)
    BY DEF InAreas
  <1>2. \A f : HasBeenHandedOut(f)' <=> HasBeenHandedOut(f)
    BY DEF HasBeenHandedOut
  <1>3. \A p : Mapped(p)' <=> Mapped(p)
    BY DEF Mapped
  <1>4. \A b, n : HandedOut(b, n)' <=> HandedOut(b, n)
    BY DEF HandedOut
  <1>5. TypeOK'
    BY DEF IInv, TypeOK
  <1>6. FramesHandedOutOnce' /\ FramesBelowNext' /\ PagesInAreas'
    BY <1>1, <1>2 DEF IInv, FramesHandedOutOnce, FramesBelowNext, PagesInAreas
  <1>7. LiveBlocksMapped' /\ LiveBlocksApart'
    BY <1>3, <1>4 DEF IInv, LiveBlocksMapped, LiveBlocksApart
  <1>8. RequestProgress'
    BY DEF IInv, RequestProgress, Mapped, InAreas, HandedOut
  <1> QED
    BY <1>5, <1>6, <1>7, <1>8 DEF IInv

\* Every step keeps the invariant.
LEMMA NextIInv == IInv /\ [Next]_vars => IInv'
  <1> SUFFICES ASSUME IInv, [Next]_vars PROVE IInv'
    OBVIOUS
  <1>1. CASE Alloc
    <2>1. PICK b \in Bytes \ {0} : AllocPages(PagesFor(b), b)
      BY <1>1 DEF Alloc
    <2> QED
      BY <2>1, Areas, PagesForBytes, AllocPagesStep
  <1>2. CASE AllocUser
    <2>1. PICK b \in Bytes \ {0} : AllocPagesUser(PagesFor(b), b)
      BY <1>2 DEF AllocUser
    <2> QED
      BY <2>1, Areas, PagesForBytes, AllocPagesUserStep
  <1>3. CASE UNCHANGED vars
    BY <1>3, SameMemory DEF vars, IInv, TypeOK
  <1> QED
    BY <1>1, <1>2, <1>3, MapHeapStep, MapRamdiskStep, FreeStep, MapPageStep,
       MapPageAndTableStep, MapFailsStep, ReturnStep DEF Next, Stop

\* The frame allocator's counter, the two NEXT_VIRT counters and the request
\* in progress are well typed, within the areas.
THEOREM PagingTypeCorrect == Spec => []TypeOK
  <1>1. IInv => TypeOK
    BY DEF IInv
  <1> QED
    BY InitIInv, NextIInv, <1>1, PTL DEF Spec

\* No frame of the memory map backs two pages, two tables, or a page and a
\* table.
THEOREM PagingFramesHandedOutOnce == Spec => []FramesHandedOutOnce
  <1>1. IInv => FramesHandedOutOnce
    BY DEF IInv
  <1> QED
    BY InitIInv, NextIInv, <1>1, PTL DEF Spec

\* map_to never meets a page that is mapped already.
THEOREM PagingNeverRemaps == Spec => []NeverRemaps
  <1>1. IInv => NeverRemaps
    <2> SUFFICES ASSUME IInv, Mapping PROVE ~Mapped(req.base + req.i)
      BY DEF NeverRemaps
    <2>1. req.i \in req.i .. (req.n - 1)
      BY DEF IInv, TypeOK, Mapping
    <2> QED
      BY <2>1 DEF IInv, RequestProgress
  <1> QED
    BY InitIInv, NextIInv, <1>1, PTL DEF Spec

\* The pages of a block stay mapped until the block is freed.
THEOREM PagingLiveBlocksMapped == Spec => []LiveBlocksMapped
  <1>1. IInv => LiveBlocksMapped
    BY DEF IInv
  <1> QED
    BY InitIInv, NextIInv, <1>1, PTL DEF Spec

-----------------------------------------------------------------------------
(* The loader.                                                             *)

\* The end of a segment that is loaded lies below req_sz.
Covered(n) == phdrs[n].load => phdrs[n].p_vaddr + phdrs[n].p_memsz <= req_sz

ImageMappedOrUnderWay ==
    /\ lpc = "map_image" => /\ req_sz > 0
                            /\ req.base = user_base
                            /\ req.bytes = req_sz
                            /\ req.n = PagesFor(req_sz)
    /\ lpc = "copy" =>
          \A k \in 0 .. (PagesFor(req_sz) - 1) : Mapped(user_base + k)

SegmentsCovered ==
    /\ lpc = "size" => \A n \in 1 .. (i - 1) : Covered(n)
    /\ lpc \in {"map_image", "copy"} => \A n \in 1 .. Len(phdrs) : Covered(n)

StartsAtOne == lpc = "boot" => i = 1

LInv == IInv /\ LTypeOK /\ StartsAtOne /\ SegmentsCovered /\ ImageMappedOrUnderWay

lallvars == <<vars, lvars>>

PhdrSet == [load : BOOLEAN, p_vaddr : Nat, p_memsz : Nat,
            p_offset : Nat, p_filesz : Nat]

\* The fields of a program header.
LEMMA PhdrType ==
    ASSUME file \in Programs
    PROVE  /\ Len(phdrs) \in Nat
           /\ \A n \in 1 .. Len(phdrs) :
                 /\ phdrs[n].p_vaddr \in Nat /\ phdrs[n].p_memsz \in Nat
                 /\ phdrs[n].load \in BOOLEAN
  <1>1. phdrs \in Seq(PhdrSet)
    BY LoaderAssumption DEF phdrs, PhdrSet
  <1>2. Len(phdrs) \in Nat /\ \A n \in 1 .. Len(phdrs) : phdrs[n] \in PhdrSet
    BY <1>1
  <1>3. \A p \in PhdrSet : p.p_vaddr \in Nat /\ p.p_memsz \in Nat /\ p.load \in BOOLEAN
    BY DEF PhdrSet
  <1> QED
    BY <1>2, <1>3

LEMMA LInitLInv == LInit => LInv
  <1> SUFFICES ASSUME LInit PROVE LInv
    OBVIOUS
  <1>1. IInv
    BY InitIInv DEF LInit
  <1>2. Len(phdrs) \in Nat
    BY LoaderAssumption DEF LInit, phdrs
  <1>3. LTypeOK
    BY <1>1, <1>2 DEF LInit, LTypeOK, IInv
  <1> QED
    BY <1>1, <1>3 DEF LInit, LInv, StartsAtOne, SegmentsCovered, ImageMappedOrUnderWay

\* Every step of the loader is a step of the mapping functions or leaves
\* memory alone.
LEMMA MemoryStep == LInv /\ [LNext]_lallvars => IInv'
  <1> SUFFICES ASSUME LInv, [LNext]_lallvars PROVE IInv'
    OBVIOUS
  <1>0. IInv /\ panicked \in BOOLEAN /\ file \in Programs
    BY DEF LInv, IInv, TypeOK, LTypeOK
  <1>1. CASE Boot
    BY <1>0, <1>1, NextIInv DEF Boot
  <1>2. CASE Parse
    <2>1. panicked' \in BOOLEAN
      BY <1>2 DEF Parse
    <2> QED
      BY <1>0, <1>2, <2>1, SameMemory DEF Parse
  <1>3. CASE SizeStep \/ CopyStep \/ Stopped \/ UNCHANGED lallvars
    BY <1>0, <1>3, SameMemory DEF SizeStep, CopyStep, Stopped, lallvars, vars
  <1>4. CASE AllocImage
    <2>1. req_sz \in Nat /\ PagesFor(req_sz) \in Nat
      BY PagesForBytes DEF LInv, LTypeOK
    <2> QED
      BY <1>0, <1>4, <2>1, AllocPagesUserStep DEF AllocImage
  <1>5. CASE NothingToLoad \/ CopyPanics
    BY <1>0, <1>5, SameMemory DEF NothingToLoad, CopyPanics
  <1>6. CASE MapMore
    BY <1>0, <1>6, MapPageStep, MapPageAndTableStep, MapFailsStep DEF MapMore
  <1>7. CASE ImageMapped \/ JumpToUsermode
    BY <1>0, <1>7, ReturnStep DEF ImageMapped, JumpToUsermode
  <1>8. CASE AllocStack
    <2>1. StackPages \in Nat /\ 0 \in Nat /\ ~(0 > 0)
      BY LoaderAssumption
    <2> QED
      BY <1>0, <1>8, <2>1, AllocPagesUserStep DEF AllocStack
  <1> QED
    BY <1>1, <1>2, <1>3, <1>4, <1>5, <1>6, <1>7, <1>8 DEF LNext


\* What every step leaves of the file.
LEMMA FileKept == [LNext]_lallvars => file' = file /\ phdrs' = phdrs
  BY DEF LNext, Boot, Parse, SizeStep, AllocImage, NothingToLoad, MapMore, ImageMapped,
         CopyStep, CopyPanics, AllocStack, JumpToUsermode, Stopped, lvars, lallvars, phdrs

LEMMA LTypeStep == LInv /\ [LNext]_lallvars => LTypeOK'
  <1> SUFFICES ASSUME LInv, [LNext]_lallvars PROVE LTypeOK'
    OBVIOUS
  <1>1. TypeOK'
    BY MemoryStep DEF IInv
  <1>2. file' = file /\ phdrs' = phdrs /\ file \in Programs
    BY FileKept DEF LInv, LTypeOK
  <1>3. /\ Len(phdrs) \in Nat
        /\ \A n \in 1 .. Len(phdrs) :
              phdrs[n].p_vaddr \in Nat /\ phdrs[n].p_memsz \in Nat /\ phdrs[n].load \in BOOLEAN
    BY <1>2, PhdrType
  <1>4. /\ i \in 1 .. (Len(phdrs) + 1) /\ req_sz \in Nat /\ user_base \in Nat
        /\ stack_addr \in Nat /\ next_virt_user \in Nat
        /\ lpc \in {"boot", "size", "map_image", "copy", "map_stack", "user", "error"}
    <2>1. next_virt_user \in Nat
      BY Areas DEF LInv, LTypeOK, TypeOK
    <2> QED
      BY <2>1 DEF LInv, LTypeOK
  <1> DEFINE T == /\ lpc' \in {"boot", "size", "map_image", "copy", "map_stack", "user", "error"}
                  /\ i' \in 1 .. (Len(phdrs) + 1)
                  /\ req_sz' \in Nat
                  /\ user_base' \in Nat
                  /\ stack_addr' \in Nat
  <1>5. CASE Boot \/ MapMore \/ Stopped \/ UNCHANGED lallvars
    <2>1. UNCHANGED lvars
      BY <1>5 DEF Boot, MapMore, Stopped, lallvars
    <2>2. T
      BY <2>1, <1>4 DEF lvars
    <2> QED
      BY <2>2, <1>1, <1>2 DEF LTypeOK
  <1>6. CASE Parse \/ NothingToLoad \/ CopyPanics \/ JumpToUsermode
    <2>1. T
      BY <1>6, <1>4 DEF Parse, NothingToLoad, CopyPanics, JumpToUsermode
    <2> QED
      BY <2>1, <1>1, <1>2 DEF LTypeOK
  <1>7. CASE SizeStep
    <2>1. i <= Len(phdrs) /\ i \in 1 .. Len(phdrs)
      BY <1>7, <1>3, <1>4 DEF SizeStep
    <2>2. phdrs[i].p_vaddr \in Nat /\ phdrs[i].p_memsz \in Nat
      BY <2>1, <1>3
    <2>3. req_sz' \in Nat
      BY <1>7, <2>2, <1>4 DEF SizeStep
    <2>4. T
      BY <1>7, <2>1, <2>3, <1>3, <1>4 DEF SizeStep
    <2> QED
      BY <2>4, <1>1, <1>2 DEF LTypeOK
  <1>8. CASE AllocImage \/ AllocStack \/ ImageMapped
    <2>1. T
      BY <1>8, <1>3, <1>4 DEF AllocImage, AllocStack, ImageMapped
    <2> QED
      BY <2>1, <1>1, <1>2 DEF LTypeOK
  <1>9. CASE CopyStep
    <2>1. T
      BY <1>9, <1>3, <1>4 DEF CopyStep
    <2> QED
      BY <2>1, <1>1, <1>2 DEF LTypeOK
  <1> QED
    BY <1>5, <1>6, <1>7, <1>8, <1>9 DEF LNext

\* The sum of the first loop never falls behind the end of a segment it has
\* seen: it only grows, and the new term reaches beyond the segment's end.
LEMMA CoveredStep == LInv /\ [LNext]_lallvars => SegmentsCovered'
  <1> SUFFICES ASSUME LInv, [LNext]_lallvars PROVE SegmentsCovered'
    OBVIOUS
  <1>2. file' = file /\ phdrs' = phdrs /\ file \in Programs
    BY FileKept DEF LInv, LTypeOK
  <1>3. /\ Len(phdrs) \in Nat
        /\ \A n \in 1 .. Len(phdrs) :
              phdrs[n].p_vaddr \in Nat /\ phdrs[n].p_memsz \in Nat /\ phdrs[n].load \in BOOLEAN
    BY <1>2, PhdrType
  <1>4. i \in 1 .. (Len(phdrs) + 1) /\ req_sz \in Nat
    BY DEF LInv, LTypeOK
  <1>5. CASE SizeStep
    <2>1. i \in 1 .. Len(phdrs) /\ i' = i + 1 /\ lpc = "size" /\ lpc' = "size"
      BY <1>5, <1>3, <1>4 DEF SizeStep
    <2>2. phdrs[i].p_vaddr \in Nat /\ phdrs[i].p_memsz \in Nat /\ phdrs[i].load \in BOOLEAN
      BY <2>1, <1>3
    <2>3. /\ req_sz' \in Nat /\ req_sz <= req_sz'
          /\ phdrs[i].load => phdrs[i].p_vaddr + phdrs[i].p_memsz <= req_sz'
      <3>1. CASE ~phdrs[i].load
        BY <3>1, <1>5, <1>4 DEF SizeStep
      <3>2. CASE phdrs[i].load
        <4>1. req_sz' = IF req_sz < phdrs[i].p_vaddr
                          THEN req_sz + phdrs[i].p_vaddr + phdrs[i].p_memsz
                          ELSE req_sz + phdrs[i].p_memsz
          BY <3>2, <1>5, Zenon DEF SizeStep
        <4>2. \A r, v, z \in Nat :
                  LET s == IF r < v THEN r + v + z ELSE r + z
                  IN  s \in Nat /\ r <= s /\ v + z <= s
          OBVIOUS
        <4> QED
          BY <4>1, <4>2, <2>2, <1>4
      <3> QED
        BY <3>1, <3>2
    <2>4. \A n \in 1 .. (i - 1) :
              phdrs[n].load => phdrs[n].p_vaddr + phdrs[n].p_memsz <= req_sz
      BY <2>1 DEF LInv, SegmentsCovered, Covered
    <2>5. \A n \in 1 .. i : phdrs[n].load => phdrs[n].p_vaddr + phdrs[n].p_memsz <= req_sz'
      <3> SUFFICES ASSUME NEW n \in 1 .. i, phdrs[n].load
                   PROVE  phdrs[n].p_vaddr + phdrs[n].p_memsz <= req_sz'
        OBVIOUS
      <3>1. n \in 1 .. Len(phdrs)
        BY <2>1, <1>3
      <3>2. phdrs[n].p_vaddr + phdrs[n].p_memsz \in Nat
        BY <3>1, <1>3
      <3>3. CASE n = i
        BY <3>3, <2>3
      <3>4. CASE n # i
        <4>1. n \in 1 .. (i - 1)
          BY <3>4, <2>1, <1>3
        <4>2. phdrs[n].p_vaddr + phdrs[n].p_memsz <= req_sz
          BY <4>1, <2>4
        <4> QED
          BY <4>2, <3>2, <2>3, <1>4
      <3> QED
        BY <3>3, <3>4
    <2>6. 1 .. (i' - 1) = 1 .. i
      BY <2>1, <1>3
    <2> QED
      BY <2>1, <2>5, <2>6, <1>2 DEF SegmentsCovered, Covered
  <1>6. CASE AllocImage
    <2>1. lpc = "size" /\ lpc' = "map_image" /\ req_sz' = req_sz
      BY <1>6 DEF AllocImage
    <2>2. \A n \in 1 .. Len(phdrs) : n \in 1 .. (i - 1)
      BY <1>6, <1>3, <1>4 DEF AllocImage
    <2> QED
      BY <2>1, <2>2, <1>2 DEF LInv, SegmentsCovered, Covered
  <1>7. CASE Parse
    <2>1. lpc' \in {"size", "error"} /\ i' = i /\ i = 1
      BY <1>7 DEF Parse, LInv, StartsAtOne
    <2>2. 1 .. (i' - 1) = {}
      BY <2>1
    <2> QED
      BY <2>1, <2>2 DEF SegmentsCovered
  <1>8. CASE NothingToLoad \/ CopyPanics \/ AllocStack \/ JumpToUsermode
    BY <1>8 DEF NothingToLoad, CopyPanics, AllocStack, JumpToUsermode, SegmentsCovered
  <1>9. CASE ImageMapped \/ CopyStep
    <2>1. lpc \in {"map_image", "copy"} /\ lpc' = "copy" /\ req_sz' = req_sz
      BY <1>9 DEF ImageMapped, CopyStep
    <2> QED
      BY <2>1, <1>2 DEF LInv, SegmentsCovered, Covered
  <1>10. CASE Boot \/ MapMore \/ Stopped \/ UNCHANGED lallvars
    <2>1. UNCHANGED lvars
      BY <1>10 DEF Boot, MapMore, Stopped, lallvars
    <2> QED
      BY <2>1, <1>2 DEF LInv, SegmentsCovered, Covered, lvars
  <1> QED
    BY <1>5, <1>6, <1>7, <1>8, <1>9, <1>10 DEF LNext

\* The request that maps the image is the one AllocImage made, and once it is
\* done its pages stay mapped until the copy is over.
LEMMA ImageStep == LInv /\ [LNext]_lallvars => ImageMappedOrUnderWay'
  <1> SUFFICES ASSUME LInv, [LNext]_lallvars PROVE ImageMappedOrUnderWay'
    OBVIOUS
  <1>1. req_sz \in Nat /\ PagesFor(req_sz) \in Nat
    BY PagesForBytes DEF LInv, LTypeOK
  <1>2. CASE AllocImage
    <2>1. /\ lpc' = "map_image" /\ req_sz > 0 /\ req_sz' = req_sz
          /\ user_base' = next_virt_user
          /\ req' = Request(next_virt_user, PagesFor(req_sz), req_sz, "user")
      BY <1>2 DEF AllocImage, AllocPagesUser
    <2>2. PagesFor(req_sz)' = PagesFor(req_sz)
      BY <2>1 DEF PagesFor, div_ceil
    <2> QED
      BY <2>1, <2>2 DEF ImageMappedOrUnderWay, Request
  <1>3. CASE MapMore
    <2>1. UNCHANGED lvars /\ lpc # "copy"
      BY <1>3 DEF MapMore
    <2>2. req'.base = req.base /\ req'.bytes = req.bytes /\ req'.n = req.n
      <3>1. req \in [base : Nat, n : Nat, i : Nat, bytes : Nat, flags : Flags]
        BY DEF LInv, LTypeOK, TypeOK
      <3>2. req' = req \/ req' = [req EXCEPT !.i = @ + 1]
        BY <1>3 DEF MapMore, MapPage, MapPageAndTable, MapFails
      <3> QED
        BY <3>1, <3>2
    <2>3. PagesFor(req_sz)' = PagesFor(req_sz)
      BY <2>1 DEF PagesFor, div_ceil, lvars
    <2> QED
      BY <2>1, <2>2, <2>3 DEF ImageMappedOrUnderWay, LInv, lvars
  <1>4. CASE ImageMapped
    <2>1. /\ lpc = "map_image" /\ lpc' = "copy" /\ req_sz' = req_sz
          /\ user_base' = user_base /\ req.i = req.n /\ mapping' = mapping
      BY <1>4 DEF ImageMapped, Return
    <2>2. req.base = user_base /\ req.n = PagesFor(req_sz)
      BY <2>1 DEF LInv, ImageMappedOrUnderWay
    <2>3. \A k \in 0 .. (req.i - 1) : Mapped(req.base + k)
      BY DEF LInv, IInv, RequestProgress
    <2>4. \A k \in 0 .. (PagesFor(req_sz) - 1) : Mapped(user_base + k)
      BY <2>1, <2>2, <2>3
    <2>5. PagesFor(req_sz)' = PagesFor(req_sz)
      BY <2>1 DEF PagesFor, div_ceil
    <2>6. \A k \in 0 .. (PagesFor(req_sz)' - 1) : Mapped(user_base + k)'
      BY <2>1, <2>4, <2>5 DEF Mapped
    <2> QED
      BY <2>1, <2>6 DEF ImageMappedOrUnderWay
  <1>5. CASE CopyStep \/ Stopped \/ UNCHANGED lallvars
    <2>1. UNCHANGED <<lpc, req_sz, user_base, mapping, req>>
      BY <1>5 DEF CopyStep, Stopped, lallvars, vars, lvars
    <2>2. PagesFor(req_sz)' = PagesFor(req_sz)
      BY <2>1 DEF PagesFor, div_ceil
    <2> QED
      BY <2>1, <2>2 DEF ImageMappedOrUnderWay, LInv, Mapped
  <1>6. CASE Boot \/ Parse \/ SizeStep \/ NothingToLoad \/ CopyPanics \/ AllocStack \/ JumpToUsermode
    <2>1. lpc' \notin {"map_image", "copy"}
      BY <1>6 DEF Boot, Parse, SizeStep, NothingToLoad, CopyPanics, AllocStack,
                  JumpToUsermode, lvars
    <2> QED
      BY <2>1 DEF ImageMappedOrUnderWay
  <1> QED
    BY <1>2, <1>3, <1>4, <1>5, <1>6 DEF LNext

LEMMA StartStep == LInv /\ [LNext]_lallvars => StartsAtOne'
  BY DEF LInv, StartsAtOne, LNext, Boot, Parse, SizeStep, AllocImage, NothingToLoad,
         MapMore, ImageMapped, CopyStep, CopyPanics, AllocStack, JumpToUsermode, Stopped,
         lvars, lallvars

LEMMA LNextLInv == LInv /\ [LNext]_lallvars => LInv'
  BY MemoryStep, LTypeStep, CoveredStep, ImageStep, StartStep DEF LInv

\* Below p_vaddr + p_memsz <= req_sz there are only pages of the image.
LEMMA PageArithmetic ==
    ASSUME NEW base \in Nat, NEW v \in Nat, NEW sz \in Nat \ {0}, NEW r \in Nat,
           v + sz <= r, NEW page \in Int,
           ((base * FrameSize + v) \div FrameSize) <= page,
           page <= ((base * FrameSize + v + sz - 1) \div FrameSize)
    PROVE  page - base \in 0 .. (PagesFor(r) - 1)
  <1>1. base <= (base * FrameSize + v) \div FrameSize
    BY DEF FrameSize
  <1>2. (base * FrameSize + v + sz - 1) \div FrameSize <= base + ((r - 1) \div FrameSize)
    BY DEF FrameSize
  <1>3. (r - 1) \div FrameSize < div_ceil(r, FrameSize)
    BY DEF FrameSize, div_ceil
  <1>4. div_ceil(r, FrameSize) <= PagesFor(r) /\ PagesFor(r) \in Nat
        /\ div_ceil(r, FrameSize) \in Nat
    BY PagesForBytes
  <1>5. /\ (r - 1) \div FrameSize \in Int
        /\ (base * FrameSize + v) \div FrameSize \in Int
        /\ (base * FrameSize + v + sz - 1) \div FrameSize \in Int
    BY DEF FrameSize
  <1> QED
    BY <1>1, <1>2, <1>3, <1>4, <1>5

LEMMA LInvWritesMapped == LInv => WritesMapped
  <1> SUFFICES ASSUME LInv, lpc = "copy", NEW n \in 1 .. Len(phdrs),
                      phdrs[n].load, phdrs[n].p_memsz > 0,
                      NEW page \in SegmentPages(phdrs[n])
               PROVE  Mapped(page)
    BY DEF WritesMapped
  <1>1. phdrs[n].p_vaddr \in Nat /\ phdrs[n].p_memsz \in Nat \ {0}
    BY PhdrType DEF LInv, LTypeOK
  <1>2. phdrs[n].p_vaddr + phdrs[n].p_memsz <= req_sz
    BY DEF LInv, SegmentsCovered, Covered
  <1>3. user_base \in Nat /\ req_sz \in Nat
    BY DEF LInv, LTypeOK
  <1>4. /\ page \in Int
        /\ ((user_base * FrameSize + phdrs[n].p_vaddr) \div FrameSize) <= page
        /\ page <= ((user_base * FrameSize + phdrs[n].p_vaddr + phdrs[n].p_memsz - 1)
                        \div FrameSize)
    <2> DEFINE lo == (user_base * FrameSize + phdrs[n].p_vaddr) \div FrameSize
               hi == (user_base * FrameSize + phdrs[n].p_vaddr + phdrs[n].p_memsz - 1)
                        \div FrameSize
    <2>1. lo \in Int /\ hi \in Int
      BY <1>1, <1>3 DEF FrameSize
    <2>2. page \in lo .. hi
      BY DEF SegmentPages
    <2> HIDE DEF lo, hi
    <2>3. page \in Int /\ lo <= page /\ page <= hi
      BY <2>1, <2>2
    <2> QED
      BY <2>3 DEF lo, hi
  <1>5. page - user_base \in 0 .. (PagesFor(req_sz) - 1)
    BY <1>1, <1>2, <1>3, <1>4, PageArithmetic
  <1>6. \A k \in 0 .. (PagesFor(req_sz) - 1) : Mapped(user_base + k)
    BY DEF LInv, ImageMappedOrUnderWay
  <1>7. Mapped(user_base + (page - user_base))
    BY <1>5, <1>6
  <1>8. user_base + (page - user_base) = page
    BY <1>3, <1>4
  <1> QED
    BY <1>7, <1>8

-----------------------------------------------------------------------------

\* The loader's counters and sums keep their types: no step of init or
\* alloc_stack underflows, whatever the program headers are.
THEOREM LoaderTypeCorrect == LSpec => []LTypeOK
  <1>1. LInit => LInv
    BY LInitLInv
  <1>2. LInv /\ [LNext]_<<vars, lvars>> => LInv'
    BY LNextLInv DEF lallvars
  <1>3. LInv => LTypeOK
    BY DEF LInv
  <1> QED
    BY <1>1, <1>2, <1>3, PTL DEF LSpec

\* For every ELF file, init writes its segments only to pages mapped for them.
THEOREM LoaderWritesMapped == LSpec => []WritesMapped
  <1>1. LInit => LInv
    BY LInitLInv
  <1>2. LInv /\ [LNext]_<<vars, lvars>> => LInv'
    BY LNextLInv DEF lallvars
  <1>3. LInv => WritesMapped
    BY LInvWritesMapped
  <1> QED
    BY <1>1, <1>2, <1>3, PTL DEF LSpec

=============================================================================
