------------------------------- MODULE Paging -------------------------------
(***************************************************************************)
(* Page mapping: kernel/src/memory.rs and the page functions of            *)
(* kernel/src/allocator/mod.rs.  kernel_main maps the heap and the         *)
(* ramdisk, after that callers use alloc, alloc_user, alloc_pages,         *)
(* alloc_pages_user and free.  Frames come from one counter, for the pages *)
(* and for the page tables that Mapper::map_to creates on the way; the     *)
(* counter only moves up and no frame ever comes back.                     *)
(*                                                                         *)
(* Mapper (crate x86_64) is external: one level of tables, each spanning   *)
(* TableSpan pages, stands for its four.                                   *)
(***************************************************************************)
EXTENDS FrameAllocator, FiniteSets

CONSTANTS
    MemoryMap,    \* the regions that the bootloader reports
    TableSpan,    \* pages per page table
    HeapPage, HeapPages, RamdiskPage, RamdiskPages,
    KernelArea,   \* where alloc_pages starts
    UserArea,     \* where alloc_pages_user starts
    AreaPages,    \* bound: pages handed out in each of the two areas
    Bytes         \* the sizes callers ask for

ASSUME PagingAssumption ==
    /\ IsMemoryMap(MemoryMap)
    /\ TableSpan \in Nat \ {0}
    /\ HeapPage \in Nat /\ HeapPages \in Nat
    /\ RamdiskPage \in Nat /\ RamdiskPages \in Nat
    /\ KernelArea \in Nat /\ UserArea \in Nat /\ AreaPages \in Nat
    /\ Bytes \subseteq Nat
    /\ HeapPage + HeapPages <= RamdiskPage
    /\ RamdiskPage + RamdiskPages <= KernelArea
    /\ KernelArea + AreaPages <= UserArea

\* What allocate_frame hands out, by its counter.
Frames == usable_frames(MemoryMap)

VARIABLES
    next,            \* BootInfoFrameAllocator.next
    mapping,         \* the pages that are mapped: [page, frame, flags]
    tables,          \* the page tables: [group, frame]
    next_virt,       \* NEXT_VIRT of alloc_pages, as a page
    next_virt_user,  \* NEXT_VIRT of alloc_pages_user, as a page
    req,             \* the mapping loop in progress, or NoReq
    live,            \* the blocks of the callers: [base, pages, bytes]
    boot,            \* "heap", "ramdisk", "run": who maps next
    panicked         \* an expect failed

vars == <<next, mapping, tables, next_virt, next_virt_user, req, live, boot, panicked>>

\* PRESENT | WRITABLE, with or without USER_ACCESSIBLE.
Flags == {"kernel", "user"}

NoReq == [base |-> 0, n |-> 0, i |-> 0, bytes |-> 0, flags |-> "kernel"]

Request(base, n, bytes, flags) ==
    [base |-> base, n |-> n, i |-> 0, bytes |-> bytes, flags |-> flags]

Mapped(page) == \E m \in mapping : m.page = page

group(page) == page \div TableSpan

HasTable(page) == \E t \in tables : t.group = group(page)

Init ==
    /\ next = 0
    /\ mapping = {}
    /\ tables = {}
    /\ next_virt = KernelArea
    /\ next_virt_user = UserArea
    /\ req = NoReq
    /\ live = {}
    /\ boot = "heap"
    /\ panicked = FALSE

Idle == ~panicked /\ req = NoReq

-----------------------------------------------------------------------------
(* The loop over the pages of a request.                                   *)

Mapping == ~panicked /\ req.i < req.n

\* allocate_frame returns None for the page or for its table, or map_to finds
\* the page mapped: the expect of the caller panics.
MapFails ==
    /\ Mapping
    /\ LET page == req.base + req.i
           used == IF HasTable(page) THEN 1 ELSE 2
       IN  /\ next + used > Len(Frames) \/ Mapped(page)
           /\ next' = IF next + 1 > Len(Frames) THEN next + 1 ELSE next + used
    /\ panicked' = TRUE
    /\ UNCHANGED <<mapping, tables, next_virt, next_virt_user, req, live, boot>>

\* Mutant: the table gets the frame that was taken for the page.
MapPage_SharesFrame ==
    LET page == req.base + req.i IN
    /\ Mapping
    /\ ~Mapped(page)
    /\ next + 1 <= Len(Frames)
    /\ mapping' = mapping \cup {[page |-> page, frame |-> Frames[next + 1], flags |-> req.flags]}
    /\ next' = next + 1
    /\ tables' = IF HasTable(page) THEN tables
                 ELSE tables \cup {[group |-> group(page), frame |-> Frames[next + 1]]}
    /\ req' = [req EXCEPT !.i = @ + 1]
    /\ UNCHANGED <<next_virt, next_virt_user, live, boot, panicked>>

\* allocate_frame, then map_to into an existing table ...
MapPage ==
    LET page == req.base + req.i IN
    /\ Mapping
    /\ HasTable(page)
    /\ ~Mapped(page)
    /\ next + 1 <= Len(Frames)
    /\ mapping' = mapping \cup
          {[page |-> page, frame |-> Frames[next + 1], flags |-> req.flags]}
    /\ next' = next + 1
    /\ req' = [req EXCEPT !.i = @ + 1]
    /\ UNCHANGED <<tables, next_virt, next_virt_user, live, boot, panicked>>

\* ... or into a new one, which takes the next frame.
MapPageAndTable ==
    LET page == req.base + req.i IN
    /\ Mapping
    /\ ~HasTable(page)
    /\ ~Mapped(page)
    /\ next + 2 <= Len(Frames)
    /\ mapping' = mapping \cup
          {[page |-> page, frame |-> Frames[next + 1], flags |-> req.flags]}
    /\ tables' = tables \cup {[group |-> group(page), frame |-> Frames[next + 2]]}
    /\ next' = next + 2
    /\ req' = [req EXCEPT !.i = @ + 1]
    /\ UNCHANGED <<next_virt, next_virt_user, live, boot, panicked>>

-----------------------------------------------------------------------------
(* What kernel_main maps first: the heap, then the ramdisk.                *)

MapHeap ==
    /\ Idle
    /\ boot = "heap"
    /\ req' = Request(HeapPage, HeapPages, 0, "kernel")
    /\ boot' = "ramdisk"
    /\ UNCHANGED <<next, mapping, tables, next_virt, next_virt_user, live, panicked>>

MapRamdisk ==
    /\ Idle
    /\ boot = "ramdisk"
    /\ req' = Request(RamdiskPage, RamdiskPages, 0, "kernel")
    /\ boot' = "run"
    /\ UNCHANGED <<next, mapping, tables, next_virt, next_virt_user, live, panicked>>

-----------------------------------------------------------------------------

div_ceil(a, b) == (a + b - 1) \div b

\* alloc and alloc_user: at least two pages.
PagesFor(bytes) ==
    IF div_ceil(bytes, FrameSize) > 2 THEN div_ceil(bytes, FrameSize) ELSE 2

\* Mutant: NEXT_VIRT is not advanced.
AllocPages_NoAdvance(n, bytes) ==
    /\ Idle
    /\ boot = "run"
    /\ next_virt + n <= KernelArea + AreaPages
    /\ req' = Request(next_virt, n, bytes, "kernel")
    /\ UNCHANGED <<next, mapping, tables, next_virt, next_virt_user, live, boot, panicked>>

\* alloc_pages: NEXT_VIRT moves before the pages are mapped.
AllocPages(n, bytes) ==
    /\ Idle
    /\ boot = "run"
    /\ next_virt + n <= KernelArea + AreaPages
    /\ req' = Request(next_virt, n, bytes, "kernel")
    /\ next_virt' = next_virt + n
    /\ UNCHANGED <<next, mapping, tables, next_virt_user, live, boot, panicked>>

AllocPagesUser(n, bytes) ==
    /\ Idle
    /\ boot = "run"
    /\ next_virt_user + n <= UserArea + AreaPages
    /\ req' = Request(next_virt_user, n, bytes, "user")
    /\ next_virt_user' = next_virt_user + n
    /\ UNCHANGED <<next, mapping, tables, next_virt, live, boot, panicked>>

\* alloc and alloc_user return None for no bytes.
Alloc == \E b \in Bytes \ {0} : AllocPages(PagesFor(b), b)

AllocUser == \E b \in Bytes \ {0} : AllocPagesUser(PagesFor(b), b)

\* The loop is done: Some(base) goes to the caller, who may free it.
Return ==
    /\ ~panicked
    /\ req.n > 0
    /\ req.i = req.n
    /\ live' = IF req.bytes = 0 THEN live
               ELSE live \cup {[base |-> req.base, pages |-> req.n, bytes |-> req.bytes]}
    /\ req' = NoReq
    /\ UNCHANGED <<next, mapping, tables, next_virt, next_virt_user, boot, panicked>>

\* Mutant: free unmaps as many pages as alloc maps at least, and one more.
Free_OnePageMore ==
    \E b \in live :
        LET n == div_ceil(b.bytes, FrameSize) + 1 IN
        /\ Idle
        /\ mapping' = {m \in mapping : m.page < b.base \/ m.page >= b.base + n}
        /\ live' = live \ {b}
        /\ UNCHANGED <<next, tables, next_virt, next_virt_user, req, boot, panicked>>

\* free: it unmaps the pages the bytes need, which may be fewer than alloc
\* mapped; the frames stay taken.
Free ==
    \E b \in live :
        LET n == div_ceil(b.bytes, FrameSize) IN
        /\ Idle
        /\ mapping' = {m \in mapping : m.page < b.base \/ m.page >= b.base + n}
        /\ live' = live \ {b}
        /\ UNCHANGED <<next, tables, next_virt, next_virt_user, req, boot, panicked>>

\* The panic handler loops, or nothing is left to map.
Stop == (panicked \/ Idle) /\ UNCHANGED vars

Next ==
    \/ MapHeap \/ MapRamdisk \/ Alloc \/ AllocUser \/ Free
    \/ MapPage \/ MapPageAndTable \/ MapFails \/ Return
    \/ Stop

Spec == Init /\ [][Next]_vars

-----------------------------------------------------------------------------

TypeOK ==
    /\ next \in Nat
    /\ mapping \subseteq [page : Nat, frame : Nat, flags : Flags]
    /\ tables \subseteq [group : Nat, frame : Nat]
    /\ next_virt \in KernelArea .. (KernelArea + AreaPages)
    /\ next_virt_user \in UserArea .. (UserArea + AreaPages)
    /\ req \in [base : Nat, n : Nat, i : Nat, bytes : Nat, flags : Flags]
    /\ req.i <= req.n
    /\ live \subseteq [base : Nat, pages : Nat, bytes : Nat]
    /\ boot \in {"heap", "ramdisk", "run"}
    /\ panicked \in BOOLEAN

\* A frame of the memory map backs at most one page or one page table, for
\* ever: the counter of the frame allocator is shared by both.
FramesHandedOutOnce ==
    /\ \A m, o \in mapping : m.frame = o.frame => m = o
    /\ \A t, u \in tables : t.frame = u.frame => t = u
    /\ \A m \in mapping, t \in tables : m.frame # t.frame

\* map_to never meets a page that is mapped already, so a mapping fails only
\* for want of frames: the areas are disjoint and their counters never return.
NeverRemaps == Mapping => ~Mapped(req.base + req.i)

\* All pages of a block stay mapped until the block itself is freed: free never
\* unmaps a page of another one.
LiveBlocksMapped ==
    \A b \in live : \A k \in 0 .. (b.pages - 1) : Mapped(b.base + k)

-----------------------------------------------------------------------------
(* The inductive invariant behind these.                                   *)

\* The frames in use are among the first `next' ones.
HasBeenHandedOut(f) == \E k \in 1 .. Len(Frames) : k <= next /\ f = Frames[k]

FramesBelowNext ==
    /\ \A m \in mapping : HasBeenHandedOut(m.frame)
    /\ \A t \in tables : HasBeenHandedOut(t.frame)

\* What may be mapped so far, area by area.
InAreas(p) ==
    \/ boot # "heap" /\ HeapPage <= p /\ p < HeapPage + HeapPages
    \/ boot = "run" /\ RamdiskPage <= p /\ p < RamdiskPage + RamdiskPages
    \/ KernelArea <= p /\ p < next_virt
    \/ UserArea <= p /\ p < next_virt_user

PagesInAreas == \A m \in mapping : InAreas(m.page)

HandedOut(base, n) ==
    \/ KernelArea <= base /\ base + n <= next_virt
    \/ UserArea <= base /\ base + n <= next_virt_user

Apart(base, n, base2, n2) == base + n <= base2 \/ base2 + n2 <= base

\* The request in progress: what is mapped of it, and that it is new.
RequestProgress ==
    /\ \A k \in 0 .. (req.i - 1) : Mapped(req.base + k)
    /\ \A k \in req.i .. (req.n - 1) : ~Mapped(req.base + k)
    /\ \A k \in 0 .. (req.n - 1) : InAreas(req.base + k)
    /\ req.bytes > 0 =>
          /\ req.n = PagesFor(req.bytes)
          /\ HandedOut(req.base, req.n)
          /\ \A b \in live : Apart(b.base, b.pages, req.base, req.n)

LiveBlocksApart ==
    /\ \A b \in live : b.pages = PagesFor(b.bytes) /\ HandedOut(b.base, b.pages)
    /\ \A b, c \in live : b # c => Apart(b.base, b.pages, c.base, c.pages)

IInv ==
    /\ TypeOK
    /\ FramesHandedOutOnce /\ FramesBelowNext
    /\ PagesInAreas /\ RequestProgress
    /\ LiveBlocksMapped /\ LiveBlocksApart

=============================================================================
