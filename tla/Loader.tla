------------------------------- MODULE Loader -------------------------------
(***************************************************************************)
(* Process (kernel/src/elf.rs): how kernel_main loads the init program.    *)
(* switch runs init (parse, add up the size of the image, map it, copy the *)
(* segments), maps a stack and jumps to user mode.  The pages come from    *)
(* Paging; goblin's parser is external: it accepts the file and yields its *)
(* program headers, or not.  Sizes are far from 2^64 and do not wrap.      *)
(***************************************************************************)
EXTENDS Paging

CONSTANTS
    Programs,    \* ELF files: [valid, phdrs, len]
    StackPages   \* the argument of switch

ASSUME LoaderAssumption ==
    /\ StackPages \in Nat
    /\ \A f \in Programs :
          /\ f.valid \in BOOLEAN
          /\ f.len \in Nat
          /\ f.phdrs \in Seq([load : BOOLEAN, p_vaddr : Nat, p_memsz : Nat,
                              p_offset : Nat, p_filesz : Nat])

VARIABLES
    file,        \* the file that was read
    lpc,         \* where switch is
    i,           \* the program header it looks at
    req_sz,
    user_base,   \* as a page
    stack_addr   \* as a page

lvars == <<file, lpc, i, req_sz, user_base, stack_addr>>

phdrs == file.phdrs

LInit ==
    /\ Init
    /\ file \in Programs
    /\ lpc = "boot"
    /\ i = 1
    /\ req_sz = 0
    /\ user_base = 0
    /\ stack_addr = 0

\* Before: the heap and the ramdisk are mapped and drivers take and free pages.
Boot ==
    /\ lpc = "boot"
    /\ Next
    /\ UNCHANGED lvars

\* Elf::parse; Err comes back as InitError, on which kernel_main panics.
Parse ==
    /\ lpc = "boot"
    /\ Idle /\ boot = "run"
    /\ lpc' = IF file.valid THEN "size" ELSE "error"
    /\ panicked' = ~file.valid
    /\ UNCHANGED <<next, mapping, tables, next_virt, next_virt_user, req, live, boot>>
    /\ UNCHANGED <<file, i, req_sz, user_base, stack_addr>>

\* Mutant: a segment beyond the size so far adds its length only.
SizeStep_IgnoresVaddr ==
    /\ lpc = "size"
    /\ i <= Len(phdrs)
    /\ req_sz' = IF phdrs[i].load THEN req_sz + phdrs[i].p_memsz ELSE req_sz
    /\ i' = i + 1
    /\ UNCHANGED <<file, lpc, user_base, stack_addr>>
    /\ UNCHANGED vars

\* Mutant: the gap is taken the wrong way round.
SizeStep_NegativeGap ==
    /\ lpc = "size"
    /\ i <= Len(phdrs)
    /\ LET p == phdrs[i] IN
       req_sz' = IF ~p.load THEN req_sz
                 ELSE IF req_sz < p.p_vaddr THEN req_sz - p.p_vaddr + p.p_memsz
                 ELSE req_sz + p.p_memsz
    /\ i' = i + 1
    /\ UNCHANGED <<file, lpc, user_base, stack_addr>>
    /\ UNCHANGED vars

\* The first loop of init.
SizeStep ==
    /\ lpc = "size"
    /\ i <= Len(phdrs)
    /\ LET p == phdrs[i] IN
       req_sz' = IF ~p.load THEN req_sz
                 ELSE IF req_sz < p.p_vaddr THEN req_sz + p.p_vaddr + p.p_memsz
                 ELSE req_sz + p.p_memsz
    /\ i' = i + 1
    /\ UNCHANGED <<file, lpc, user_base, stack_addr>>
    /\ UNCHANGED vars

\* alloc_user(req_sz), and its error for a size of 0.
AllocImage ==
    /\ lpc = "size"
    /\ i > Len(phdrs)
    /\ req_sz > 0
    /\ AllocPagesUser(PagesFor(req_sz), req_sz)
    /\ user_base' = next_virt_user
    /\ lpc' = "map_image"
    /\ UNCHANGED <<file, i, req_sz, stack_addr>>

NothingToLoad ==
    /\ lpc = "size"
    /\ i > Len(phdrs)
    /\ req_sz = 0
    /\ lpc' = "error"
    /\ panicked' = TRUE
    /\ UNCHANGED <<next, mapping, tables, next_virt, next_virt_user, req, live, boot>>
    /\ UNCHANGED <<file, i, req_sz, user_base, stack_addr>>

\* The loops of alloc_pages_user.
MapMore ==
    /\ lpc \in {"map_image", "map_stack"}
    /\ MapPage \/ MapPageAndTable \/ MapFails
    /\ UNCHANGED lvars

ImageMapped ==
    /\ lpc = "map_image"
    /\ Return
    /\ lpc' = "copy"
    /\ i' = 1
    /\ UNCHANGED <<file, req_sz, user_base, stack_addr>>

\* &self.data[file_range] panics when the file is too short.
FileRangeOK(p) == p.p_offset + p.p_filesz <= file.len

\* The second loop of init: the segment is written from user_base + p_vaddr
\* on, p_memsz bytes, the file's bytes first and zeros after them.
CopyStep ==
    /\ lpc = "copy"
    /\ ~panicked
    /\ i <= Len(phdrs)
    /\ phdrs[i].load => FileRangeOK(phdrs[i])
    /\ i' = i + 1
    /\ UNCHANGED <<file, lpc, req_sz, user_base, stack_addr>>
    /\ UNCHANGED vars

CopyPanics ==
    /\ lpc = "copy"
    /\ i <= Len(phdrs)
    /\ phdrs[i].load /\ ~FileRangeOK(phdrs[i])
    /\ lpc' = "error"
    /\ panicked' = TRUE
    /\ UNCHANGED <<next, mapping, tables, next_virt, next_virt_user, req, live, boot>>
    /\ UNCHANGED <<file, i, req_sz, user_base, stack_addr>>

\* alloc_stack.
AllocStack ==
    /\ lpc = "copy"
    /\ i > Len(phdrs)
    /\ AllocPagesUser(StackPages, 0)
    /\ stack_addr' = next_virt_user
    /\ lpc' = "map_stack"
    /\ UNCHANGED <<file, i, req_sz, user_base>>

\* jump_to_usermode(entrypoint, stack_addr).
JumpToUsermode ==
    /\ lpc = "map_stack"
    /\ Return
    /\ lpc' = "user"
    /\ UNCHANGED <<file, i, req_sz, user_base, stack_addr>>

Stopped ==
    /\ panicked \/ lpc = "user"
    /\ UNCHANGED <<vars, lvars>>

LNext ==
    \/ Boot \/ Parse \/ SizeStep \/ AllocImage \/ NothingToLoad \/ MapMore
    \/ ImageMapped \/ CopyStep \/ CopyPanics \/ AllocStack \/ JumpToUsermode
    \/ Stopped

LSpec == LInit /\ [][LNext]_<<vars, lvars>>

-----------------------------------------------------------------------------

LTypeOK ==
    /\ TypeOK
    /\ file \in Programs
    /\ lpc \in {"boot", "size", "map_image", "copy", "map_stack", "user", "error"}
    /\ i \in 1 .. (Len(phdrs) + 1)
    /\ req_sz \in Nat
    /\ user_base \in Nat
    /\ stack_addr \in Nat

\* The pages that p_memsz bytes at user_base + p_vaddr touch.
SegmentPages(p) ==
    ((user_base * FrameSize + p.p_vaddr) \div FrameSize) ..
        ((user_base * FrameSize + p.p_vaddr + p.p_memsz - 1) \div FrameSize)

\* Whatever the order, the gaps and the overlaps of the segments, init writes
\* only to pages it has mapped for the image: the sum of the first loop is
\* enough for the second one.
WritesMapped ==
    lpc = "copy" =>
        \A n \in 1 .. Len(phdrs) :
            phdrs[n].load /\ phdrs[n].p_memsz > 0 =>
                \A page \in SegmentPages(phdrs[n]) : Mapped(page)

\* syscall.rs:129: the second argument of jump_to_usermode is user_stack_top.
\* A stack grows down: the first push writes to the page below its top.
FirstPushOnStack ==
    lpc = "user" => (stack_addr * FrameSize - 8) \div FrameSize
                        \in stack_addr .. (stack_addr + StackPages - 1)

=============================================================================
