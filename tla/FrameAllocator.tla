--------------------------- MODULE FrameAllocator ---------------------------
(***************************************************************************)
(* BootInfoFrameAllocator (kernel/src/memory.rs): the frames it hands out, *)
(* in order, from the memory map of the bootloader.  A region is           *)
(* [start, end, usable] in bytes; a frame is the number of a 4 KiB frame.  *)
(***************************************************************************)
EXTENDS Integers, Sequences

FrameSize == 4096

\* (start .. end).step_by(4096): one address for a partial last frame too.
FramesOf(r) ==
    [k \in 1 .. ((r.end - r.start + FrameSize - 1) \div FrameSize) |->
        (r.start + (k - 1) * FrameSize) \div FrameSize]

UsableFramesOf(r) == IF r.usable THEN FramesOf(r) ELSE <<>>

\* The frames of the first n regions, the usable ones only.
FramesUpTo(memory_map) ==
    LET upto[n \in 0 .. Len(memory_map)] ==
            IF n = 0 THEN <<>> ELSE upto[n - 1] \o UsableFramesOf(memory_map[n])
    IN  upto

usable_frames(memory_map) == FramesUpTo(memory_map)[Len(memory_map)]

\* A memory map as the bootloader makes it: no frame has bytes of two usable
\* regions.  The code does not look.
IsMemoryMap(map) ==
    /\ map \in Seq([start : Nat, end : Nat, usable : BOOLEAN])
    /\ \A i \in 1 .. Len(map) : map[i].start <= map[i].end
    /\ \A i, j \in 1 .. Len(map) :
          i # j /\ map[i].usable /\ map[j].usable =>
              \/ (map[i].end - 1) \div FrameSize < map[j].start \div FrameSize
              \/ (map[j].end - 1) \div FrameSize < map[i].start \div FrameSize

=============================================================================
