------------------------------ MODULE MCLoader ------------------------------
(* Loader for a few files made of four program headers: one at address 0,  *)
(* one that crosses a page, one behind a gap, one that is not loaded.      *)
EXTENDS Loader

Text == [load |-> TRUE, p_vaddr |-> 0, p_memsz |-> 64, p_offset |-> 0, p_filesz |-> 64]
Data == [load |-> TRUE, p_vaddr |-> 4000, p_memsz |-> 500, p_offset |-> 64, p_filesz |-> 20]
Bss  == [load |-> TRUE, p_vaddr |-> 9000, p_memsz |-> 8, p_offset |-> 90, p_filesz |-> 8]
Note == [load |-> FALSE, p_vaddr |-> 99999, p_memsz |-> 99999, p_offset |-> 0, p_filesz |-> 0]

\* In order, out of order, twice the same, nothing to load; then a file that
\* lacks the bytes of its last segment, and one that is no ELF.
MCPrograms ==
    {[valid |-> TRUE, phdrs |-> s, len |-> 98] :
        s \in {<<Text, Data>>, <<Data, Text>>, <<Text, Bss>>, <<Bss, Data>>,
               <<Bss, Bss>>, <<Note>>}}
    \cup {[valid |-> TRUE, phdrs |-> <<Text, Bss>>, len |-> 84],
          [valid |-> FALSE, phdrs |-> <<>>, len |-> 0]}

\* Two usable regions, the second of which ends inside a frame, around a
\* reserved one.
MCMemoryMap ==
    <<[start |-> 0, end |-> 8 * FrameSize, usable |-> TRUE],
      [start |-> 8 * FrameSize, end |-> 10 * FrameSize, usable |-> FALSE],
      [start |-> 10 * FrameSize, end |-> 17 * FrameSize + 512, usable |-> TRUE]>>

MCBytes == {0, 100, 2 * FrameSize + 1}

=============================================================================
