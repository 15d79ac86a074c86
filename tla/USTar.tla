------------------------------- MODULE USTar -------------------------------
(***************************************************************************)
(* The ramdisk file system (kernel/src/drivers/ustar.rs): USTar over an    *)
(* archive in memory, read_file and the iterator of files().  Each loop    *)
(* round is one step of `ptr'.                                             *)
(*                                                                         *)
(* An archive holds `files', a sequence of [name, size], as a sequence of  *)
(* blocks of which the first `len' bytes are there.  A block is what the   *)
(* reader would see if it took it for a header: [ustar, name, size].       *)
(* Contents are left out: a file is known by the place of its data.        *)
(***************************************************************************)
EXTENDS Integers, Sequences

CONSTANTS
    Archives,   \* [files, blocks, len]
    Names,      \* the names of files that are UTF-8
    LsLimit     \* ls stops when it has seen more files than this

BLOCK_SIZE == 512

VARIABLES
    archive,
    walk,      \* the reader: "none", "ls", "cat", and when done "listed", "read"
    ptr,
    wanted,    \* read_file: the name it looks for
    found      \* the files that were returned: [name, data, size]

ustar_vars == <<archive, walk, ptr, wanted, found>>

data_len == archive.len

\* The header at ptr; the pointer only ever moves by blocks.
header == archive.blocks[ptr \div BLOCK_SIZE + 1]

\* Both readers: a whole header fits and has the signature.
AtHeader == ptr + BLOCK_SIZE <= data_len /\ header.ustar

data_start == ptr + BLOCK_SIZE
data_end == data_start + header.size

this_file == [name |-> header.name, data |-> data_start, size |-> header.size]

blocks_needed == (header.size + BLOCK_SIZE - 1) \div BLOCK_SIZE

\* Mutant: the header itself is not counted.
next_ptr_NoHeader == ptr + blocks_needed * BLOCK_SIZE

\* Mutant: a partial last block is not counted.
next_ptr_RoundsDown == ptr + (header.size \div BLOCK_SIZE + 1) * BLOCK_SIZE

next_ptr == ptr + (blocks_needed + 1) * BLOCK_SIZE

USTarInit ==
    /\ archive \in Archives
    /\ walk = "none"
    /\ ptr = 0
    /\ wanted = ""
    /\ found = <<>>

StartWalk(reader, name) ==
    /\ walk' = reader
    /\ ptr' = 0
    /\ wanted' = name
    /\ found' = <<>>
    /\ UNCHANGED archive

StopWalk(done, files) ==
    /\ walk' = done
    /\ found' = files
    /\ UNCHANGED <<archive, ptr, wanted>>

\* The reader is dropped when its caller has what it wants.
EndWalk ==
    /\ walk' = "none"
    /\ ptr' = 0
    /\ wanted' = ""
    /\ found' = <<>>
    /\ UNCHANGED archive

-----------------------------------------------------------------------------
(* ls: one call of USTarFileIterator::next per step.                       *)

Listable == AtHeader /\ data_end <= data_len /\ header.name \in Names

ListFile ==
    /\ walk = "ls"
    /\ Listable
    /\ Len(found) + 1 <= LsLimit
    /\ ptr' = next_ptr
    /\ found' = Append(found, this_file)
    /\ UNCHANGED <<archive, walk, wanted>>

\* The file that exceeds the limit is the last one.
ListLast ==
    /\ walk = "ls"
    /\ Listable
    /\ Len(found) + 1 > LsLimit
    /\ StopWalk("listed", Append(found, this_file))

\* next returns None.
ListEnd ==
    /\ walk = "ls"
    /\ ~Listable
    /\ StopWalk("listed", found)

-----------------------------------------------------------------------------
(* read_file: one round of its loop per step.                              *)

Matches == AtHeader /\ header.name = wanted /\ data_end <= data_len

\* Mutant: the file is returned without a look at its end.
ReadFound_Unchecked ==
    /\ walk = "cat"
    /\ AtHeader /\ header.name = wanted
    /\ StopWalk("read", <<this_file>>)

ReadFound ==
    /\ walk = "cat"
    /\ Matches
    /\ StopWalk("read", <<this_file>>)

ReadNext ==
    /\ walk = "cat"
    /\ AtHeader
    /\ ~Matches
    /\ next_ptr <= data_len
    /\ ptr' = next_ptr
    /\ UNCHANGED <<archive, walk, wanted, found>>

ReadNone ==
    /\ walk = "cat"
    /\ \/ ~AtHeader
       \/ ~Matches /\ next_ptr > data_len
    /\ StopWalk("read", <<>>)

WalkStep == ListFile \/ ListLast \/ ListEnd \/ ReadFound \/ ReadNext \/ ReadNone

USTarTypeOK ==
    /\ archive \in Archives
    /\ walk \in {"none", "ls", "cat", "listed", "read"}
    /\ ptr \in {k * BLOCK_SIZE : k \in 0 .. Len(archive.blocks)}
    /\ wanted \in Names \cup {""}

-----------------------------------------------------------------------------
(* What the archive holds, from the format and not from the code.          *)

\* Where the header of file n is.
Offset(files) ==
    LET off[n \in 1 .. (Len(files) + 1)] ==
            IF n = 1 THEN 0
            ELSE off[n - 1] + BLOCK_SIZE
                     * (1 + (files[n - 1].size + BLOCK_SIZE - 1) \div BLOCK_SIZE)
    IN  off

\* The blocks of an archive, the last of which may be cut off.
IsStored(a) ==
    /\ a.files \in Seq([name : STRING, size : Nat])
    /\ a.blocks \in Seq([ustar : BOOLEAN, name : STRING, size : Nat])
    /\ a.len \in 0 .. (Len(a.blocks) * BLOCK_SIZE)

BlockAt(a, offset) == a.blocks[offset \div BLOCK_SIZE + 1]

\* What tar writes: a header for every file, and none behind the last one.
IsPacked(a) ==
    /\ \A n \in 1 .. Len(a.files) :
          LET at == Offset(a.files)[n] IN
          at + BLOCK_SIZE <= a.len =>
              /\ BlockAt(a, at).ustar
              /\ BlockAt(a, at).name = a.files[n].name
              /\ BlockAt(a, at).size = a.files[n].size
    /\ LET at == Offset(a.files)[Len(a.files) + 1] IN
       at + BLOCK_SIZE <= a.len => ~BlockAt(a, at).ustar

ASSUME USTarAssumption ==
    /\ \A a \in Archives : IsStored(a) /\ IsPacked(a)
    /\ LsLimit \in Nat

Entry(n) ==
    [name |-> archive.files[n].name, data |-> Offset(archive.files)[n] + BLOCK_SIZE,
     size |-> archive.files[n].size]

Whole(n) == Entry(n).data + Entry(n).size <= archive.len

\* ls lists the files in order, up to the first that is cut off or whose name
\* is not UTF-8, and not more than its limit plus one.
LsListsFiles ==
    walk = "listed" =>
        LET good(n) == \A k \in 1 .. n : Whole(k) /\ archive.files[k].name \in Names IN
        /\ \A n \in 1 .. Len(found) : good(n) /\ found[n] = Entry(n)
        /\ \A n \in (Len(found) + 1) .. Len(archive.files) : ~good(n) \/ n > LsLimit + 1

\* cat reads the first file of that name, whatever its data looks like, or
\* says there is none.
CatReadsFirst ==
    walk = "read" =>
        LET hits == {n \in DOMAIN archive.files :
                        Whole(n) /\ archive.files[n].name = wanted} IN
        IF hits = {} THEN found = <<>>
        ELSE \E n \in hits : (\A k \in hits : n <= k) /\ found = <<Entry(n)>>

=============================================================================
