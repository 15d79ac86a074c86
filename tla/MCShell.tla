------------------------------ MODULE MCShell ------------------------------
(* The shell with archives of up to three files: empty, of one full block, *)
(* with a partial last block; whole or cut off in the last file; with a    *)
(* name that is not UTF-8; with the same name twice.                       *)
EXTENDS Shell

MCNames == {"a", "b"}

NoHeader == [ustar |-> FALSE, name |-> "", size |-> 0]

\* The data of a file looks like a header: it is an archive itself.
Inner == [ustar |-> TRUE, name |-> "b", size |-> 0]

\* The blocks tar writes for files: header, data, and two empty blocks.
Pack(files) ==
    LET Data(f) == [k \in 1 .. ((f.size + BLOCK_SIZE - 1) \div BLOCK_SIZE) |-> Inner]
        upto[n \in 0 .. Len(files)] ==
            IF n = 0 THEN <<>>
            ELSE upto[n - 1] \o <<[ustar |-> TRUE, name |-> files[n].name,
                                   size |-> files[n].size]>> \o Data(files[n])
    IN  upto[Len(files)] \o <<NoHeader, NoHeader>>

File(name, size) == [name |-> name, size |-> size]

\* len may cut the archive in its last file.
ArchiveOf(files, len) == [files |-> files, blocks |-> Pack(files), len |-> len]

MCArchives ==
    {ArchiveOf(<<File("a", 0), File("b", 512), File("a", 700)>>, 4096),
     ArchiveOf(<<File("a", 0), File("b", 512), File("a", 700)>>, 2600),
     ArchiveOf(<<File("a", 513), File("latin1", 10), File("b", 1)>>, 4608),
     ArchiveOf(<<File("b", 100)>>, 550),
     ArchiveOf(<<>>, 1024)}

MCTexts == {<<"-", "-", "\n", "-">>}

MCContents == {<<"-", "colour", "backspace", "-", "\r", "del", "\n">>}

=============================================================================
