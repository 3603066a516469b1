---------------------------- MODULE MCCreateFile ----------------------------
(* Base archives and live files for CreateFile.tla. *)
EXTENDS CreateFile

\* A version of a file: its chunks and its modification time.
File(mtime, chunks) == [there |-> TRUE, mtime |-> mtime, chunks |-> chunks]
NoFile == [there |-> FALSE, mtime |-> 0, chunks |-> <<>>]

MCNames == {"a", "b"}
MCData == {"x", "y", "z"}
MCHash == [x |-> 1, y |-> 2, z |-> 3]
MCZips == {"x"}
-----------------------------------------------------------------------------
(* The archive that create without a base and without threads (-T 0) leaves: *)
(* the files one after the other, each chunk at the next index.              *)

Blocks(S) == [i \in 0..Len(S) - 1 |-> S[i + 1]]

Lines(first, chunks) ==
    [i \in DOMAIN chunks |->
        ChunkRec(Flag(chunks[i] \in MCZips), first + i - 1, MCHash[chunks[i]])]

InfoOf(first, chunks) == Block(Len(chunks) >= ZipLen, Lines(first, chunks))

EntryOf(file, finfo) ==
    IF ~file.there THEN NoEntry
    ELSE Entry([size |-> Len(file.chunks), mtime |-> file.mtime],
               Flag(file.chunks # <<>> /\ Len(file.chunks) >= ZipLen), finfo)

Stored(file) == file.chunks # <<>>

FirstArchive(a, b) ==
    LET split == Len(a.chunks)
        infos == (IF Stored(a) THEN <<InfoOf(0, a.chunks)>> ELSE <<>>)
                 \o (IF Stored(b) THEN <<InfoOf(split, b.chunks)>> ELSE <<>>)
        all   == a.chunks \o b.chunks
    IN  [list  |-> [a |-> EntryOf(a, IF Stored(a) THEN 0 ELSE IF a.there THEN -2 ELSE NoFInfo),
                    b |-> EntryOf(b, IF Stored(b) THEN Len(infos) - 1
                                     ELSE IF ~b.there THEN NoFInfo
                                     ELSE IF a.there /\ ~Stored(a) THEN -3 ELSE -2)],
         chunk |-> Blocks([i \in DOMAIN all |-> Block(all[i] \in MCZips, all[i])]),
         finfo |-> Blocks(infos)]

\* a and b were two names of one file.
LinkedArchive(file) ==
    LET alone == FirstArchive(file, NoFile)
    IN  [alone EXCEPT !.list.b = alone.list.a]
-----------------------------------------------------------------------------
LiveFile(file, size) == [size |-> size, mtime |-> file.mtime, chunks |-> file.chunks]

Unchanged(file) == LiveFile(file, Len(file.chunks))

Scene(archive, a, b) == [base |-> archive, live |-> [a |-> a, b |-> b]]

OldA == {NoFile, File(1, <<>>), File(1, <<"x">>), File(1, <<"x", "y">>),
         File(1, <<"x", "y", "z">>)}
OldB == {NoFile, File(1, <<"y">>)}

NewA == {LiveFile(File(t, c), Len(c)) :
            t \in {1, 2}, c \in {<<>>, <<"x">>, <<"x", "z">>, <<"z", "y">>, <<"x", "y">>, <<"x", "z", "y">>}}

\* The last two change between lstat and the reads: one is cut to nothing, one
\* grows.
NewB == {LiveFile(File(t, c), Len(c)) : t \in {1, 2}, c \in {<<"y">>, <<"z">>}}
        \cup {LiveFile(File(2, <<>>), 1), LiveFile(File(2, <<"y", "z">>), 1)}

\* What is read is shorter than the base's content and begins like it.
Truncated(old, new) ==
    old.there /\ Len(new.chunks) < Len(old.chunks) /\ IsPrefix(new.chunks, old.chunks)

\* The base's info block was compressed and the new one is not.
LosesFlag(old, new) == Len(old.chunks) >= ZipLen /\ Len(new.chunks) < ZipLen

Steady(old, new) ==
    new.size > 0 => ~Truncated(old, new) /\ ~LosesFlag(old, new)

Kept ==
    {Scene(FirstArchive(a, b), na, nb) :
        <<a, b, na, nb>> \in {q \in OldA \X OldB \X NewA \X NewB :
            Steady(q[1], q[3]) /\ Steady(q[2], q[4])}}

\* A base whose entry for a says that its info block is compressed, and lies.
BadFlagArchive ==
    [FirstArchive(File(1, <<"x">>), File(1, <<"y">>)) EXCEPT !.list.a.comp = "C"]

BadFlag == {Scene(BadFlagArchive, na, nb) : na \in NewA, nb \in NewB}

MCScenes == Kept \cup {s \in BadFlag : s.live.b.chunks # <<>>}

ASSUME MCScenesAssumption ==
    \A s \in MCScenes : Unshared(s) /\ NoneCut(s) /\ FlagsStay(s)

\* a shrinks to one other chunk, whose info block is too short to compress.
MCFlagLost ==
    {Scene(FirstArchive(File(1, <<"x", "y">>), NoFile),
           LiveFile(File(2, <<"z">>), 1), Unchanged(File(1, <<"z">>)))}

\* a is cut where its second chunk began, before lstat or between it and the reads.
MCCut ==
    {Scene(FirstArchive(File(1, <<"x", "y">>), NoFile),
           LiveFile(File(2, <<"x">>), size), Unchanged(File(1, <<"z">>))) : size \in {1, 2}}

\* a and b were hard links to each other, and a has been written anew.
MCSplit ==
    {Scene(LinkedArchive(File(1, <<"x", "y">>)),
           LiveFile(File(2, <<"x", "z">>), 2), Unchanged(File(1, <<"x", "y">>)))}
=============================================================================
