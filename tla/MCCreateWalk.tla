---------------------------- MODULE MCCreateWalk ----------------------------
(* File trees for CreateWalk.tla.  No argument lies under another one: then *)
(* the walk lists names twice, and MCExtract.tla shows what comes of that. *)
EXTENDS CreateWalk, TLC

FileStat(kind, ino, nlink) == [kind |-> kind, dev |-> 1, ino |-> ino, nlink |-> nlink]

Dir(ino) == FileStat("dir", ino, 2)

\* A directory above the argument, the argument with a directory and names of
\* one file, and a file with a name outside of the tree.
Tree(i) ==
    <<"h">>           :> Dir(1) @@
    <<"h", "d">>      :> Dir(2) @@
    <<"h", "d", "a">> :> FileStat("file", i, 3) @@
    <<"h", "d", "b">> :> FileStat("file", i, 3) @@
    <<"h", "e">>      :> FileStat("file", i, 3) @@
    <<"h", "o">>      :> FileStat("fifo", 5, 2) @@
    <<"h", "s">>      :> FileStat("slink", 6, 1)

\* Three names of one file, under a directory and as an argument.
ThreeNames == [stat |-> Tree(3), base |-> <<>>, args |-> <<<<"h", "d">>, <<"h", "e">>, <<"h", "o">>>>]

\* Two of them, and two names of the file of that number on another device.
TwoDevices ==
    [stat |-> Tree(3) @@ <<"m">>      :> [Dir(1) EXCEPT !.dev = 2]
                      @@ <<"m", "a">> :> [FileStat("file", 3, 2) EXCEPT !.dev = 2]
                      @@ <<"m", "b">> :> [FileStat("file", 3, 2) EXCEPT !.dev = 2],
     base |-> <<>>, args |-> <<<<"h", "d">>, <<"m">>>>]

\* Both names there are of one file.
Pair == [stat |-> <<"p">> :> FileStat("file", 7, 2) @@ <<"q">> :> FileStat("file", 7, 2),
         base |-> <<>>, args |-> <<<<"q">>, <<"p">>>>]

\* An argument that is not there, and a device, which LiveFile refuses.
Gone  == [stat |-> Tree(3), base |-> <<>>, args |-> <<<<"h", "d">>, <<"h", "x">>>>]
Device == [stat |-> Tree(3) @@ <<"h", "d", "n">> :> FileStat("device", 9, 1),
           base |-> <<>>, args |-> <<<<"h", "d">>>>]

\* The second archive of the same arguments.
Again == [ThreeNames EXCEPT !.base = ThreeNames.args]

MCScenes == {ThreeNames, TwoDevices, Pair, Gone, Device, Again}

\* These scenes are among those that the theorems of CreateWalkProofs are about.
ASSUME MCScenesAssumption ==
    \A s \in MCScenes : ArgsApart(s) /\ BaseOfArgs(s) /\ KeysTell(s) /\ NumbersStay(s)

\* A second backup, of another directory than the first.
MCOtherArgs ==
    {[stat |-> <<"p">> :> Dir(1) @@ <<"q">> :> Dir(2), base |-> <<<<"p">>>>, args |-> <<<<"q">>>>]}

\* Two files with two names each, whose inode numbers differ above the bits that
\* are kept; INoMod is 8.
MCSameKey ==
    {[stat |-> <<"p">>      :> Dir(1)
            @@ <<"p", "a">> :> FileStat("file", 3, 2) @@ <<"p", "b">> :> FileStat("file", 3, 2)
            @@ <<"p", "c">> :> FileStat("file", 11, 2) @@ <<"p", "d">> :> FileStat("file", 11, 2),
      base |-> <<>>, args |-> <<<<"p">>>>]}
=============================================================================
