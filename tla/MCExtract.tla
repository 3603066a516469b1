------------------------------ MODULE MCExtract ------------------------------
(* Archives for Extract.tla.  No name is listed twice but in MCTwice.         *)
EXTENDS Extract, TLC

Line(name, kind, finfo, chunks, closed) ==
    [name |-> name, kind |-> kind, finfo |-> finfo, chunks |-> chunks, closed |-> closed]

DirLine(name, closed) == Line(name, "dir", NoFInfo, 0, closed)

Scene(list, wanted, help) == [list |-> list, wanted |-> wanted, helpers |-> help]

\* Two names of one file of three chunks, in two directories.
Linked ==
    <<DirLine(<<"d">>, FALSE), Line(<<"d", "a">>, "file", 0, 3, FALSE),
      Line(<<"d", "e", "b">>, "file", 0, 3, FALSE), DirLine(<<"d", "e">>, FALSE)>>

\* Directories that end up closed, listed before and after what lies in them,
\* with two names of a fifo and an empty file.
Closed ==
    <<DirLine(<<"d", "e">>, TRUE), Line(<<"d", "e", "p">>, "fifo", -2, 0, FALSE),
      DirLine(<<"d">>, TRUE), Line(<<"d", "q">>, "fifo", -2, 0, FALSE),
      Line(<<"d", "z">>, "file", -3, 0, FALSE)>>

\* Two files and a symbolic link.
Files ==
    <<Line(<<"a">>, "file", 1, 2, FALSE), Line(<<"b">>, "file", 0, 4, FALSE),
      Line(<<"s">>, "slink", NoFInfo, 0, FALSE)>>

MCScenes ==
    {Scene(Linked, DOMAIN Linked, h) : h \in BOOLEAN}
    \cup {Scene(Linked, {3}, TRUE), Scene(Linked, {2, 3}, TRUE)}
    \cup {Scene(Closed, DOMAIN Closed, TRUE)}
    \cup {Scene(Files, DOMAIN Files, h) : h \in BOOLEAN}

ASSUME MCScenesAssumption == \A s \in MCScenes : IsArchive(s)

\* The list that CreateWalk.tla makes of the arguments d and d/a, when a has another
\* name elsewhere: the walk comes to a twice, the second time as to a further name
\* of the same inode (VisitNew, then VisitLink), and both tasks list it.
MCTwice ==
    {Scene(<<DirLine(<<"d">>, FALSE), Line(<<"d", "a">>, "file", 0, 1, FALSE),
             Line(<<"d", "a">>, "file", 0, 1, FALSE)>>, 1..3, FALSE)}
=============================================================================
