------------------------------- MODULE MCRepo -------------------------------
(* Three commands on two files. *)
EXTENDS Repo, TLC

CmdOn(op, n)   == [op |-> op, name |-> n, rebase |-> FALSE, after |-> 0]
Cmd(op)        == CmdOn(op, NoName)
Rebase         == [Cmd("create") EXCEPT !.rebase = TRUE]
After(n, c)    == [c EXCEPT !.after = n]
Scene(cmds)    == [cmd |-> cmds, repo |-> "ready"]

Backup == Cmd("create")

MCScenes == {
    [cmd |-> <<Cmd("init"), Backup, Backup>>, repo |-> "none"],
    Scene(<<Backup, After(1, Backup), After(1, Backup)>>),
    Scene(<<Backup, Rebase, Cmd("compare")>>),
    Scene(<<Backup, CmdOn("create", Named), CmdOn("create", Named)>>),
    Scene(<<CmdOn("create", Named), CmdOn("test", Named), CmdOn("test", Named)>>),
    Scene(<<Backup, Backup, Cmd("test")>>),
    Scene(<<Backup, Cmd("extract"), Cmd("extract")>>)}

MCCrash == {Scene(<<Backup, Backup>>)}

\* Nothing tells the files apart.
Symmetric == Permutations(Files)
=============================================================================
