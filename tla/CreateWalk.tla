----------------------------- MODULE CreateWalk -----------------------------
(***************************************************************************)
(* The walk of the create command (src/Create.cpp) over the file arguments *)
(* and what lies under them, the tasks it hands out (ArchFileCreate::      *)
(* Create and CreateLink, src/Archive.cpp:819-858), and the inodes they    *)
(* share.  What Create stores of one file is CreateFile.tla; here its list *)
(* line stands for it.  The walk is the main thread; the tasks run in the  *)
(* pool and interleave freely with it and each other.                      *)
(***************************************************************************)
EXTENDS Integers, FiniteSets, SequencesExt, FilePaths

CONSTANTS
    INoMod,     \* 2^32 in the code: an inode number is kept in a u32
    DevMod,     \* 2^16 in the code: Dev () is a uint16_t
    Scenes      \* the file trees and commands to run

ASSUME ModAssumption == INoMod \in Nat \ {0} /\ DevMod \in Nat \ {0}

\* A scene gives the files there are, what lstat says of each, the arguments on
\* the command line, and those that the base archive was made with (<<>> when
\* there is no base).
Stats == [kind : STRING, dev : Nat, ino : Nat, nlink : Nat]

\* Files form a tree: what is above a file is there, and is a directory.
IsTree(stat) ==
    \A n \in DOMAIN stat \ {<<>>} : \A p \in Prefixes(Front(n)) :
        /\ p \in DOMAIN stat \cup {<<>>}
        /\ p \in DOMAIN stat => stat[p].kind = "dir"

IsScene(s) ==
    /\ IsFiniteSet(DOMAIN s.stat) /\ DOMAIN s.stat \subseteq Path
    /\ s.stat \in [DOMAIN s.stat -> Stats]
    /\ IsTree(s.stat)
    /\ s.args \in Seq(Path) /\ s.base \in Seq(Path)

ASSUME ScenesAssumption == \A s \in Scenes : IsScene(s)

VARIABLES
    scene,
    todo,       \* the DoCreate calls to come, with their Recurse
    tasks,      \* the tasks handed out so far, in order
    inodes,     \* map Inodes: what is known of each device and inode number
    lines,      \* the list file: for each name, whose entry its lines repeat
    phase,      \* how far the command has come
    failed      \* an exception ended the program

vars == <<scene, todo, tasks, inodes, lines, phase, failed>>

Paths == DOMAIN scene.stat
Stat(n) == scene.stat[n]

\* LF->INode () is 0 for what cannot have other names.
Linked(stat) == {n \in DOMAIN stat : stat[n].kind \notin {"dir", "slink"} /\ stat[n].nlink >= 2}
Linkable(n) == n \in Linked(scene.stat)

\* Variant off by one in the number of names.
INodeNumOffByOne(n) == IF Linkable(n) /\ Stat(n).nlink > 2 THEN Stat(n).ino % INoMod ELSE 0

\* INode () as DoCreate keeps it, in a u32.
INodeNum(n) == IF Linkable(n) THEN Stat(n).ino % INoMod ELSE 0

\* Variant without the device.
KeyWithoutDev(n) == <<0, INodeNum(n)>>

Key(n) == <<Stat(n).dev % DevMod, INodeNum(n)>>

\* Variant that keeps every file in Inodes.
TrackedAlways(n) == Stat(n).nlink > 0

Tracked(n) == INodeNum(n) # 0

Subs(n) == {m \in Paths : m # <<>> /\ Front(m) = n}

Todo(n, recurse) == [name |-> n, recurse |-> recurse]
Task(do, n, key) == [do |-> do, name |-> n, key |-> key, st |-> "ready"]
Inode(n) == [first |-> n, complete |-> FALSE, links |-> <<>>]

\* The directories above the arguments, each once.
Roots(args) == UNION {Prefixes(Front(a)) \ {<<>>} : a \in Range(args) \ {<<>>}}

\* They are archived in the order of their names: each after those it lies in.
TopDown(dirs) == \A i, j \in DOMAIN dirs : i < j => ~IsStrictPrefix(dirs[j], dirs[i])

\* O.FileArgs in DoCreate: the constructor of ArchiveBase reads the options of
\* the base archive over the global ones (ParseOptions).
FileArgs == IF scene.base # <<>> THEN scene.base ELSE scene.args

Init ==
    /\ scene \in Scenes
    /\ \E roots \in SetToSeqs(Roots(FileArgs)) :
          /\ TopDown(roots)
          /\ todo = [i \in DOMAIN roots |-> Todo(roots[i], FALSE)]
                    \o [i \in DOMAIN FileArgs |-> Todo(FileArgs[i], TRUE)]
    /\ tasks = <<>>
    /\ inodes = <<>>
    /\ lines = [n \in DOMAIN scene.stat |-> <<>>]
    /\ phase = "walk"
    /\ failed = FALSE
-----------------------------------------------------------------------------
(* DoCreate of one name, in the main thread. *)

Name == Head(todo).name

\* The name is gone, or a kind of file that LiveFile does not know.
VisitFails ==
    /\ ~failed /\ phase = "walk" /\ todo # <<>>
    /\ Name \in Paths => Stat(Name).kind = "device"
    /\ failed' = TRUE
    /\ UNCHANGED <<scene, todo, tasks, inodes, lines, phase>>

Visits == ~failed /\ phase = "walk" /\ todo # <<>> /\ Name \in Paths /\ Stat(Name).kind # "device"

\* Its device and inode number have been seen before: a link, and no recursion.
VisitLink ==
    /\ Visits
    /\ Tracked(Name) /\ Key(Name) \in DOMAIN inodes
    /\ tasks' = Append(tasks, Task("link", Name, Key(Name)))
    /\ todo' = Tail(todo)
    /\ UNCHANGED <<scene, inodes, lines, phase, failed>>

\* Inodes once it has the first name of a file, n.
WithInode(n) ==
    [k \in DOMAIN inodes \cup {Key(n)} |-> IF k = Key(n) THEN Inode(n) ELSE inodes[k]]

\* Anything else: a file of its own, then what is below it, in the order in
\* which the directory lists it.
VisitNew ==
    /\ Visits
    /\ Tracked(Name) => Key(Name) \notin DOMAIN inodes
    /\ inodes' = IF Tracked(Name) THEN WithInode(Name) ELSE inodes
    /\ tasks' = Append(tasks, Task("create", Name, Key(Name)))
    /\ \E subs \in SetToSeqs(IF Head(todo).recurse THEN Subs(Name) ELSE {}) :
          todo' = [i \in DOMAIN subs |-> Todo(subs[i], TRUE)] \o Tail(todo)
    /\ UNCHANGED <<scene, lines, phase, failed>>
-----------------------------------------------------------------------------
(* The tasks. *)

At(i, do, st) == ~failed /\ tasks[i].do = do /\ tasks[i].st = st
Goto(i, st) == tasks' = [tasks EXCEPT ![i].st = st]

AddLine(n, entry) == lines' = [lines EXCEPT ![n] = Append(@, entry)]

HasInode(t) == t.key[2] # 0

\* Create up to its PushListEntry.
CreatePush(i) ==
    /\ At(i, "create", "ready")
    /\ AddLine(tasks[i].name, tasks[i].name)
    /\ Goto(i, IF HasInode(tasks[i]) THEN "complete" ELSE "done")
    /\ UNCHANGED <<scene, todo, inodes, phase, failed>>

\* The rest of Create, under the inode's mutex: its entry is known, and the
\* links that waited for it are listed.
CreateComplete(i) ==
    /\ At(i, "create", "complete")
    /\ LET inode == inodes[tasks[i].key]
           waiting(n) == Cardinality({j \in DOMAIN inode.links : inode.links[j] = n})
       IN  /\ inodes' = [inodes EXCEPT ![tasks[i].key].complete = TRUE,
                                       ![tasks[i].key].links = <<>>]
           /\ lines' = [n \in Paths |->
                           lines[n] \o [j \in 1..waiting(n) |-> tasks[i].name]]
    /\ Goto(i, "done")
    /\ UNCHANGED <<scene, todo, phase, failed>>

\* CreateLink before the first name is complete: wait in the inode's list.
LinkWaits(i) ==
    /\ At(i, "link", "ready")
    /\ ~inodes[tasks[i].key].complete
    /\ inodes' = [inodes EXCEPT ![tasks[i].key].links = Append(@, tasks[i].name)]
    /\ Goto(i, "done")
    /\ UNCHANGED <<scene, todo, lines, phase, failed>>

\* CreateLink after: the mutex is released before the line is written.
LinkReady(i) ==
    /\ At(i, "link", "ready")
    /\ inodes[tasks[i].key].complete
    /\ Goto(i, "push")
    /\ UNCHANGED <<scene, todo, inodes, lines, phase, failed>>

LinkPush(i) ==
    /\ At(i, "link", "push")
    /\ AddLine(tasks[i].name, inodes[tasks[i].key].first)
    /\ Goto(i, "done")
    /\ UNCHANGED <<scene, todo, inodes, phase, failed>>
-----------------------------------------------------------------------------
(* The end of DoCreate, and the destructors of Create and ArchiveCreate. *)

Idle == \A i \in DOMAIN tasks : tasks[i].st = "done"

\* Variant without ThreadPool.WaitIdle.
WaitNot ==
    /\ ~failed /\ phase = "walk" /\ todo = <<>>
    /\ phase' = "idle"
    /\ UNCHANGED <<scene, todo, tasks, inodes, lines, failed>>

WaitIdle ==
    /\ ~failed /\ phase = "walk" /\ todo = <<>>
    /\ Idle
    /\ phase' = "idle"
    /\ UNCHANGED <<scene, todo, tasks, inodes, lines, failed>>

DeleteInodes ==
    /\ ~failed /\ phase = "idle"
    /\ inodes' = <<>>
    /\ phase' = "deleted"
    /\ UNCHANGED <<scene, todo, tasks, lines, failed>>

\* WaitIdle again, and the file that says that the archive is whole.
Finish ==
    /\ ~failed /\ phase = "deleted"
    /\ Idle
    /\ phase' = "finished"
    /\ UNCHANGED <<scene, todo, tasks, inodes, lines, failed>>
-----------------------------------------------------------------------------
\* Variant in which CreateLink tests Complete before it takes the mutex.
TaskStepUnlocked(i) ==
    \/ CreatePush(i) \/ CreateComplete(i) \/ LinkReady(i) \/ LinkPush(i)
    \/ /\ At(i, "link", "ready") /\ ~inodes[tasks[i].key].complete
       /\ Goto(i, "late")
       /\ UNCHANGED <<scene, todo, inodes, lines, phase, failed>>
    \/ /\ At(i, "link", "late")
       /\ inodes' = [inodes EXCEPT ![tasks[i].key].links = Append(@, tasks[i].name)]
       /\ Goto(i, "done")
       /\ UNCHANGED <<scene, todo, lines, phase, failed>>

TaskStep(i) ==
    CreatePush(i) \/ CreateComplete(i) \/ LinkWaits(i) \/ LinkReady(i) \/ LinkPush(i)

Main == VisitFails \/ VisitLink \/ VisitNew \/ WaitIdle \/ DeleteInodes \/ Finish

Next == Main \/ \E i \in DOMAIN tasks : TaskStep(i)

Spec == Init /\ [][Next]_vars
-----------------------------------------------------------------------------
SameFile(m, n) == Stat(m).dev = Stat(n).dev /\ Stat(m).ino = Stat(n).ino

\* What the command is asked to archive: the arguments, what lies under them,
\* and the directories above them.
Asked ==
    {n \in Paths : n \in Roots(scene.args) \/ \E a \in Range(scene.args) : IsPrefix(a, n)}

\* No argument names what lies under another one or is another one.
ArgsApart(s) ==
    \A i, j \in DOMAIN s.args : IsPrefix(s.args[i], s.args[j]) => i = j

\* The base archive was made of the same arguments.
BaseOfArgs(s) == s.base \in {<<>>, s.args}

\* No two files have one number and device, once both are cut to their types.
KeysTell(s) ==
    \A m, n \in Linked(s.stat) :
        /\ s.stat[m].dev % DevMod = s.stat[n].dev % DevMod
        /\ s.stat[m].ino % INoMod = s.stat[n].ino % INoMod
        => s.stat[m].dev = s.stat[n].dev /\ s.stat[m].ino = s.stat[n].ino

\* No number is cut to 0, which stands for a file with one name, and lstat says
\* one thing of all the names of a file.
NumbersStay(s) ==
    \A m \in Linked(s.stat) : \A n \in DOMAIN s.stat :
        /\ s.stat[m].ino % INoMod # 0
        /\ s.stat[m].dev = s.stat[n].dev /\ s.stat[m].ino = s.stat[n].ino
              => s.stat[m] = s.stat[n]

\* Type invariant: the walk calls for arguments, their roots and what directories
\* hold, and the inodes are kept under what the key's types can hold.
TypeOK ==
    /\ todo \in Seq([name : Paths \cup Range(FileArgs) \cup Roots(FileArgs), recurse : BOOLEAN])
    /\ lines \in [Paths -> Seq(Paths)]
    /\ \A k \in DOMAIN inodes :
          /\ k \in (0..DevMod - 1) \X (1..INoMod - 1)
          /\ inodes[k].first \in Paths /\ inodes[k].links \in Seq(Paths)
    /\ phase \in {"walk", "idle", "deleted", "finished"}

\* A finished archive lists every name it was asked for, once: no link that
\* came while the first name was being archived is forgotten, none is listed
\* both by its own task and by the first name's.
ListedOnce ==
    phase = "finished" =>
        \A n \in Paths : Len(lines[n]) = IF n \in Asked THEN 1 ELSE 0

\* Names that repeat an entry are names of one file, so that extraction makes
\* them hard links ("this dev/inode combo has been seen before",
\* Create.cpp:111).
LinksAreOfOneFile ==
    \A n \in Paths : \A i \in DOMAIN lines[n] : SameFile(lines[n][i], n)

\* And all the names of a file that the archive holds repeat one entry.
OneEntryPerFile ==
    phase = "finished" =>
        \A m, n \in Asked : Linkable(m) /\ SameFile(m, n) => lines[m] = lines[n]

\* The inodes that ~Create deletes are not in use: each task that has not
\* finished still finds the inode it was given.
InodesOutliveTasks ==
    \A i \in DOMAIN tasks :
        tasks[i].st # "done" /\ HasInode(tasks[i]) => tasks[i].key \in DOMAIN inodes
=============================================================================
