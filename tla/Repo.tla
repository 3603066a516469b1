-------------------------------- MODULE Repo --------------------------------
(***************************************************************************)
(* A repository over several runs of the program (src/PhatBak.cpp,         *)
(* src/RepoInfo.cpp, src/Create.cpp, src/Extract.cpp and the archive       *)
(* classes of src/Archive.cpp): commands that run one after another or at  *)
(* the same time, that may be killed between any two of their steps in the *)
(* file system, and a user who deletes archives.  What happens inside the  *)
(* backup of a file is CreateFile.tla; here a block stands for a file's    *)
(* info block with its chunks.                                             *)
(***************************************************************************)
EXTENDS Integers, FiniteSets, SequencesExt

CONSTANTS
    Procs,          \* 1..n, the commands in the order in which they start
    Files, Versions,
    Scenes,         \* the commands to run and the state of the repository
    Exposed,        \* whether others see an archive between the touch of
                    \* Finished and the close of its list, and a kill hits there
    MaxRunning,     \* how many commands run at the same time
    MaxKills, MaxDeletes, MaxChanges, MaxDamage,  \* bounds of the environment,
    MaxEvents       \* and of all of these together

\* Archive names: 0 is one the user gives, the others are times, in their order.
\* Each command starts in a second of its own.
Named == 0
Standard == Procs
Names == {Named} \cup Standard
NoName == -1

Lost == -1      \* the content of a file that cannot be restored
NoIdx == -1     \* the index of a line that is cut before it

Readers == {"extract", "test", "compare"}

ASSUME ProcsAssumption == IsFiniteSet(Procs) /\ Procs = 1..Cardinality(Procs)
ASSUME FilesAssumption == IsFiniteSet(Files)
ASSUME ExposedAssumption == Exposed \in BOOLEAN
\* So that none of them is Lost, and there is a first one.
ASSUME VersionsAssumption == Versions \subseteq Nat /\ Versions # {}
ASSUME ScenesAssumption ==
    \A s \in Scenes :
        /\ s.cmd \in [Procs -> [op : {"init", "create"} \cup Readers,
                                name : Names \cup {NoName}, rebase : BOOLEAN, after : Nat]]
        /\ \A p \in Procs :
              /\ s.cmd[p].after < p
              /\ s.cmd[p].op = "create" => s.cmd[p].name \in {Named, NoName}
        /\ s.repo \in {"none", "directory", "ready"}

VARIABLES
    cmd,        \* the commands: operation, name given (or NoName), --rebase, and
                \* how many of the first commands the user lets end before it
    proc,       \* each command's process
    repo,       \* the repository: "none", a directory, "ready" with its ID file
    arch,       \* the archive directories
    data,       \* the version in each block file (hard links share one)
    damaged,    \* the block files a faulty disk has changed
    target,     \* whether the directory to extract into exists
    live,       \* the files to back up
    deleting,   \* the archives the user is deleting
    env         \* how often the environment has acted

vars == <<cmd, proc, repo, arch, data, damaged, target, live, deleting, env>>

Line(f, v, i) == [file |-> f, ver |-> v, idx |-> i]

\* f with v at k.
Put(f, k, v) == [x \in DOMAIN f \cup {k} |-> IF x = k THEN v ELSE f[x]]

\* An archive's directory: which of its ID (with the options), List and Finished
\* files exist, the list (whole lines, and the start of one more; while a process
\* writes it, OnDisk says what it may be), and the block files by index.
NoArch == [dir |-> FALSE, files |-> {}, lines |-> <<>>, cut |-> <<>>, blocks |-> <<>>]

Idle == [pc |-> "idle", name |-> NoName, base |-> NoName, map |-> <<>>, todo |-> {},
         sent |-> <<>>, alloc |-> {}, used |-> {}, warned |-> FALSE, hit |-> FALSE,
         sure |-> FALSE, result |-> "none", why |-> "none"]

Init ==
    /\ \E s \in Scenes : cmd = s.cmd /\ repo = s.repo
    /\ proc = [p \in Procs |-> Idle]
    /\ arch = [n \in Names |-> NoArch]
    /\ data = <<>>
    /\ damaged = {}
    /\ target = FALSE
    /\ live = [f \in Files |-> CHOOSE v \in Versions : \A w \in Versions : v <= w]
    /\ deleting = {}
    /\ env = [kills |-> 0, deletes |-> 0, changes |-> 0, damage |-> 0]
-----------------------------------------------------------------------------
(* Processes. *)

At(p, where) == proc[p].pc = where
Running(p) == proc[p].pc \notin {"idle", "done"}
Goto(p, where) == proc' = [proc EXCEPT ![p].pc = where]

\* The process ends; of what it knew only what explains an error is kept.
End(p, result, why) ==
    proc' = [proc EXCEPT ![p] = [Idle EXCEPT !.pc = "done", !.result = result, !.why = why,
                !.warned = proc[p].warned,
                !.hit  = result = "error" /\ proc[p].hit,
                !.name = IF result = "error" THEN proc[p].name ELSE NoName]]

\* ERROR () and uncaught exceptions.
Fail(p, why) == End(p, "error", why)

\* An archive that has its Finished file while its list is still open.
Closing(n) == \E p \in Procs : At(p, "close") /\ proc[p].name = n
Hidden == ~Exposed /\ \E n \in Names : Closing(n)

\* Variant that takes any archive for finished.
LatestAny ==
    LET finished == {n \in Standard : "ID" \in arch[n].files}
    IN  CHOOSE n \in finished \cup {NoName} : \A m \in finished : m <= n

\* RepoInfo: the greatest name of the standard form with ID and Finished files.
Latest ==
    LET finished == {n \in Standard : {"ID", "Finished"} \subseteq arch[n].files}
    IN  CHOOSE n \in finished \cup {NoName} : \A m \in finished : m <= n

\* A command starts and looks at the repository.
Start(p) ==
    /\ At(p, "idle")
    /\ \A q \in Procs : q < p => ~At(q, "idle")
    /\ \A q \in 1..cmd[p].after : At(q, "done")
    /\ Cardinality({q \in Procs : Running(q)}) < MaxRunning
    /\ cmd[p].op = "create" /\ cmd[p].name # NoName =>
          \A q \in Procs : Running(q) /\ cmd[q].op = "create" => cmd[q].name # cmd[p].name
    /\ IF cmd[p].op # "init" /\ repo # "ready"
       THEN Fail(p, "repo")
       ELSE proc' = [proc EXCEPT ![p].pc = IF cmd[p].op = "init" THEN "mkrepo" ELSE "scan"]
    /\ UNCHANGED <<cmd, repo, arch, data, damaged, target, live, deleting, env>>

\* init: the directory, then its ID file.
MakeRepo(p) ==
    /\ At(p, "mkrepo")
    /\ repo' = IF repo = "none" THEN "directory" ELSE repo
    /\ Goto(p, "mkid")
    /\ UNCHANGED <<cmd, arch, data, damaged, target, live, deleting, env>>

MarkRepo(p) ==
    /\ At(p, "mkid")
    /\ repo' = "ready"
    /\ End(p, "ok", "none")
    /\ UNCHANGED <<cmd, arch, data, damaged, target, live, deleting, env>>

\* The end of RepoInfo, and the archive names that follow from it: create works
\* on a new archive with the latest as its base, the others on an old one.
Scan(p) ==
    /\ At(p, "scan")
    /\ ~Hidden
    /\ LET given == cmd[p].name
           base  == IF cmd[p].rebase THEN NoName ELSE Latest
           old   == IF given = NoName THEN Latest ELSE given
       IN  IF cmd[p].op = "create"
           THEN proc' = [proc EXCEPT ![p].name = IF given = NoName THEN p ELSE given,
                                     ![p].base = base,
                                     ![p].hit  = base \in deleting,
                                     ![p].pc   = IF base = NoName THEN "check" ELSE "open"]
           ELSE proc' = [proc EXCEPT ![p].name = old,
                                     ![p].base = old,
                                     ![p].hit  = old \in deleting,
                                     ![p].pc   = "open"]
    /\ UNCHANGED <<cmd, repo, arch, data, damaged, target, live, deleting, env>>
-----------------------------------------------------------------------------
(* Reading an archive: ArchiveRead, and ArchiveBase for the base of a backup. *)

Readable(n) == n # NoName /\ {"ID", "List"} \subseteq arch[n].files

\* What a stream that has been sent these lines may have written of them.
Parts(sent) ==
    UNION {{[lines |-> SubSeq(sent, 1, k), cut |-> cut] :
               cut \in {<<>>} \cup (IF k < Len(sent) THEN {<<sent[k + 1]>>} ELSE {})} :
           k \in 0..Len(sent)}

Writers(n) == {p \in Procs : proc[p].pc \in {"store", "close"} /\ proc[p].name = n}

OnDisk(n) ==
    IF Writers(n) = {} THEN {[lines |-> arch[n].lines, cut |-> arch[n].cut]}
    ELSE UNION {Parts(proc[p].sent) : p \in Writers(n)}

\* What a line may be read as when its end is not on the disk and it parses
\* (else OpenFails): a shorter number is another index (12 becomes 1), and a cut
\* before that leaves no index or another size or time as well.
Cuts(l) ==
    {[l EXCEPT !.idx = i] : i \in {NoIdx} \cup 0..l.idx - 1}
    \cup {[l EXCEPT !.idx = NoIdx, !.ver = Lost]}

\* The lines a reader of a list finds.
Listings(n) ==
    UNION {IF d.cut = <<>> THEN {ToSet(d.lines)}
           ELSE {ToSet(d.lines) \cup {l} : l \in Cuts(d.cut[1])} : d \in OnDisk(n)}

ByFile(lines) == [f \in {l.file : l \in lines} |-> CHOOSE l \in lines : l.file = f]

\* The archive or one of its files is missing, or its list does not parse.
OpenFails(p) ==
    /\ At(p, "open")
    /\ ~Hidden
    /\ Readable(proc[p].base) => \E d \in OnDisk(proc[p].base) : d.cut # <<>>
    /\ Fail(p, IF proc[p].base = NoName THEN "none" ELSE "base")
    /\ UNCHANGED <<cmd, repo, arch, data, damaged, target, live, deleting, env>>

Open(p) ==
    /\ At(p, "open")
    /\ ~Hidden
    /\ Readable(proc[p].base)
    /\ \E lines \in Listings(proc[p].base) :
          proc' = [proc EXCEPT ![p].map  = ByFile(lines),
                               ![p].todo = IF cmd[p].op = "create" THEN {} ELSE DOMAIN ByFile(lines),
                               ![p].sure = "Finished" \in arch[proc[p].base].files,
                               ![p].pc   = CASE cmd[p].op = "create"  -> "check"
                                             [] cmd[p].op = "extract" -> "target"
                                             [] OTHER -> "read"]
    /\ UNCHANGED <<cmd, repo, arch, data, damaged, target, live, deleting, env>>

\* Extract::DoExtract makes the directory to extract into, or refuses.
MakeTarget(p) ==
    /\ At(p, "target")
    /\ IF target THEN Fail(p, "target") ELSE Goto(p, "read")
    /\ target' = TRUE
    /\ UNCHANGED <<cmd, repo, arch, data, damaged, live, deleting, env>>

\* Variant that only remembers the warnings of the last job.
ReadLineLast(p, f) ==
    /\ At(p, "read") /\ f \in proc[p].todo
    /\ LET l      == proc[p].map[f]
           blocks == arch[proc[p].name].blocks
           other  == cmd[p].op = "compare" /\ f \in DOMAIN live /\ live[f] # l.ver
       IN  \E read \in IF other THEN BOOLEAN ELSE {TRUE} :
             LET block  == read /\ l.idx # NoIdx
                 rotten == block /\ l.idx \in DOMAIN blocks /\ blocks[l.idx] \in damaged
             IN  IF cmd[p].op = "compare" /\ f \notin DOMAIN live THEN Fail(p, "stat")
                 ELSE IF block /\ l.idx \notin DOMAIN blocks THEN Fail(p, "block")
                 ELSE IF rotten /\ cmd[p].op = "extract" THEN Fail(p, "hash")
                 ELSE proc' = [proc EXCEPT ![p].todo = @ \ {f},
                                           ![p].used = @ \cup {l.idx},
                                           ![p].warned = rotten \/ other]
    /\ UNCHANGED <<cmd, repo, arch, data, damaged, target, live, deleting, env>>

\* The job of one line of the list, in any order.  A block that is not there
\* stops the command; one with a wrong hash stops extract and is a warning of
\* test and compare; compare also looks at the live file, and only at that when
\* its size is another.
ReadLine(p, f) ==
    /\ At(p, "read") /\ f \in proc[p].todo
    /\ LET l      == proc[p].map[f]
           blocks == arch[proc[p].name].blocks
           other  == cmd[p].op = "compare" /\ f \in DOMAIN live /\ live[f] # l.ver
       IN  \E read \in IF other THEN BOOLEAN ELSE {TRUE} :
             LET block  == read /\ l.idx # NoIdx
                 rotten == block /\ l.idx \in DOMAIN blocks /\ blocks[l.idx] \in damaged
             IN  IF cmd[p].op = "compare" /\ f \notin DOMAIN live THEN Fail(p, "stat")
                 ELSE IF block /\ l.idx \notin DOMAIN blocks THEN Fail(p, "block")
                 ELSE IF rotten /\ cmd[p].op = "extract" THEN Fail(p, "hash")
                 ELSE proc' = [proc EXCEPT ![p].todo = @ \ {f},
                                           ![p].used = @ \cup {l.idx},
                                           ![p].warned = @ \/ rotten \/ other]
    /\ UNCHANGED <<cmd, repo, arch, data, damaged, target, live, deleting, env>>

\* All jobs are done.  Test goes through the block directories and stops at a
\* block that no line uses.
Verdict(p) ==
    /\ At(p, "read") /\ proc[p].todo = {}
    /\ IF cmd[p].op = "test" /\ ~(DOMAIN arch[proc[p].name].blocks \subseteq proc[p].used)
       THEN Fail(p, "unused")
       ELSE End(p, "ok", "none")
    /\ UNCHANGED <<cmd, repo, arch, data, damaged, target, live, deleting, env>>
-----------------------------------------------------------------------------
(* ArchiveCreate. *)

Own(p)  == arch[proc[p].name]
Base(p) == IF proc[p].base = NoName THEN NoArch ELSE arch[proc[p].base]
WithOwn(p, a) == arch' = [arch EXCEPT ![proc[p].name] = a]

\* The process ends with part of its list on the disk.
LeaveList(p) ==
    IF p \in Writers(proc[p].name)
    THEN \E d \in Parts(proc[p].sent) : WithOwn(p, [Own(p) EXCEPT !.lines = d.lines, !.cut = d.cut])
    ELSE UNCHANGED arch

Check(p) ==
    /\ At(p, "check")
    /\ IF Own(p).dir THEN Fail(p, "exists") ELSE Goto(p, "mkdir")
    /\ UNCHANGED <<cmd, repo, arch, data, damaged, target, live, deleting, env>>

\* The directory (CreateDir does not mind one that exists), then the ID and
\* options files and the directories for blocks.
MakeDir(p) ==
    /\ At(p, "mkdir")
    /\ WithOwn(p, [Own(p) EXCEPT !.dir = TRUE])
    /\ Goto(p, "mark")
    /\ UNCHANGED <<cmd, repo, data, damaged, target, live, deleting, env>>

Mark(p) ==
    /\ At(p, "mark")
    /\ WithOwn(p, [Own(p) EXCEPT !.files = @ \cup {"ID"}])
    /\ Goto(p, "list")
    /\ UNCHANGED <<cmd, repo, data, damaged, target, live, deleting, env>>

\* ReverseAlloc over the base's block directories, then the list, empty.  When
\* rm has taken these directories they cannot be read.
OpenList(p) ==
    /\ At(p, "list")
    /\ \/ /\ proc[p].base # NoName
          /\ ~Base(p).dir \/ (proc[p].base \in deleting /\ Base(p).blocks = <<>>)
          /\ Fail(p, "base")
          /\ UNCHANGED arch
       \/ /\ proc[p].base # NoName => Base(p).dir
          /\ WithOwn(p, [Own(p) EXCEPT !.files = @ \cup {"List"}, !.lines = <<>>, !.cut = <<>>])
          /\ proc' = [proc EXCEPT ![p].alloc = DOMAIN Base(p).blocks,
                                  ![p].todo  = DOMAIN live,
                                  ![p].pc    = "store"]
    /\ UNCHANGED <<cmd, repo, data, damaged, target, live, deleting, env>>

InBase(p, f) == f \in DOMAIN proc[p].map
BaseIdx(p, f) == proc[p].map[f].idx

\* Variant that takes every file that the base has for unchanged.
SameName(p, f) == InBase(p, f)

\* Same size and modification time as the base's entry.
Same(p, f) == InBase(p, f) /\ proc[p].map[f].ver = live[f]

\* What the task of f needs of the base: the old info block, free for the link
\* or allocated to be freed.
BaseServes(p, f) ==
    InBase(p, f) /\ BaseIdx(p, f) # NoIdx =>
        /\ BaseIdx(p, f) \in DOMAIN Base(p).blocks
        /\ IF Same(p, f) THEN BaseIdx(p, f) \notin DOMAIN Own(p).blocks
                         ELSE BaseIdx(p, f) \in proc[p].alloc

StoreFails(p, f) ==
    /\ At(p, "store") /\ f \in proc[p].todo
    /\ ~BaseServes(p, f)
    /\ Fail(p, "base")
    /\ LeaveList(p)
    /\ UNCHANGED <<cmd, repo, data, damaged, target, live, deleting, env>>

\* The line of f goes to the stream.
Push(p, f, idx, blocks, alloc) ==
    /\ WithOwn(p, [Own(p) EXCEPT !.blocks = blocks])
    /\ proc' = [proc EXCEPT ![p].sent = Append(@, Line(f, live[f], idx)),
                            ![p].alloc = alloc,
                            ![p].todo = @ \ {f}]

\* A file as it was: a hard link to the base's block.
LinkFile(p, f) ==
    /\ At(p, "store") /\ f \in proc[p].todo
    /\ Same(p, f) /\ BaseServes(p, f)
    /\ Push(p, f, BaseIdx(p, f),
            IF BaseIdx(p, f) = NoIdx THEN Own(p).blocks
            ELSE Put(Own(p).blocks, BaseIdx(p, f), Base(p).blocks[BaseIdx(p, f)]),
            proc[p].alloc)
    /\ UNCHANGED <<cmd, repo, data, damaged, target, live, deleting, env>>

LowestFree(S) == CHOOSE i \in 0..Cardinality(S) : i \notin S /\ 0..i - 1 \subseteq S

\* Variant that does not free the index of a changed file.
WriteFileKept(p, f) ==
    /\ At(p, "store") /\ f \in proc[p].todo
    /\ ~Same(p, f) /\ BaseServes(p, f)
    /\ LET kept  == proc[p].alloc
           idx   == LowestFree(kept)
           block == IF idx \in DOMAIN Own(p).blocks THEN Own(p).blocks[idx] ELSE <<p, f>>
       IN  /\ data' = Put(data, block, live[f])
           /\ Push(p, f, idx, Put(Own(p).blocks, idx, block), kept \cup {idx})
    /\ UNCHANGED <<cmd, repo, damaged, target, live, deleting, env>>

\* A new or changed file: free the base's index, take the lowest free one, write.
\* The write goes through a link that is there.
WriteFile(p, f) ==
    /\ At(p, "store") /\ f \in proc[p].todo
    /\ ~Same(p, f) /\ BaseServes(p, f)
    /\ LET kept  == IF InBase(p, f) THEN proc[p].alloc \ {BaseIdx(p, f)} ELSE proc[p].alloc
           idx   == LowestFree(kept)
           block == IF idx \in DOMAIN Own(p).blocks THEN Own(p).blocks[idx] ELSE <<p, f>>
       IN  /\ data' = Put(data, block, live[f])
           /\ Push(p, f, idx, Put(Own(p).blocks, idx, block), kept \cup {idx})
    /\ UNCHANGED <<cmd, repo, damaged, target, live, deleting, env>>

\* Variant of the destructor that does not wait for the tasks.
FinishEarly(p) ==
    /\ At(p, "store")
    /\ WithOwn(p, [Own(p) EXCEPT !.files = @ \cup {"Finished"}])
    /\ Goto(p, "close")
    /\ UNCHANGED <<cmd, repo, data, damaged, target, live, deleting, env>>

\* ~ArchiveCreate: all tasks are done, and the archive counts as finished.
Finish(p) ==
    /\ At(p, "store") /\ proc[p].todo = {}
    /\ WithOwn(p, [Own(p) EXCEPT !.files = @ \cup {"Finished"}])
    /\ Goto(p, "close")
    /\ UNCHANGED <<cmd, repo, data, damaged, target, live, deleting, env>>

\* ~Archive: the list is closed, and all of it on the disk.
Close(p) ==
    /\ At(p, "close")
    /\ WithOwn(p, [Own(p) EXCEPT !.lines = proc[p].sent, !.cut = <<>>])
    /\ End(p, "ok", "none")
    /\ UNCHANGED <<cmd, repo, data, damaged, target, live, deleting, env>>
-----------------------------------------------------------------------------
(* The environment: kills, the user who deletes archives (rm -r) and changes *)
(* files, and the disk.                                                      *)

Count(what, max) ==
    /\ env[what] < max
    /\ env.kills + env.deletes + env.changes + env.damage < MaxEvents
    /\ env' = [env EXCEPT ![what] = @ + 1]

Kill(p) ==
    /\ Running(p) /\ cmd[p].op \notin Readers
    /\ At(p, "close") => Exposed
    /\ Count("kills", MaxKills)
    /\ End(p, "killed", "none")
    /\ LeaveList(p)
    /\ UNCHANGED <<cmd, repo, data, damaged, target, live, deleting>>

\* Whether a command runs or is still to run, and can see what is deleted.
Watched == \E p \in Procs : ~At(p, "done")

\* Nobody deletes an archive in the making.
Delete(n) ==
    /\ Watched
    /\ arch[n].dir /\ n \notin deleting
    /\ \A p \in Procs : Running(p) /\ cmd[p].op = "create" => proc[p].name # n
    /\ Count("deletes", MaxDeletes)
    /\ deleting' = deleting \cup {n}
    /\ proc' = [p \in Procs |-> IF Running(p) /\ proc[p].base = n
                                THEN [proc[p] EXCEPT !.hit = TRUE] ELSE proc[p]]
    /\ UNCHANGED <<cmd, repo, arch, data, damaged, target, live>>

\* rm -r goes through the directory in any order.  Without the ID file nothing
\* looks at the list or at Finished, so that these go with it.
Unlink(n) ==
    /\ Watched
    /\ n \in deleting
    /\ \/ \E x \in arch[n].files :
            /\ arch' = [arch EXCEPT ![n].files = IF x = "ID" THEN {} ELSE @ \ {x}]
            /\ UNCHANGED deleting
       \/ \E i \in DOMAIN arch[n].blocks :
            /\ arch' = [arch EXCEPT ![n].blocks =
                          [j \in DOMAIN arch[n].blocks \ {i} |-> arch[n].blocks[j]]]
            /\ UNCHANGED deleting
       \/ /\ arch[n].files = {} /\ arch[n].blocks = <<>>
          /\ arch' = [arch EXCEPT ![n] = NoArch]
          /\ deleting' = deleting \ {n}
    /\ UNCHANGED <<cmd, proc, repo, data, damaged, target, live, env>>

\* Files change between backups; what happens when they change under one is the
\* matter of CreateFile.tla.
Change(f) ==
    /\ \A p \in Procs : Running(p) => cmd[p].op \notin {"create", "compare"}
    /\ \E p \in Procs : At(p, "idle") /\ cmd[p].op \in {"create", "compare"}
    /\ Count("changes", MaxChanges)
    /\ \/ \E v \in Versions : /\ f \in DOMAIN live => v # live[f]
                              /\ live' = Put(live, f, v)
       \/ f \in DOMAIN live /\ live' = [g \in DOMAIN live \ {f} |-> live[g]]
    /\ UNCHANGED <<cmd, proc, repo, arch, data, damaged, target, deleting>>

\* The contents of a chunk change on the disk, before a command that reads them.
Damage(b) ==
    /\ \A p \in Procs : Running(p) => cmd[p].op \notin Readers
    /\ \E p \in Procs : At(p, "idle") /\ cmd[p].op \in Readers
    /\ b \in DOMAIN data \ damaged
    /\ Count("damage", MaxDamage)
    /\ damaged' = damaged \cup {b}
    /\ UNCHANGED <<cmd, proc, repo, arch, data, target, live, deleting>>
-----------------------------------------------------------------------------
Command(p) ==
    \/ Start(p) \/ MakeRepo(p) \/ MarkRepo(p) \/ Scan(p)
    \/ OpenFails(p) \/ Open(p)
    \/ MakeTarget(p) \/ Verdict(p) \/ \E f \in Files : ReadLine(p, f)
    \/ Check(p) \/ MakeDir(p) \/ Mark(p) \/ OpenList(p)
    \/ \E f \in Files : StoreFails(p, f) \/ LinkFile(p, f) \/ WriteFile(p, f)
    \/ Finish(p) \/ Close(p)

Environment ==
    \/ \E p \in Procs : Kill(p)
    \/ \E n \in Names : Delete(n) \/ Unlink(n)
    \/ \E f \in Files : Change(f)
    \/ \E b \in Procs \X Files : Damage(b)

Next == (\E p \in Procs : Command(p)) \/ Environment

Spec == Init /\ [][Next]_vars
-----------------------------------------------------------------------------
\* Type invariant.  Block indexes stay below the number of files, however many
\* backups follow one another: a changed file's index is freed and used again.
TypeOK ==
    /\ repo \in {"none", "directory", "ready"}
    /\ \A n \in Names :
          /\ arch[n].files \subseteq {"ID", "List", "Finished"}
          /\ DOMAIN arch[n].blocks \subseteq 0..Cardinality(Files) - 1
          /\ ToSet(arch[n].blocks) \subseteq DOMAIN data
    /\ \A p \in Procs :
          /\ proc[p].result \in {"none", "ok", "error", "killed"}
          /\ proc[p].name \in Names \cup {NoName}
          /\ proc[p].base \in Names \cup {NoName}

\* An archive that counts: it is finished and closed, and not being deleted.
Committed(n) == "Finished" \in arch[n].files /\ ~Closing(n) /\ n \notin deleting

\* What extraction restores of an archive: for each line what its block holds.
Restored(n) ==
    [f \in DOMAIN ByFile(ToSet(arch[n].lines)) |->
        LET i == ByFile(ToSet(arch[n].lines))[f].idx
        IN  IF i \in DOMAIN arch[n].blocks THEN data[arch[n].blocks[i]] ELSE Lost]

Store == INSTANCE SnapshotStore
             WITH store <- [n \in {m \in Names : Committed(m)} |-> Restored(n)]

\* The commands implement the store: an archive appears at once, as a snapshot of
\* the files, and neither kills, nor other commands, nor the deletion of the
\* archives it shares blocks with change it (hard links, and the Finished file
\* that the next backup looks for).
ImplementsStore == Store!Spec

\* A backup fails only because the name the user gave is taken or the user deletes
\* its base: what a killed one leaves behind is not taken as a base (RepoInfo looks
\* for Finished) and is not in the way of the next.
FailsOnlyWithCause ==
    \A p \in Procs :
        cmd[p].op = "create" /\ proc[p].result = "error" =>
            \/ proc[p].why = "repo"
            \/ proc[p].why = "exists" /\ proc[p].name = Named
            \/ proc[p].why = "base" /\ proc[p].hit

\* The archive p reads is whole, its blocks are undamaged, and, for compare, the
\* files are the ones in it.
Sound(p) ==
    /\ ToSet(arch[proc[p].name].blocks) \cap damaged = {}
    /\ cmd[p].op = "compare" =>
          \A l \in ToSet(arch[proc[p].name].lines) : l.file \in DOMAIN live /\ live[l.file] = l.ver

\* Extract, test and compare of a finished archive end without an error and
\* without a warning exactly when there is nothing to report: no damage goes
\* unseen, and no backup leaves an archive that test complains about.
ReadersTell ==
    [][\A p \in Procs :
          /\ cmd[p].op \in Readers /\ Running(p) /\ proc[p].pc # "target"
          /\ proc'[p].pc = "done" /\ proc[p].sure /\ ~proc[p].hit
          => ((proc'[p].result = "ok" /\ ~proc'[p].warned) <=> Sound(p))]_vars

\* A backup that exits with 0 has made an archive that restores each file as it
\* was ("creates hard links to the base archive for any regular file whose size
\* and modification time matches the base", PhatBak.1:46).
SuccessMeansWhole ==
    [][\A p \in Procs, n \in Names :
          /\ cmd[p].op = "create" /\ Running(p) /\ proc[p].name = n
          /\ proc'[p].result = "ok"
          => (Restored(n))' = live]_vars
=============================================================================
