# PhatBak in TLA+

PhatBak backs up directory trees into archives that share unchanged data with
the archive before them through hard links. It is multi-threaded, one process
per command. This directory holds TLA+ models of its code, the TLC runs that
check them and the theorems that TLAPS proves about them. Paths such as
`Archive.cpp:736` are relative to the source directory.

Contents: 1 the system; 2 the modules and the code; 3 the runs; 4 the proofs;
5 what disagrees with the code's own words; 6 what is not modelled; 7 the plan.

## 1. The system

### Components, their state and their operations

| Component | State | Operations | What makes it correct |
|---|---|---|---|
| Block allocator (`BlockList.cpp`) | the vector `Ranges` of allocated index ranges, under a mutex | `Alloc`, `Free`, `MarkAllocated`, `IsAllocated`, `CountAllocated`, `Search` | it is a set of indexes; `Alloc` gives the lowest free one; the ranges stay sorted, disjoint and apart |
| Block directories (`BlockList.cpp:215-301`) | one file per index below `Chunks/` and `FInfo/` | `Link`, `SpitBlock`, `SpitNewBlock`, `SlurpBlock`, `ReverseAlloc` | an index is written once; a base archive never changes |
| Thread pool (`ThreadPool.cpp`) | `All`, `Avail`, `AllocWaiting`, `BusyLocksWaiting`, a `JobCtrl` per worker | `Execute`, `AllocThread`, `ReleaseThread`, `WaitIdle`, `JoinAll` | each task runs once; `WaitIdle` means done; no deadlock; all threads quit |
| Busy locks (`BusyLock.h`) | a flag, a mutex, a condition variable | `WaitIdle`, `WaitBusy`, `PostIdle`, `PostBusy`, `Notify` | no lost wake-up |
| Create: the walk (`Create.cpp`) | the map `Inodes`, one `InodeInfo` per device and inode number | `DoCreate`, `~Create` | each name listed once; the names of one file share one entry |
| Create: one file (`Archive.cpp:616-860`) | list entry, chunk jobs, their results | `Create`, `CreateLink`, `HashAndCompressJob`, `PushListEntry` | the archive restores what was read; only what it lists is stored |
| Extract (`Archive.cpp:158-241`, `LiveFile.cpp`) | `HLinkSyncs`, `DirAttribs`, a lock per chunk, the tree it makes | `DoExtractJob`, `LiveFile`, `ExtractChunkJob`, `DoExtract` | chunks in order; hard links, times and modes as archived |
| Test, compare, list (`Archive.cpp:243-450`) | maps of used and found blocks | `DoTest`, `DoCompare`, `DoList` | every error is reported, and none of a sound archive |
| Repository (`RepoInfo.cpp`, `PhatBak.cpp`, `Archive.cpp:15-45, 453-529`) | the directories of the archives with their ID, options, list, blocks and `Finished` file | `init`, `create`, `extract`, `test`, `compare`, `latest`; deletion by the user | an archive that counts is whole, and stays so whatever happens to the others; the base is such an archive |
| Options, compression, hashes, utilities, logging | the global `O` | parsing, libzstd, libmhash, system calls | sequential |

### How they interact

`main` makes the pool's workers and runs one command. **Create** reads the base
archive's list and options, marks all of the base's block indexes as allocated
in the new archive's two block lists, and walks the arguments in the main
thread. For each name it submits a task to the pool: `Create`, or `CreateLink`
for a further name of a file it has met. `Create` submits a job per chunk and
collects the results in order. A chunk whose hash is that of the base's chunk
becomes a hard link; any other frees the base's index, allocates the lowest
free one and writes it. The info block of the file (its list of chunks) is
linked or written the same way. The line of the file goes to the list. **Extract**
submits a task per line; the first line of an info block makes the file, with
a helper task per chunk but the last, and the others wait on a busy lock and
make hard links. Attributes of directories are set by the main thread at the
end. **Test** and **compare** submit read-only tasks.

The shared state is thus the pool's vectors and counters, the block lists, the
block files (shared through hard links with the base archive), the inode
records, the list file, and in extraction the hard-link records, the chunk
locks and the extracted tree.

### What is hard about it

- A task waits on locks that other tasks of the same pool post, and may be run
  in place by the thread that submits it. The escape from a deadlock is a count
  of waiters, with two mutexes, two condition variables and one of them unused.
- The indexes of one block list are freed, allocated, linked and written by jobs
  of many files in any order, and a write through a hard link changes the base.
- The file system moves: a file is another one at `lstat`, at its reads, at the
  base's time.
- Names of one file meet in the pool: link before, during and after the first.
- Shutdown, exceptions in workers, and a process that dies between two files.

The hazards, each at its line with the properties that look after it, are in
`PROJECT.json`.

## 2. The modules and the code

```
RangeList   <- BlockList   --implements--> BlockSet      BlockListProofs
            <- BlockSearch                               BlockSearchProofs
ThreadPool      (every command as a workload)            ThreadPoolProofs
CreateFile      (one file, tasks of many)                CreateFileProofs
FilePaths   <- CreateWalk -> CreateFile                  CreateWalkProofs
            <- Extract                                   FilePathProofs, ExtractProofs
Repo        --implements--> SnapshotStore                RepoProofs
```

(`CreateWalk -> CreateFile`: a line of the list in the first stands for what the second
makes of one file.)

`MC*.tla` give the constants of a run; `*Proofs.tla` hold theorems.

**RangeList, BlockList, BlockSet.** `Ranges` is the code's vector, counted from
1. Every public call is one action, because the class holds its mutex for all of
a call; its branches are the disjuncts (`AllocNewFirst`, `AllocLowEnd`,
`AllocHighEnd`; `FreeAllocated`, `FreeInGap`, `FreeBelowAll`; `MarkExtend`,
`MarkInsert`, `MarkAgain`). `last` records a call and how it ended: normally,
with the exception, with the exception for a corrupted list, by a failed assert,
or, in `Free` below all ranges, either the exception or a crash, because the code
copies `Ranges[-1]` first. `Search` is used by its meaning in `BlockList`;
`BlockSearch` is one call of the recursive search, one action per level.
`BlockSet` says what callers may assume: a set, the lowest free index, and no
change by a call that fails.

**ThreadPool.** Threads are `0..N`, 0 the main thread. A command is a workload:
for each task the list of pool and lock calls it makes, taken from the code of
that command. `stack[t]` is the nest of tasks a thread runs (an `Execute` without
a worker runs its task in place). A critical section is one action. The wait of
`AllocThread` and of `WaitIdle` on `ThreadPool.CV` is left only when the code
notifies it (`asleep`), and the condition is tested again then. Of a worker's
`WaitBusy` the test and the sleep are two steps (`WaitBusyTest`, `FallAsleep`)
with the mutex held between them, since `JoinAll` notifies without it. A task's
wait on a busy lock is `LockEnter`, then `LockSleep` or `LockLeave`; a post wakes the
sleepers, the setting of `StopThreads` only lets those pass that come to the test
later. `Throw` is an exception: its handler calls `exit` in the thread that threw,
which runs `JoinAll` (`Stop`, `NotifyJob`, `JoinJob`) while the others go on, and
ends in `JoinSelf` when a worker comes to itself. Spurious wake-ups are left out:
they would only repair what is lost.

**CreateFile.** `StartEmpty`, `StartRead`, `StartLink`, `StartFails` are the
branches of `Create` up to the chunks; `LinkNext` its loop over the base's chunks;
`KeepChunk`, `FreeChunk`, `AllocChunk`, `WriteChunk` the steps of
`HashAndCompressJob` that touch shared state, separate because other jobs run
between them. `CheckReturns` takes the job at the front of the queue `Returns`, once it
is done, and adds its line to `FInfo`: of the jobs of a file those behind the lines so far
are in the queue. `KeepFInfo`, `FreeFInfo`, `AllocFInfo`, `WriteFInfo`,
`PushListEntry` are the end of `Create`. Block files are `own` (only in the new
archive), `linked` (hard links into the base) and `base`; a write to a linked
index goes to `base`. Data is a set of values with a hash and a mark for those
that compress. `Restores` reads the archive as extraction does.

**CreateWalk.** The walk is the `todo` list of `DoCreate` calls: `VisitLink`,
`VisitNew`, `VisitFails`. A directory lists its entries in any order. The tasks
are `CreatePush` and `CreateComplete` (`Create` before and in the inode's mutex),
`LinkWaits` and `LinkReady` (`CreateLink` in the mutex) and `LinkPush` (after it).
`DeleteInodes` and `Finish` are the destructors. The roots, which `DoCreate` lists without
what is in them, are a set that is called from the top down. `FileArgs` is the base's when
there is a base, as the code has it. Inode and device numbers are taken modulo
`INoMod` and `DevMod`, the widths of the code's variables.

**Extract.** A job goes through `Register` (in the mutex of `HLinkSyncs`), then
`MakeHardLink`, or `MakeDir`, `MakeOther`, or `OpenFile`, its loop over the chunks
(`StartChunk`, `NextChunk`, `EndLoop`), the deletion of the locks (`DeleteLock`),
`CloseFile`, `SetAttributes` and `Post`. `WriteChunk` and `EndChunk` are
`ExtractChunkJob`. The main thread: `Read`, `WaitIdle`, `SetDirAttributes`, `End`.
The extracted tree maps a path to the line that made it, its time and whether its
mode closes it; making something sets the time of its directory.

**SnapshotStore, Repo.** `SnapshotStore` is what a user counts on: the files there
are (`live`) and a map from archive names to contents, to which a backup adds one
snapshot at once, and from which only the user takes one. `Repo` has the commands as
processes of the operating system, with one action per step that others, or a kill,
can come between: `Start` (`RepoInfo`'s tests), `MakeRepo`, `MarkRepo` (init), `Scan`
(the latest archive, and the names that follow), `Open` and `OpenFails`
(`ArchiveRead` and the list), then for create `Check`, `MakeDir`, `Mark`, `OpenList`
(the constructor of `ArchiveCreate`), `LinkFile`, `WriteFile`, `StoreFails` per file,
`Finish` and `Close` (the two destructors); for the others `MakeTarget`, `ReadLine` per
line, and `Verdict`. The environment kills (`Kill`), deletes archives file by file
(`Delete`, `Unlink`), changes files and damages blocks. A block has an identity that
hard links share (`data` holds its contents), so that a write through a link would
be seen. The list is what has been sent to its stream; what of it is on the disk
(`OnDisk`) is any beginning, the last line cut anywhere (`Cuts`) until `Close`. A block
stands for the info block of a file with its chunks, which `CreateFile` has apart.
The refinement mapping takes as the store the archives that are finished, closed
and not being deleted, with what extraction restores of each.

In `CreateFile`, `CreateWalk` and `Extract` tasks interleave freely. That allows
at least what the pool does: where the pool runs a task in place the submitter
just stands still.

## 3. The runs

| Run | Bounds | What it shows |
|---|---|---|
| `block_list` | indexes 0..6 | every sequence of calls; six indexes give three ranges apart, each able to shrink, split and merge |
| `block_search` | lists over 0..7, all indexes | lists of up to four ranges: every shape of the recursion, three levels deep |
| `thread_pool` | 3 workers; a create, a test and an extract workload, and three in which a chunk job or main throws | with two workers `AllocThread` never sleeps, as `AllocWaiting + 1` reaches 2; three is the least that has the wait. After a throw, that main never goes on |
| `hard_link_stall` | 3 workers, 3 names of one file | see section 5 |
| `pool_shutdown` | 2 workers, no task | see section 5 |
| `create_file` | 2 files; bases of up to 3 and 1 chunks; live files of up to 3 | every pair of (base, live) in which the base's info block survives or not, chunks kept, changed, added and removed, files that change while being read, and a base that cannot be read |
| `create_flag_lost`, `create_split` | one scene each | see section 5 |
| `create_walk` | six scenes, up to three names of one file, two devices | links before, while and after the first name is archived; names that vanish; unknown kinds |
| `extract` | lists of up to five lines, files of up to four chunks, with and without helpers | two names of a file and of a fifo, directories that close, only some of the lines wanted |
| `repo` | three commands in seven scenes, two at a time; two files of two versions; two events of the environment, one of a kind | a base, a backup on it, and one that comes at the same time or after a kill, a deletion or damage: every file kept, changed, added, gone; three backups make a base that links to a base |
| `repo_unclosed` | two backups, a kill | see section 5 |

Properties, besides one type invariant each:

- *Allocator.* `Normalized`, `NeverCorrupted`, `CountAgrees` (the count is that of
  the set) and `ImplementsSet` (refinement of `BlockSet`). *Search.*
  `SearchCorrect`, `Terminates`.
- *Pool.* `EachTaskInOnePlace` (no task lost or doubled on its way from submitter to
  worker), `AvailableIsFree` (a worker in `Avail` is through with its last job),
  `CountersExact` (what the deadlock escape adds up), `IdleMeansDone`, `Finishes`.
- *One file.* `Restorable`, `BaseUntouched`, `NoBlockUnused` (the check of
  `DoTest`), `ThrowsOnlyOnBadBase` (no index freed or linked twice),
  `BlocksWrittenOnce`, `AllListed`. That the queue of results is emptied from its front
  is what `Restorable` needs of `CheckReturns`: the run's mutant takes any job that is done.
- *Walk.* `ListedOnce`, `LinksAreOfOneFile`, `OneEntryPerFile`, `InodesOutliveTasks`.
- *Extract.* `WrittenInOrder`, `NoDeletedLock`, `HardLinksRestored`, `TimesRestored`,
  `NeverFails`, `ExtractionEnds`.
- *Repository.* `ImplementsStore` (refinement of `SnapshotStore`),
  `FailsOnlyWithCause` (what a killed backup leaves is neither a base nor in the way),
  `ReadersTell` (extract, test and compare end without an error or a warning exactly
  when the archive is sound), `SuccessMeansWhole` (a backup that ends with success has
  made an archive that restores each file).

**What the scenes leave out, by name.** `create_file` holds for bases in which
every block belongs to one name (the archive that `-T 0` writes), for files that
are not a beginning of their base version, and for files whose info block does
not stop being compressed: the three exceptions are in section 5, and
`Steady` and `FirstArchive` in `MCCreateFile.tla` say so, in terms of versions of a file; as
hypotheses of theorems they are `Unshared`, `NoneCut` and `FlagsStay` of `CreateFile.tla`. `create_walk` has no
argument below or above another (such a walk lists names twice), no base of
other arguments, and no two inode numbers that agree in the bits kept (`ArgsApart`,
`BaseOfArgs`, `KeysTell`). `extract` has no
list with a name twice (`IsArchive`), which fails for symbolic links and hard links.
The runs and theorems say nothing of these cases; section 5 says what happens in them.
`repo` has no look at an archive, and no kill, between the touch of `Finished` and
the close of the list (`Exposed`; section 5). Each command starts in a second of its
own, backups of one name do not overlap (`Start`; section 6), and the name that a user gives a backup is
not a time, which could be the name of another backup (`ScenesAssumption`). Nobody deletes an archive in
the making; files change only while no backup or comparison runs, as `CreateFile` is
about those that change meanwhile; damage is to the bytes of a chunk, and happens
while nobody reads. All backups are of the same arguments. `rm` takes list and
`Finished` together with the ID file when that comes first, as nothing looks at them
without it.

**Fairness.** `BlockSearch`: the call goes on. `ThreadPool`: weak fairness of each
thread, the scheduler of the operating system. `CreateFile` and `Extract`: weak
fairness of each file's or line's task and of its chunk jobs, since the pool runs
what it is given; `Finishes` of `thread_pool` is the ground for this, and the one
case where it does not hold is `hard_link_stall`. `CreateWalk` has no liveness
property and no fairness, nor has `Repo`. No fairness is assumed of callers. `repo`
is checked up to the symmetry of its two files, which nothing tells apart.

**Deadlock** is not checked: all models are of a program that ends, and what must
be reached is stated as `Finishes`, `AllThreadsQuit`, `AllListed` or `ExtractionEnds`. `failed` stands for an
exception: its handler exits the process.

## 4. The proofs

`tlapm` checks these for every value of the constants.

- `NormalTheorem` (`BlockListProofs`): `Spec => [](TypeOK /\ Normalized)`.
  `Normalized` and `TypeOK` are together inductive: each operation changes one
  range, inserts one or removes one, and lemmas about `InsertAt` and `RemoveAt`
  (`ReplaceLemma`, `InsertLemma`, `RemoveLemma`) say when a list stays normal and
  which indexes it then stands for. `SearchLemma` gives what an operation knows of
  the range it has found.
- `NeverCorruptedTheorem`: the exception for a corrupted list needs
  `Ranges[1].max + 1 >= Ranges[2].min`, which a normal list excludes.
- `ImplementsSetTheorem`: `Spec => Set!Spec` under the mapping
  `allocated <- Allocated(Ranges)`, by `InitLemma` and `StepLemma`, which has one
  case per action. The lowest free index is 0 or the one after the first range
  (`LowestFreeLemma`).
- `SearchCorrectTheorem` (`BlockSearchProofs`): the invariant `Inv` says that the
  answer lies in the part still to search or that there is none; it needs the list
  normal only in that its lower ends ascend (`MinsAscend`).

- `TypeTheorem`: the types alone, from the first.
- `CountAgreesTheorem`: the loop of `CountAllocated` is a recursive function over its
  passes. The function that gives the number of indexes of the first `k` ranges
  satisfies the same recursion, since a pass adds the length of a range that no range
  before it meets (`FirstGrows`), and the recursion has one solution (`CountUnique`, by
  the first pass at which two would differ).

**The pool** (`ThreadPoolProofs`), for every number of workers and every workload. The
invariant `Inv` follows each submitted task from the thread that submits it (`Submits`)
over the `Busy` flag of the worker it was given to (`Awaits`) and the stack of the thread
that runs it (`Runs`) to `done`. `Once` says that it is in no two of these places, which
needs to know that each `Execute` is made once (`CallsMade`) and that no two workers hold
one task and only workers at rest are in `Avail` (`Handed`, `AvailRests`). `NoneLost` says
that it is in one of them until an exception; `QuitsInExit`, that `StopThreads` is set in
`exit` and nowhere else, which is why a worker never quits with a task in its hands.
- `EachTaskOnce`, `AvailableWorkersAreFree`, `TypeCorrect` follow from `Inv`.
- `IdleOnlyWhenDone` is an action property: with all workers in `Avail` and none awaited,
  the only places left are `done` and the main thread's own stack.
- `CountersAreExact` has an invariant of its own, `Exact`: `AllocWaiting` and
  `BusyLocksWaiting` are the cardinalities of the sets of threads at the places between
  their increments and decrements. Each action moves at most one thread into or out of
  these sets, or wakes threads that stay in them.

**One file among many** (`CreateFileProofs`), for any number of files, any number of chunks of
each, and every base archive in which each block belongs to one place of one file
(`Unshared`). `Books` is an account of a block directory: each place (a chunk of a file; a
file, for info blocks) has nothing, an index of the base that nothing has been done with,
an index allocated and not yet written, a link or a file. No index is of two places,
whatever is allocated to a place is so in the block list, and every link and file is of
one. `BooksLink`, `BooksFree`, `BooksAlloc` and `BooksWrite` say what the four calls of a block
directory do to it. This is what a job relies on when other jobs run between its
`Free`, its `Alloc` and its write, and `Restorable` and `ThrowsOnlyOnBadBase` are not
inductive without it. The order of the lines is `QueuesOk`: `FInfo` of a file has the lines
of its first jobs, in the order of the file, and all of these are done; a line stays as it
is because its job does. So the info block that is written has the line of each chunk at its
place. `Invariant` proves `Inv` and `QueuesOk` together. `Inv` adds, for each file, what its
task and its jobs have done: `LinkOk` (it is linked), `ReadOk` (it is read; `JobOk` for each chunk),
`EmptyOk`. TLC has checked `Inv` on the scenes of `create_file` before it was proved.
- `BaseStays`, `EachBlockOnce` (an action property), `ThrowsHaveCause`, `TypeCorrect`: from
  `Inv`, for bases that are `Unshared`.
- `EachBlockUsed`: if, besides, no file that is read is a beginning of its version in the
  base (`NoneCut`).
- `EachFileRestorable`: if, besides, no file stops being compressed (`FlagsStay`). Section 5
  has the counterexample to each of the three hypotheses.

**The walk** (`CreateWalkProofs`), for every file tree, every set of arguments and every
width of the device and inode numbers. `Inv` relates the records of `Inodes` to the tasks:
each key is that of its first name (`InodesOfNames`), each record not complete has just one task
that will complete it (`Creators`), each link's task points to a record that is there
(`Kept`), and the lines of a name repeat the entry of a name with its key (`Entries`,
`OneEntry`). `Walk` says that what is still to be called (`todo`) and what has a task
together make up the names asked for, each once; `Listed`, that each name with a task is
in one of three places: still with its task, waiting in a record, or in the list.
- `InodesOutlive`, `TypeCorrect`: from `Inv`, without further hypotheses.
- `LinksTellFiles`: if `KeysTell`, that is, no two tracked files have the same numbers after the cut
  to 16 and 32 bits. This is a real condition: a device number above 65535 (major 256 and
  up, as of NVMe disks) loses its upper bits (`LiveFile.h:44`), so that two disks may look like one.
- `EachNameOnce`: if the arguments are apart (`ArgsApart`) and the base was made of the
  same ones (`BaseOfArgs`); section 5 says what happens otherwise.
- `OneEntryEach`: if, besides, an inode number does not become 0 when it is cut, and what
  `lstat` says of a file is the same for all its names (`NumbersStay`).

**Extraction** (`ExtractProofs`), for every list, files of any number of chunks, any subset of
lines, with and without helpers. `ChunksOk` is the protocol of one file: the chunks
written are `1..k` in order; a helper has been submitted for each chunk behind and waits for the lock of
the chunk before its own; the final chunk is written in place, after all others, and only
then are the locks deleted. `Syncs` says that exactly one line makes the file of an info
block (`FirstOf`) and posts its lock when the file is there. `Rooted` and `Made` say that
the tree is closed towards the root and what owns each path, `Deferred` that a directory whose
line was handled waits in `DirAttribs` until all jobs are over.
- `ChunksInOrder`, `LocksOutlive`, `HardLinksAreOne`, `TimesAreRestored`, `ExtractSucceeds`,
  `TypeCorrect`: if each scene is an archive (`IsArchive`): its names are distinct and only
  directories have names below them, which `EachNameOnce` and the file system give.

**The repository** (`RepoProofs`), for any number of commands that run one after another or
at the same time, any finite set of files, any versions, any number of kills, deletions,
changes and damages, if nothing looks at an archive, and no kill hits it, between the touch
of `Finished` and the close of its list (`Exposed = FALSE`). This hypothesis is not a
convenience: with `Exposed = TRUE` the run `repo_unclosed` refutes `SuccessMeansWhole`. The
invariant `Inv` has these parts, each of which some step relies on:
- `IArch`: an archive that is finished and closed has a list with one line per file and one
  index per line, and its blocks hold the versions that the lines say (`Full`); one that is being
  deleted may miss blocks, and has no others (`Fits`). This is what a command finds in its base.
- `IBase`: what a backup knows of its base is so as long as nobody deletes it, and its base
  was made by a command that has ended. So the blocks it links do not change later.
- `IData`: a block is named for the command and the file it was written for, and is there
  only once that command has handled the file. So a write creates a block and goes
  through no link, which `Restored` of all other archives needs (`RestoredKeeps`).
- `IStore`: the lines sent so far describe the blocks made so far (`SentOk`), and each index
  in use is held by one file, through its line or through the base's (`AllocOk`, `Holds`).
  From this `LowestFree` is below the number of files (`KeptLemma`), and an index is free when it
  is linked (`Spares`).
- `IMaking`, `IDirs`, `IOwn`, `IName`: an archive in the making has the files that its
  command's place says, nobody deletes it, and no other command works on it.
- `IRead`: a reader of a finished archive has its whole list, and has warned exactly if one
  of the lines it is through with calls for it.
- `IPlace`, `IKnown`, `ICause`, `Typed`: where a command can be and what it knows there.

TLC has checked `Inv` on the scenes of `repo` before it was proved.
- `TypeOKTheorem`, `FailsOnlyWithCauseTheorem`: from `Inv`.
- `ReadersTellTheorem` (an action property): `TellLemma` compares what the reader has seen,
  by `IRead`, with what there is to see (`Sound`).
- `ImplementsStoreTheorem`: `Close` is `Commit`, as the closed list is full and has a line
  of the present version for each file (`CloseCommits`, `RestoresNow`); `Delete` of an archive that
  counts is `Delete`; `Change` is `Change`; every other step leaves the archives that count
  and what they restore as they are (`LocalQuiet`, `WriteQuiet`, `KillQuiet`, `UnlinkQuiet`).
- `SuccessMeansWholeTheorem` (an action property): only `Close` ends a backup with success
  (`OnlyCloseSucceeds`).

**Names of files** (`FilePathProofs`): what `Prefixes`, `Front` and `IsPrefix` of the
community modules mean for paths, by elements; both of the above cite it.

**Assumptions.** `MaxIdxAssumption` (`MaxIdx` is a natural number), `ListsAssumption` (the
lists searched are normal, which `NormalTheorem` proves of the allocator's),
`NAssumption` (there is a worker), `WorkloadsAssumption` (`IsWorkload`: each `Execute` has a
job of its own, and only main waits for the pool), `ModAssumption` (the widths are
positive), `HashAssumption` (different chunks have different hashes), `DataAssumption`
(`Hash` is of all data), `ProcsAssumption`, `FilesAssumption`, `VersionsAssumption` and
`ScenesAssumption` of `Repo` (`ExposedAssumption`: it is a Boolean; finitely many commands, which are numbered, and files; versions
that are numbers, so that none is `Lost`; a scene is a list of commands as `main` takes them, where
the name that a backup is given has not the form of a time), `ScenesAssumption` of `CreateFile` (`IsScene`: the base is whole, in
that its list and info blocks refer to blocks that are there and as they say; only the
compression flag of an entry may be wrong), of `CreateWalk` (`IsScene`: files form a finite tree)
and of `Extract` (directories have no info block). TLC evaluates them on
every run. The hypotheses of theorems on `Scenes` (`Unshared`, `NoneCut`, `FlagsStay`, `KeysTell`,
`ArgsApart`, `BaseOfArgs`, `NumbersStay`, `IsArchive`) hold of the scenes of the runs, which
`MCScenesAssumption` of `MCCreateFile`, `MCCreateWalk` and `MCExtract` says, and TLC evaluates.

**Only model-checked.** Liveness (`Terminates`, `Finishes`, `AllListed`, `ExtractionEnds`, and
`AllThreadsQuit`, which is violated), as the prover has no rule for fairness. All invariants
and action properties of the runs that pass and both refinements are proved.

## 5. Where the code does something else than it says

These have a run that ends in a counterexample and an entry under `findings`.

- `hard_link_stall`: extraction of as many names of one file as there are workers
  can stop for good (`ThreadPool.cpp:119`).
- `pool_shutdown`: the program can hang after its work is done (`ThreadPool.cpp:80`).
- `create_flag_lost`: the compression flag of the base's entry survives into one
  that is not compressed (`Archive.cpp:702`).
- `create_split`: two files that were one in the base overwrite a block of the base
  (`BlockList.cpp:260`).
- `repo_unclosed`: `Finished` is touched before the list is closed
  (`Archive.cpp:528, 44`). A backup that finds the archive in between, or after a kill
  in between, may read a line cut in or before its block index, takes the file for
  unchanged, and lists it with another block, or none. It exits with 0. Closing the
  list before the touch would end this: `repo` holds with every kill elsewhere.

Known besides, met while modelling and left out of the scenes that pass. TLC refutes the
first four when the `.cfg` of the run is given the scene in brackets:

- A file that has become a beginning of its version in the base, cut where a chunk began,
  keeps the base's info block, with chunks that the new archive does not have
  (`Archive.cpp:736`: only chunks that are read are compared; `Restorable`, with `MCCut` in
  `MCCreateFile.cfg`).
- With a base, the arguments of the command line are ignored: the base's options replace
  the global ones (`Archive.cpp:155`; `ListedOnce`, with `MCOtherArgs` in
  `MCCreateWalk.cfg`).
- Two files whose inode numbers agree in their low 32 bits become names of one file, and
  the content of one is not stored (`Create.cpp:105`; `LinksAreOfOneFile`, with `MCSameKey`
  in `MCCreateWalk.cfg`).
- Overlapping arguments list names twice (`Create.cpp:85`), and the extraction of a file
  with several names then links it to itself, which fails (`NeverFails`, with `MCTwice` in
  `MCExtract.cfg`).
- After an exception in a worker the process does not end with status 1: the worker
  joins itself, which aborts, or waits for good for a worker that sleeps on a lock
  which the failed task would have posted (`ThreadPool.cpp:44, 81`). In the workload
  `WriterThrows` of `MCThreadPool.tla` both happen. What is checked there is that main
  never goes on to mark the archive as finished.
- An inode number whose low 32 bits are 0 makes a file with several names look like one
  with a single name; its names are archived apart. `NumbersStay` excludes it.
- Extract and compare select by the file arguments that the archive was made with, not by
  their own (`Archive.cpp:142, 162`).
- Test and compare exit with 0 after warnings, where the manual says 1
  (`PhatBak.1:126`).

## 6. What is not modelled

- Two threads that throw at the same time: `exit` called twice is undefined.
- Backups of one name or second that overlap: `Archive.cpp:474` lets both through,
  and both write into one directory.
- A later backup on a base that lists a name twice: `CreateFile` has each file once.
- `-T 0`: all tasks in place, so sequential; `N` is at least 1.
- `list` and `latest`, which print, and the exact exit codes: a command ends with
  success, with an error, or with success after a warning.
- A crash of the whole machine, after which the file system may have lost writes in
  any order: the code never calls `fsync`.
- Parsing of lists, options and info blocks, names and paths as strings, ACLs,
  owners, times as numbers, compression and hashes: data, of which the models keep
  what their properties tell apart. Different data have different hashes
  (`HashAssumption`); a collision would store the wrong chunk.
- The unlocked read of `HLinkSyncs` at `Archive.cpp:196`: a data race inside
  `std::map`.

## 7. The plan

Done: all components of section 1 that keep shared state, each with its runs; and for
each the theorems of section 4, which cover every invariant and action property of the runs
that pass and both refinements.

Left, in this order:

1. `Extract` and `CreateWalk` put together: that the list of a finished walk of arguments
   that are apart is a list as `IsArchive` says, and that of others one with a name twice.
   Today each side states its own condition.
2. Backups that run while files change, in `Repo`; `CreateFile` has these for one backup.
