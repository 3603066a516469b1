----------------------------- MODULE CreateFile -----------------------------
(***************************************************************************)
(* The create command between the walk and the list file: for each regular *)
(* file ArchFileCreate::Create and its HashAndCompressJob jobs             *)
(* (src/Archive.cpp), with the block directories of the new archive and of *)
(* the base archive it hard-links into (src/BlockList.cpp:215-301).  Files *)
(* and chunk jobs are tasks of the thread pool: they interleave freely, as *)
(* ThreadPool.tla allows.                                                  *)
(***************************************************************************)
EXTENDS Integers, FiniteSets, SequencesExt

CONSTANTS Names,    \* the regular files to archive, no two of them one inode
          Data,     \* what a chunk can hold
          Zips,     \* the chunks that compression makes smaller
          ZipLen,   \* from how many chunks it makes a file's info smaller
          Hash,     \* the hash of each chunk
          Scenes    \* the base archives and live files to start from

\* Different chunks have different hashes: the code never compares the data.
ASSUME HashAssumption == \A c, d \in Data : Hash[c] = Hash[d] => c = d
ASSUME DataAssumption == DOMAIN Hash = Data /\ Zips \subseteq Data /\ ZipLen \in Nat

Kinds == {"chunk", "finfo"}     \* the two block directories of an archive

NoFInfo == -1       \* INT64_MIN: the entry has no info block
NoEntry == [size |-> 0, mtime |-> 0, comp |-> "U", finfo |-> NoFInfo, known |-> FALSE]

Flag(zips) == IF zips THEN "C" ELSE "U"     \* CompFlagComp, CompFlagUnComp

Block(zips, data) == [zip |-> Flag(zips), data |-> data]

ChunkRec(comp, idx, hash) == [comp |-> comp, idx |-> idx, hash |-> hash]

Flags == {"U", "C"}
ChunkRecs == [comp : Flags, idx : Nat, hash : Range(Hash)]
ChunkBlocks == [zip : Flags, data : Data]
FInfoBlocks == [zip : Flags, data : Seq(ChunkRecs)]

Entry(stat, comp, finfo) ==
    [size |-> stat.size, mtime |-> stat.mtime, comp |-> comp, finfo |-> finfo, known |-> TRUE]

Entries == [size : Nat, mtime : Int, comp : Flags, finfo : Int, known : BOOLEAN]

\* The lines of the info block that the base has for f.
BaseLines(s, f) ==
    LET idx == s.base.list[f].finfo
    IN  IF idx >= 0 THEN s.base["finfo"][idx].data ELSE <<>>

\* A scene has the base archive, which is whole: its list refers to info blocks, and
\* their lines to chunks, that are there and are as they say; only the flag of an
\* entry may be wrong.  And it has what lstat and the reads say of the live files,
\* which may differ, except that an empty file is not read.
IsScene(s) ==
    /\ s.base.list \in [Names -> Entries]
    /\ s.live \in [Names -> [size : Nat, mtime : Int, chunks : Seq(Data)]]
    /\ \A k \in Kinds : DOMAIN s.base[k] \subseteq Nat /\ IsFiniteSet(DOMAIN s.base[k])
    /\ s.base["chunk"] \in [DOMAIN s.base["chunk"] -> ChunkBlocks]
    /\ s.base["finfo"] \in [DOMAIN s.base["finfo"] -> FInfoBlocks]
    /\ \A f \in Names :
          /\ s.base.list[f].finfo >= 0 => s.base.list[f].finfo \in DOMAIN s.base["finfo"]
          /\ \A i \in DOMAIN BaseLines(s, f) :
                LET rec == BaseLines(s, f)[i]
                IN  /\ rec.idx \in DOMAIN s.base["chunk"]
                    /\ LET block == s.base["chunk"][rec.idx]
                       IN  block.zip = rec.comp /\ Hash[block.data] = rec.hash
          /\ s.live[f].size = 0 => s.live[f].chunks = <<>>

ASSUME ScenesAssumption == \A s \in Scenes : IsScene(s)

VARIABLES
    scene,      \* the base archive's list and the live files; never changes
    base,       \* the block files of the base archive, by kind and index
    own,        \* the block files that only the new archive has
    linked,     \* the indexes where it has a hard link to the base's file
    alloc,      \* the indexes its two block lists hold as allocated
    pc,         \* where Create is for each file
    recs,       \* the base chunks of a file (BaseFile->Chunks)
    jobs,       \* the hash and compress jobs of a file and what they return
    FInfo,      \* the lines of its info block so far; the jobs behind them
                \* are the queue Returns
    entry,      \* the list entry Create fills in
    ZeroLenIdx,
    list,       \* the list file: the entry of each file
    failed      \* an exception ended the program

disk == <<base, own, linked, alloc>>
vars == <<scene, disk, pc, recs, jobs, FInfo, entry, ZeroLenIdx, list, failed>>

Live(f) == scene.live[f]
Base(f) == scene.base.list[f]

Job(st, comp, idx, keep) == [st |-> st, comp |-> comp, idx |-> idx, keep |-> keep]

\* Variant without ReverseAlloc.
InitForgetsBase ==
    /\ scene \in Scenes
    /\ base = [k \in Kinds |-> scene.base[k]]
    /\ own = [k \in Kinds |-> <<>>]
    /\ linked = [k \in Kinds |-> {}]
    /\ alloc = [k \in Kinds |-> {}]
    /\ pc = [f \in Names |-> "start"]
    /\ recs = [f \in Names |-> <<>>]
    /\ jobs = [f \in Names |-> <<>>]
    /\ FInfo = [f \in Names |-> <<>>]
    /\ entry = [f \in Names |-> NoEntry]
    /\ ZeroLenIdx = -1
    /\ list = [f \in Names |-> NoEntry]
    /\ failed = FALSE

\* The constructor of ArchiveCreate: ReverseAlloc marks every block of the base.
Init ==
    /\ scene \in Scenes
    /\ base = [k \in Kinds |-> scene.base[k]]
    /\ own = [k \in Kinds |-> <<>>]
    /\ linked = [k \in Kinds |-> {}]
    /\ alloc = [k \in Kinds |-> DOMAIN scene.base[k]]
    /\ pc = [f \in Names |-> "start"]
    /\ recs = [f \in Names |-> <<>>]
    /\ jobs = [f \in Names |-> <<>>]
    /\ FInfo = [f \in Names |-> <<>>]
    /\ entry = [f \in Names |-> NoEntry]
    /\ ZeroLenIdx = -1
    /\ list = [f \in Names |-> NoEntry]
    /\ failed = FALSE
-----------------------------------------------------------------------------
(* The calls of the block lists. *)

Goto(f, where) == pc' = [pc EXCEPT ![f] = where]

\* An exception, in whatever thread: the handler exits.
Throw == failed' = TRUE /\ UNCHANGED <<scene, FInfo, disk, pc, recs, jobs, entry, ZeroLenIdx, list>>

Present(k) == linked[k] \cup DOMAIN own[k]

\* Link: create_hard_link fails when the new name exists or the old does not.
CanLink(k, idx) == idx \notin Present(k) /\ idx \in DOMAIN base[k]

Link(k, idx) ==
    /\ linked' = [linked EXCEPT ![k] = @ \cup {idx}]
    /\ UNCHANGED <<base, own, alloc>>

Free(k, idx) ==
    /\ alloc' = [alloc EXCEPT ![k] = @ \ {idx}]
    /\ UNCHANGED <<base, own, linked>>

\* Alloc, as BlockSet.tla has it: the lowest free index.
LowestFree(k, idx) == idx \notin alloc[k] /\ \A j \in 0..idx - 1 : j \in alloc[k]

\* Variant that reads the lowest free index and does not take it.
AllocPeeks(k, idx) ==
    /\ LowestFree(k, idx)
    /\ UNCHANGED disk

Alloc(k, idx) ==
    /\ LowestFree(k, idx)
    /\ alloc' = [alloc EXCEPT ![k] = @ \cup {idx}]
    /\ UNCHANGED <<base, own, linked>>

\* The map f with v for k.
Put(f, k, v) == [x \in DOMAIN f \cup {k} |-> IF x = k THEN v ELSE f[x]]

\* SpitBlock opens with "wb": a file that is there already keeps its inode, so
\* a hard link passes the write on to the base archive.
SpitBlock(k, idx, block) ==
    /\ IF idx \in linked[k]
       THEN base' = [base EXCEPT ![k][idx] = block] /\ UNCHANGED own
       ELSE own' = [own EXCEPT ![k] = Put(@, idx, block)] /\ UNCHANGED base
    /\ UNCHANGED <<linked, alloc>>
-----------------------------------------------------------------------------
(* Create, up to the chunks. *)

\* The file's size and modification time are those of the base's entry.
SameStats(f) == Live(f).size = Base(f).size /\ Live(f).mtime = Base(f).mtime

\* The base's info block of f, as ArchFileRead finds it now.
BaseFInfo(f) == base["finfo"][Base(f).finfo]
BaseReadable(f) == Base(f).finfo >= 0 => BaseFInfo(f).zip = Base(f).comp
BaseRecs(f) == IF Base(f).finfo >= 0 THEN BaseFInfo(f).data ELSE <<>>

\* Variant that counts up, into the indexes of info blocks.
StartEmptyUp(f) ==
    /\ ~failed
    /\ pc[f] = "start" /\ Live(f).size = 0
    /\ entry' = [entry EXCEPT ![f] = Entry(Live(f), "U", ZeroLenIdx + 1)]
    /\ ZeroLenIdx' = ZeroLenIdx + 1
    /\ Goto(f, "push")
    /\ UNCHANGED <<scene, FInfo, disk, recs, jobs, list, failed>>

\* An empty file gets the next negative index, to tell its hard links by.
StartEmpty(f) ==
    /\ ~failed
    /\ pc[f] = "start" /\ Live(f).size = 0
    /\ entry' = [entry EXCEPT ![f] = Entry(Live(f), "U", ZeroLenIdx - 1)]
    /\ ZeroLenIdx' = ZeroLenIdx - 1
    /\ Goto(f, "push")
    /\ UNCHANGED <<scene, FInfo, disk, recs, jobs, list, failed>>

\* Not in the base, or changed since: read the file and submit a job per chunk.
\* (The reads and the submissions touch nothing that another task looks at.)
StartRead(f) ==
    /\ ~failed
    /\ pc[f] = "start" /\ Live(f).size > 0
    /\ ~(Base(f).known /\ SameStats(f)) /\ BaseReadable(f)
    /\ entry' = [entry EXCEPT ![f] = Entry(Live(f), Base(f).comp, Base(f).finfo)]
    /\ recs' = [recs EXCEPT ![f] = BaseRecs(f)]
    /\ jobs' = [jobs EXCEPT ![f] = [i \in DOMAIN Live(f).chunks |-> Job("hash", "U", 0, FALSE)]]
    /\ Goto(f, "jobs")
    /\ UNCHANGED <<scene, FInfo, disk, ZeroLenIdx, list, failed>>

\* Unchanged: only link.
StartLink(f) ==
    /\ ~failed
    /\ pc[f] = "start" /\ Live(f).size > 0
    /\ Base(f).known /\ SameStats(f) /\ BaseReadable(f)
    /\ entry' = [entry EXCEPT ![f] = Entry(Live(f), Base(f).comp, Base(f).finfo)]
    /\ recs' = [recs EXCEPT ![f] = BaseRecs(f)]
    /\ Goto(f, "link")
    /\ UNCHANGED <<scene, FInfo, disk, jobs, ZeroLenIdx, list, failed>>

StartFails(f) ==
    /\ ~failed
    /\ pc[f] = "start" /\ Live(f).size > 0 /\ ~BaseReadable(f)
    /\ Throw

\* The loop over the base's chunks; jobs counts the ones done.
LinkNext(f) ==
    /\ ~failed
    /\ pc[f] = "link" /\ Len(jobs[f]) < Len(recs[f])
    /\ LET rec == recs[f][Len(jobs[f]) + 1]
       IN  IF CanLink("chunk", rec.idx)
           THEN /\ Link("chunk", rec.idx)
                /\ jobs' = [jobs EXCEPT ![f] = Append(@, Job("done", rec.comp, rec.idx, TRUE))]
                /\ UNCHANGED <<scene, FInfo, pc, recs, entry, ZeroLenIdx, list, failed>>
           ELSE Throw
-----------------------------------------------------------------------------
(* HashAndCompressJob, for chunk i of f. *)

HasBase(f, i) == i \in DOMAIN recs[f]

SameHash(f, i) == HasBase(f, i) /\ Hash[Live(f).chunks[i]] = recs[f][i].hash

At(f, i, st) == i \in DOMAIN jobs[f] /\ jobs[f][i].st = st

SetJob(f, i, job) == jobs' = [jobs EXCEPT ![f][i] = job]

\* Same hash: link to the base's chunk.
KeepChunk(f, i) ==
    /\ ~failed
    /\ At(f, i, "hash") /\ SameHash(f, i)
    /\ IF CanLink("chunk", recs[f][i].idx)
       THEN /\ Link("chunk", recs[f][i].idx)
            /\ SetJob(f, i, Job("done", recs[f][i].comp, recs[f][i].idx, TRUE))
            /\ UNCHANGED <<scene, FInfo, pc, recs, entry, ZeroLenIdx, list, failed>>
       ELSE Throw

\* Variant that frees the chunk's place in the file, not its block's index.
FreeChunkPlace(f, i) ==
    /\ ~failed
    /\ At(f, i, "hash") /\ HasBase(f, i) /\ ~SameHash(f, i)
    /\ IF i - 1 \in alloc["chunk"]
       THEN /\ Free("chunk", i - 1)
            /\ SetJob(f, i, Job("alloc", "U", 0, FALSE))
            /\ UNCHANGED <<scene, FInfo, pc, recs, entry, ZeroLenIdx, list, failed>>
       ELSE Throw

\* Another hash: the base's index is free for this archive.
FreeChunk(f, i) ==
    /\ ~failed
    /\ At(f, i, "hash") /\ HasBase(f, i) /\ ~SameHash(f, i)
    /\ IF recs[f][i].idx \in alloc["chunk"]
       THEN /\ Free("chunk", recs[f][i].idx)
            /\ SetJob(f, i, Job("alloc", "U", 0, FALSE))
            /\ UNCHANGED <<scene, FInfo, pc, recs, entry, ZeroLenIdx, list, failed>>
       ELSE Throw

\* SpitNewBlock, first its Alloc and then its write: another task may come
\* between them.
AllocChunk(f, i) ==
    /\ ~failed
    /\ At(f, i, "alloc") \/ (At(f, i, "hash") /\ ~HasBase(f, i))
    /\ \E idx \in 0..Cardinality(alloc["chunk"]) :
        /\ Alloc("chunk", idx)
        /\ SetJob(f, i, Job("write", Flag(Live(f).chunks[i] \in Zips), idx, FALSE))
    /\ UNCHANGED <<scene, FInfo, pc, recs, entry, ZeroLenIdx, list, failed>>

\* Variant that does not come to its PostIdle.
WriteChunkSilently(f, i) ==
    /\ ~failed
    /\ At(f, i, "write")
    /\ LET c == Live(f).chunks[i]
       IN  SpitBlock("chunk", jobs[f][i].idx, Block(c \in Zips, c))
    /\ UNCHANGED <<scene, FInfo, jobs, pc, recs, entry, ZeroLenIdx, list, failed>>

\* The write and PostIdle.
WriteChunk(f, i) ==
    /\ ~failed
    /\ At(f, i, "write")
    /\ LET c == Live(f).chunks[i]
       IN  SpitBlock("chunk", jobs[f][i].idx, Block(c \in Zips, c))
    /\ SetJob(f, i, [jobs[f][i] EXCEPT !.st = "done"])
    /\ UNCHANGED <<scene, FInfo, pc, recs, entry, ZeroLenIdx, list, failed>>
-----------------------------------------------------------------------------
(* Create, from the chunks on. *)

\* The line of chunk i.
LineOf(f, i) == ChunkRec(jobs[f][i].comp, jobs[f][i].idx, Hash[Live(f).chunks[i]])

\* Variant that takes the job that is ready, wherever it is in the queue.
CheckReturnsReady(f) ==
    /\ ~failed
    /\ pc[f] = "jobs"
    /\ \E i \in DOMAIN jobs[f] :
          /\ At(f, i, "done") /\ LineOf(f, i) \notin Range(FInfo[f])
          /\ FInfo' = [FInfo EXCEPT ![f] = Append(@, LineOf(f, i))]
    /\ UNCHANGED <<scene, disk, pc, recs, jobs, entry, ZeroLenIdx, list, failed>>

\* CheckReturns takes the job at the front of the queue, once it is done.
CheckReturns(f) ==
    /\ ~failed
    /\ pc[f] = "jobs"
    /\ LET i == Len(FInfo[f]) + 1
       IN  /\ At(f, i, "done")
           /\ FInfo' = [FInfo EXCEPT ![f] = Append(@, LineOf(f, i))]
    /\ UNCHANGED <<scene, disk, pc, recs, jobs, entry, ZeroLenIdx, list, failed>>

\* Variant that keeps it when any chunk is the base's.
KeepIfAnyKept(f) == jobs[f] # <<>> => \E i \in DOMAIN jobs[f] : jobs[f][i].keep

\* KeepBaseFinfo: every chunk that was read is the base's.
KeepBaseFinfo(f) == \A i \in DOMAIN jobs[f] : jobs[f][i].keep

\* The chunks are dealt with: linked, or read and the queue is empty.
ChunksReady(f) ==
    \/ pc[f] = "link" /\ Len(jobs[f]) = Len(recs[f])
    \/ pc[f] = "jobs" /\ Len(FInfo[f]) = Len(jobs[f])

KeepFInfo(f) ==
    /\ ~failed
    /\ ChunksReady(f) /\ KeepBaseFinfo(f)
    /\ LET idx == entry[f].finfo
       IN  CASE idx < 0 ->
                  /\ Goto(f, "push")
                  /\ UNCHANGED <<scene, FInfo, disk, recs, jobs, entry, ZeroLenIdx, list, failed>>
             [] idx >= 0 /\ CanLink("finfo", idx) ->
                  /\ Link("finfo", idx)
                  /\ Goto(f, "push")
                  /\ UNCHANGED <<scene, FInfo, recs, jobs, entry, ZeroLenIdx, list, failed>>
             [] OTHER -> Throw

FreeFInfo(f) ==
    /\ ~failed
    /\ ChunksReady(f) /\ ~KeepBaseFinfo(f) /\ entry[f].finfo >= 0
    /\ IF entry[f].finfo \in alloc["finfo"]
       THEN /\ Free("finfo", entry[f].finfo)
            /\ Goto(f, "alloc")
            /\ UNCHANGED <<scene, FInfo, recs, jobs, entry, ZeroLenIdx, list, failed>>
       ELSE Throw

ZipsFInfo(f) == Len(jobs[f]) >= ZipLen

\* The compression, and the Alloc of SpitNewBlock.  The flag of the entry is
\* raised when the block is compressed; nothing lowers the one that came from
\* the base.
AllocFInfo(f) ==
    /\ ~failed
    /\ \/ pc[f] = "alloc"
       \/ ChunksReady(f) /\ ~KeepBaseFinfo(f) /\ entry[f].finfo < 0
    /\ \E idx \in 0..Cardinality(alloc["finfo"]) :
        /\ Alloc("finfo", idx)
        /\ entry' = [entry EXCEPT ![f].finfo = idx,
                                  ![f].comp = IF ZipsFInfo(f) THEN "C" ELSE @]
    /\ Goto(f, "write")
    /\ UNCHANGED <<scene, FInfo, recs, jobs, ZeroLenIdx, list, failed>>

WriteFInfo(f) ==
    /\ ~failed
    /\ pc[f] = "write"
    /\ SpitBlock("finfo", entry[f].finfo, Block(ZipsFInfo(f), FInfo[f]))
    /\ Goto(f, "push")
    /\ UNCHANGED <<scene, FInfo, recs, jobs, entry, ZeroLenIdx, list, failed>>

PushListEntry(f) ==
    /\ ~failed
    /\ pc[f] = "push"
    /\ list' = [list EXCEPT ![f] = entry[f]]
    /\ Goto(f, "done")
    /\ UNCHANGED <<scene, FInfo, disk, recs, jobs, entry, ZeroLenIdx, failed>>
-----------------------------------------------------------------------------
FileStep(f) ==
    \/ StartEmpty(f) \/ StartRead(f) \/ StartLink(f) \/ StartFails(f) \/ LinkNext(f)
    \/ CheckReturns(f)
    \/ KeepFInfo(f) \/ FreeFInfo(f) \/ AllocFInfo(f) \/ WriteFInfo(f) \/ PushListEntry(f)

JobStep(f, i) == KeepChunk(f, i) \/ FreeChunk(f, i) \/ AllocChunk(f, i) \/ WriteChunk(f, i)

Next == \E f \in Names : FileStep(f) \/ \E i \in DOMAIN jobs[f] : JobStep(f, i)

\* The pool runs every task it is given (ThreadPool.tla, Finishes).
Fairness ==
    \A f \in Names :
        /\ WF_vars(FileStep(f))
        /\ WF_vars(\E i \in DOMAIN jobs[f] : JobStep(f, i))

Spec == Init /\ [][Next]_vars /\ Fairness
-----------------------------------------------------------------------------
(* What reading the new archive gives (ArchFileRead, ExtractChunkJob). *)

ReadBlock(k, idx) == IF idx \in linked[k] THEN base[k][idx] ELSE own[k][idx]

Reads(k, idx, comp) == idx \in Present(k) /\ ReadBlock(k, idx).zip = comp

ChunkReads(rec, c) ==
    /\ Reads("chunk", rec.idx, rec.comp)
    /\ ReadBlock("chunk", rec.idx).data = c /\ Hash[c] = rec.hash

Restores(e, content) ==
    IF e.finfo < 0 THEN content = <<>>
    ELSE /\ Reads("finfo", e.finfo, e.comp)
         /\ LET lines == ReadBlock("finfo", e.finfo).data
            IN  /\ Len(lines) = Len(content)
                /\ \A i \in DOMAIN lines : ChunkReads(lines[i], content[i])

\* What the base archive held of f before this run.
BaseContent(f) ==
    IF Base(f).finfo < 0 THEN <<>>
    ELSE LET lines == scene.base["finfo"][Base(f).finfo].data
         IN  [i \in DOMAIN lines |-> scene.base["chunk"][lines[i].idx].data]

\* What the new archive is to hold of f: what was read, or the base's content
\* when size and modification time say that it has not changed.
Expected(f) ==
    IF Live(f).size > 0 /\ Base(f).known /\ SameStats(f)
    THEN BaseContent(f) ELSE Live(f).chunks

Finished == \A f \in Names : pc[f] = "done"

Used(k) ==
    LET infos == {list[f].finfo : f \in {g \in Names : list[g].finfo >= 0}}
    IN  IF k = "finfo" THEN infos
        ELSE UNION {{r.idx : r \in Range(ReadBlock("finfo", i).data)} : i \in infos}
-----------------------------------------------------------------------------
(* What the theorems and the scenes of the run suppose of base and live files. *)

\* Each block of the base belongs to one name and one place in it.
Unshared(s) ==
    \A f, g \in Names :
        /\ s.base.list[f].finfo >= 0 /\ s.base.list[f].finfo = s.base.list[g].finfo => f = g
        /\ \A i \in DOMAIN BaseLines(s, f), j \in DOMAIN BaseLines(s, g) :
              BaseLines(s, f)[i].idx = BaseLines(s, g)[j].idx => f = g /\ i = j

\* f is to be read, and its base entry can be.
ReadsAnew(s, f) ==
    LET old == s.base.list[f]
        new == s.live[f]
    IN  /\ new.size > 0 /\ ~(old.known /\ new.size = old.size /\ new.mtime = old.mtime)
        /\ old.finfo >= 0 => s.base["finfo"][old.finfo].zip = old.comp

\* No file is a shorter beginning of its version in the base.
NoneCut(s) ==
    \A f \in Names :
        ReadsAnew(s, f) /\ Len(s.live[f].chunks) < Len(BaseLines(s, f)) =>
            \E i \in DOMAIN s.live[f].chunks :
                Hash[s.live[f].chunks[i]] # BaseLines(s, f)[i].hash

\* No file whose info block was compressed gets one that is not.
FlagsStay(s) ==
    \A f \in Names :
        ReadsAnew(s, f) /\ s.base.list[f].comp = "C" => Len(s.live[f].chunks) >= ZipLen
-----------------------------------------------------------------------------
\* Type invariant: each block directory holds blocks of its own kind, and the
\* indexes of empty files are none of a block.
TypeOK ==
    /\ Range(base["chunk"]) \cup Range(own["chunk"]) \subseteq ChunkBlocks
    /\ \A b \in Range(base["finfo"]) \cup Range(own["finfo"]) : b \in FInfoBlocks
    /\ \A k \in Kinds : linked[k] \cup alloc[k] \subseteq Nat
    /\ \A f \in Names : entry[f] \in Entries
    /\ ZeroLenIdx < 0

\* A file that is in the list can be restored from the new archive, chunk by
\* chunk, whatever the other files' tasks have done since (what extract does).
Restorable == \A f \in Names : pc[f] = "done" => Restores(list[f], Expected(f))

\* A new archive never changes the base it links to.
BaseUntouched == \A k \in Kinds : base[k] = scene.base[k]

\* A block that is in the new archive is never written or linked again, so no
\* index goes to two tasks.
BlocksWrittenOnce ==
    [][\A k \in Kinds :
          /\ linked[k] \subseteq linked'[k]
          /\ \A idx \in DOMAIN own[k] : idx \in DOMAIN own'[k] /\ own'[k][idx] = own[k][idx]
          /\ linked'[k] \cap DOMAIN own'[k] = {}]_vars

\* A finished archive has the blocks its list refers to and no others: the
\* check of DoTest (Archive.cpp:351-357).
NoBlockUnused == Finished => \A k \in Kinds : Used(k) = Present(k)

\* No call throws, so no index is freed twice or linked twice, unless an info
\* block of the base cannot be read.
ThrowsOnlyOnBadBase ==
    failed => \E f \in Names : Live(f).size > 0 /\ ~BaseReadable(f)

\* The flag in a file's entry says how its info block is stored: "C" for
\* compressed, "U" for uncompressed (Comp.h:13-14).
FlagTrue ==
    \A f \in Names :
        pc[f] = "done" /\ list[f].finfo \in Present("finfo") =>
            list[f].comp = ReadBlock("finfo", list[f].finfo).zip

\* Every file comes to its entry in the list.
AllListed == <>(Finished \/ failed)
=============================================================================
