-------------------------- MODULE CreateFileProofs --------------------------
(***************************************************************************)
(* Theorems about the create command for regular files (CreateFile.tla),   *)
(* for any number of files and chunks, every base archive that does not    *)
(* share a block between two of its files, and every order of the files'   *)
(* tasks and their chunk jobs.                                             *)
(***************************************************************************)
EXTENDS CreateFile, TLAPS, FiniteSetTheorems, SequenceTheorems

Stages == {"none", "base", "new", "linked", "written"}

\* What each of the parties P has of a block directory with the indexes alloc
\* allocated, the hard links linked and the files own: an index of the base that
\* nothing has been done with ("base"), an allocated one not yet written ("new"),
\* or a block that is there.  No index is of two parties, and each block that is
\* there is of one.
Books(P, stage, index, allocated, links, files) ==
    /\ \A p \in P : stage[p] \in Stages
    /\ \A p \in P : stage[p] # "none" => index[p] \in allocated
    /\ \A p, q \in P :
          stage[p] # "none" /\ stage[q] # "none" /\ index[p] = index[q] => p = q
    /\ \A p \in P :
          /\ stage[p] \in {"base", "new"} => index[p] \notin links \cup files
          /\ stage[p] = "linked" => index[p] \in links
          /\ stage[p] = "written" => index[p] \in files
    /\ \A x \in links : \E p \in P : stage[p] = "linked" /\ index[p] = x
    /\ \A x \in files : \E p \in P : stage[p] = "written" /\ index[p] = x

OldLines(f) == BaseLines(scene, f)

\* The chunks: each place in a file is a party.
Slots == Names \X Nat

JobStage(job) ==
    CASE job.st = "alloc" -> "none"
      [] job.st = "write" -> "new"
      [] OTHER -> IF job.keep THEN "linked" ELSE "written"

OfSlot(f, i) == IF i \in DOMAIN OldLines(f) THEN "base" ELSE "none"

StageAt(f, i) ==
    IF i \in DOMAIN jobs[f] /\ jobs[f][i].st # "hash" THEN JobStage(jobs[f][i]) ELSE OfSlot(f, i)

IndexAt(f, i) ==
    IF StageAt(f, i) = "base" THEN OldLines(f)[i].idx ELSE jobs[f][i].idx

ChunkStage == [p \in Slots |-> StageAt(p[1], p[2])]
ChunkIndex == [p \in Slots |-> IndexAt(p[1], p[2])]

ChunkBooks ==
    Books(Slots, ChunkStage, ChunkIndex, alloc["chunk"], linked["chunk"], DOMAIN own["chunk"])

\* The info blocks: each file is a party.
OfBase(f) == IF Base(f).finfo >= 0 THEN "base" ELSE "none"

InfoStageOf(f) ==
    CASE pc[f] = "alloc" -> "none"
      [] pc[f] = "write" -> "new"
      [] pc[f] \in {"push", "done"} /\ entry[f].finfo >= 0 ->
            IF KeepBaseFinfo(f) THEN "linked" ELSE "written"
      [] OTHER -> OfBase(f)

InfoStage == [f \in Names |-> InfoStageOf(f)]
InfoIndex == [f \in Names |-> IF InfoStageOf(f) = "base" THEN Base(f).finfo ELSE entry[f].finfo]

InfoBooks ==
    Books(Names, InfoStage, InfoIndex, alloc["finfo"], linked["finfo"], DOMAIN own["finfo"])
-----------------------------------------------------------------------------
Places  == {"start", "link", "jobs", "alloc", "write", "push", "done"}
JobRecs == [st : {"hash", "alloc", "write", "done"}, comp : Flags, idx : Nat, keep : BOOLEAN]

\* What the variables hold; the base is as it was.
Typed ==
    /\ scene \in Scenes
    /\ base = [k \in Kinds |-> scene.base[k]]
    /\ DOMAIN own = Kinds
    /\ own["chunk"] \in [DOMAIN own["chunk"] -> ChunkBlocks]
    /\ own["finfo"] \in [DOMAIN own["finfo"] -> FInfoBlocks]
    /\ linked \in [Kinds -> SUBSET Nat] /\ alloc \in [Kinds -> SUBSET Nat]
    /\ pc \in [Names -> Places]
    /\ recs \in [Names -> Seq(ChunkRecs)] /\ jobs \in [Names -> Seq(JobRecs)]
    /\ entry \in [Names -> Entries] /\ list \in [Names -> Entries]
    /\ ZeroLenIdx \in Int /\ ZeroLenIdx < 0
    /\ failed \in BOOLEAN

\* The scene says: f is as it was in the base; it is not, and can be read anew.
Same(f)   == Live(f).size > 0 /\ Base(f).known /\ SameStats(f)
Anew(f)   == ReadsAnew(scene, f)
Readable(f) == Base(f).finfo >= 0 => scene.base["finfo"][Base(f).finfo].zip = Base(f).comp

\* The jobs of f have all come to their PostIdle; the info block they make.
AllDone(f) == \A i \in DOMAIN jobs[f] : jobs[f][i].st = "done"
WholeInfo(f) ==
    [i \in DOMAIN jobs[f] |->
        ChunkRec(jobs[f][i].comp, jobs[f][i].idx, Hash[Live(f).chunks[i]])]

\* The job of chunk i of f has linked the base's chunk.
KeptAt(f, i) ==
    /\ jobs[f][i].st = "done" /\ jobs[f][i].keep
    /\ i \in DOMAIN OldLines(f)
    /\ jobs[f][i].comp = OldLines(f)[i].comp /\ jobs[f][i].idx = OldLines(f)[i].idx

\* The job of chunk i of f, which is read.
JobOk(f, i) ==
    LET job == jobs[f][i]
        c   == Live(f).chunks[i]
    IN  /\ job.keep => KeptAt(f, i) /\ OldLines(f)[i].hash = Hash[c]
        /\ job.st \in {"write", "done"} /\ ~job.keep => job.comp = Flag(c \in Zips)
        /\ job.st = "done" /\ ~job.keep =>
              job.idx \in DOMAIN own["chunk"] /\ own["chunk"][job.idx] = Block(c \in Zips, c)

\* An empty file.
EmptyOk(f) ==
    /\ pc[f] \in {"start", "push", "done"} /\ recs[f] = <<>> /\ jobs[f] = <<>>
    /\ pc[f] # "start" => entry[f].finfo < 0

\* A file whose chunks are linked.
LinkOk(f) ==
    /\ pc[f] \in {"link", "push", "done"} /\ Readable(f) /\ recs[f] = OldLines(f)
    /\ Len(jobs[f]) <= Len(OldLines(f))
    /\ pc[f] # "link" => Len(jobs[f]) = Len(OldLines(f))
    /\ \A i \in DOMAIN jobs[f] : KeptAt(f, i)
    /\ entry[f] = Entry(Live(f), Base(f).comp, Base(f).finfo)

\* A file that is read.
ReadOk(f) ==
    /\ pc[f] \in {"jobs", "alloc", "write", "push", "done"} /\ recs[f] = OldLines(f)
    /\ DOMAIN jobs[f] = DOMAIN Live(f).chunks
    /\ \A i \in DOMAIN jobs[f] : JobOk(f, i)
    /\ pc[f] # "jobs" => AllDone(f)
    /\ pc[f] \in {"alloc", "write"} => ~KeepBaseFinfo(f)
    /\ pc[f] \in {"jobs", "alloc"} \/ KeepBaseFinfo(f) =>
          entry[f] = Entry(Live(f), Base(f).comp, Base(f).finfo)
    /\ pc[f] \in {"write", "push", "done"} /\ ~KeepBaseFinfo(f) =>
          /\ entry[f].finfo \in Nat
          /\ entry[f].comp = IF ZipsFInfo(f) THEN "C" ELSE Base(f).comp
    /\ pc[f] \in {"push", "done"} /\ ~KeepBaseFinfo(f) =>
          /\ entry[f].finfo \in DOMAIN own["finfo"]
          /\ own["finfo"][entry[f].finfo] = Block(ZipsFInfo(f), WholeInfo(f))

FileOk(f) ==
    /\ Live(f).size = 0 => EmptyOk(f)
    /\ pc[f] = "start" => recs[f] = <<>> /\ jobs[f] = <<>>
    /\ Same(f) /\ pc[f] # "start" => LinkOk(f)
    /\ Live(f).size > 0 /\ ~Same(f) /\ pc[f] # "start" => Anew(f) /\ ReadOk(f)
    /\ pc[f] = "done" => list[f] = entry[f]

FilesOk == \A f \in Names : FileOk(f)

Inv == Typed /\ FilesOk /\ ChunkBooks /\ InfoBooks /\ ThrowsOnlyOnBadBase

\* What has come from the queue Returns: the lines of the first chunks, of jobs that
\* are done; the queue is empty once the info block is made.
QueueOk(f) ==
    /\ FInfo[f] \in Seq(ChunkRecs)
    /\ pc[f] \in {"start", "link"} => FInfo[f] = <<>>
    /\ pc[f] \in {"jobs", "alloc", "write"} =>
          /\ Len(FInfo[f]) <= Len(jobs[f])
          /\ \A i \in 1..Len(FInfo[f]) : jobs[f][i].st = "done" /\ FInfo[f][i] = LineOf(f, i)
    /\ pc[f] \in {"alloc", "write"} => Len(FInfo[f]) = Len(jobs[f])

QueuesOk == FInfo = [f \in Names |-> FInfo[f]] /\ \A f \in Names : QueueOk(f)
-----------------------------------------------------------------------------
(* What the four calls of a block directory do to the books. *)

\* Nobody does anything.
LEMMA BooksStay ==
    ASSUME NEW P, NEW stage, NEW index, NEW stage2, NEW index2,
           NEW allocated, NEW links, NEW files,
           Books(P, stage, index, allocated, links, files),
           \A p \in P : stage2[p] = stage[p] /\ (stage[p] # "none" => index2[p] = index[p])
    PROVE  Books(P, stage2, index2, allocated, links, files)
BY DEF Books

\* Link: the index was of the base, and free of files.
LEMMA BooksLink ==
    ASSUME NEW P, NEW stage, NEW index, NEW stage2, NEW index2,
           NEW allocated, NEW links, NEW files, NEW p \in P,
           Books(P, stage, index, allocated, links, files),
           \A q \in P : q # p => stage2[q] = stage[q] /\ (stage[q] # "none" => index2[q] = index[q]),
           stage[p] = "base", stage2[p] = "linked", index2[p] = index[p]
    PROVE  Books(P, stage2, index2, allocated, links \cup {index[p]}, files)
<1>1. \A q \in P : stage2[q] # "none" => stage[q] # "none" /\ index2[q] = index[q]
  OBVIOUS
<1>2. \A q \in P : stage2[q] # "none" /\ q # p => index2[q] # index[p]
  BY <1>1 DEF Books
<1>3. index[p] \notin links \cup files
  BY DEF Books
<1>4. \A q \in P : stage2[q] \in Stages /\ (stage2[q] # "none" => index2[q] \in allocated)
  BY <1>1 DEF Books, Stages
<1>5. \A q, r \in P :
         stage2[q] # "none" /\ stage2[r] # "none" /\ index2[q] = index2[r] => q = r
  BY <1>1 DEF Books
<1>6. \A q \in P :
         /\ stage2[q] \in {"base", "new"} => index2[q] \notin (links \cup {index[p]}) \cup files
         /\ stage2[q] = "linked" => index2[q] \in links \cup {index[p]}
         /\ stage2[q] = "written" => index2[q] \in files
  <2> TAKE q \in P
  <2>1. CASE q = p
    BY <2>1
  <2>2. CASE q # p
    BY <2>2, <1>2 DEF Books
  <2> QED
    BY <2>1, <2>2
<1>7. \A y \in links \cup {index[p]} : \E q \in P : stage2[q] = "linked" /\ index2[q] = y
  BY <1>3 DEF Books
<1>8. \A y \in files : \E q \in P : stage2[q] = "written" /\ index2[q] = y
  BY <1>3 DEF Books
<1> QED
  BY <1>4, <1>5, <1>6, <1>7, <1>8 DEF Books

\* Free: the index was of the base.
LEMMA BooksFree ==
    ASSUME NEW P, NEW stage, NEW index, NEW stage2, NEW index2,
           NEW allocated, NEW links, NEW files, NEW p \in P,
           Books(P, stage, index, allocated, links, files),
           \A q \in P : q # p => stage2[q] = stage[q] /\ (stage[q] # "none" => index2[q] = index[q]),
           stage[p] = "base", stage2[p] = "none"
    PROVE  Books(P, stage2, index2, allocated \ {index[p]}, links, files)
<1>1. \A q \in P : stage2[q] # "none" =>
         q # p /\ stage2[q] = stage[q] /\ index2[q] = index[q] /\ index2[q] # index[p]
  BY DEF Books
<1>2. \A q \in P : stage[q] \in {"linked", "written"} => q # p
  OBVIOUS
<1> QED
  BY <1>1, <1>2 DEF Books, Stages

\* Alloc: the index was not allocated.
LEMMA BooksAlloc ==
    ASSUME NEW P, NEW stage, NEW index, NEW stage2, NEW index2,
           NEW allocated, NEW links, NEW files, NEW p \in P,
           Books(P, stage, index, allocated, links, files),
           \A q \in P : q # p => stage2[q] = stage[q] /\ (stage[q] # "none" => index2[q] = index[q]),
           stage[p] = "none", stage2[p] = "new", index2[p] \notin allocated
    PROVE  Books(P, stage2, index2, allocated \cup {index2[p]}, links, files)
<1>1. links \cup files \subseteq allocated
  BY DEF Books
<1>2. \A q \in P : q # p /\ stage2[q] # "none" => index2[q] # index2[p]
  BY DEF Books
<1>3. \A q \in P : stage[q] \in {"linked", "written"} => q # p
  OBVIOUS
<1>4. \A q \in P : stage2[q] \in Stages
                   /\ (stage2[q] # "none" => index2[q] \in allocated \cup {index2[p]})
  BY DEF Books, Stages
<1>5. \A q, r \in P :
         stage2[q] # "none" /\ stage2[r] # "none" /\ index2[q] = index2[r] => q = r
  BY <1>2 DEF Books
<1>6. \A q \in P :
         /\ stage2[q] \in {"base", "new"} => index2[q] \notin links \cup files
         /\ stage2[q] = "linked" => index2[q] \in links
         /\ stage2[q] = "written" => index2[q] \in files
  BY <1>1 DEF Books
<1>7. /\ \A y \in links : \E q \in P : stage2[q] = "linked" /\ index2[q] = y
      /\ \A y \in files : \E q \in P : stage2[q] = "written" /\ index2[q] = y
  BY <1>3 DEF Books
<1> QED
  BY <1>4, <1>5, <1>6, <1>7 DEF Books

\* The write to an index that was allocated.
LEMMA BooksWrite ==
    ASSUME NEW P, NEW stage, NEW index, NEW stage2, NEW index2,
           NEW allocated, NEW links, NEW files, NEW p \in P,
           Books(P, stage, index, allocated, links, files),
           \A q \in P : q # p => stage2[q] = stage[q] /\ (stage[q] # "none" => index2[q] = index[q]),
           stage[p] = "new", stage2[p] = "written", index2[p] = index[p]
    PROVE  Books(P, stage2, index2, allocated, links, files \cup {index[p]})
<1>1. \A q \in P : stage2[q] # "none" => stage[q] # "none" /\ index2[q] = index[q]
  OBVIOUS
<1>2. \A q \in P : stage2[q] # "none" /\ q # p => index2[q] # index[p]
  BY <1>1 DEF Books
<1>3. index[p] \notin links \cup files
  BY DEF Books
<1>4. \A q \in P : stage2[q] \in Stages /\ (stage2[q] # "none" => index2[q] \in allocated)
  BY <1>1 DEF Books, Stages
<1>5. \A q, r \in P :
         stage2[q] # "none" /\ stage2[r] # "none" /\ index2[q] = index2[r] => q = r
  BY <1>1 DEF Books
<1>6. \A q \in P :
         /\ stage2[q] \in {"base", "new"} => index2[q] \notin links \cup (files \cup {index[p]})
         /\ stage2[q] = "linked" => index2[q] \in links
         /\ stage2[q] = "written" => index2[q] \in files \cup {index[p]}
  <2> TAKE q \in P
  <2>1. CASE q = p
    BY <2>1
  <2>2. CASE q # p
    BY <2>2, <1>2 DEF Books
  <2> QED
    BY <2>1, <2>2
<1>7. \A y \in files \cup {index[p]} : \E q \in P : stage2[q] = "written" /\ index2[q] = y
  BY <1>3 DEF Books
<1>8. \A y \in links : \E q \in P : stage2[q] = "linked" /\ index2[q] = y
  BY <1>3 DEF Books
<1> QED
  BY <1>4, <1>5, <1>6, <1>7, <1>8 DEF Books

-----------------------------------------------------------------------------
(* What the parties are, and when they stay what they are. *)

\* What a scene says of one file.
LEMMA SceneFacts ==
    ASSUME scene \in Scenes, NEW f \in Names
    PROVE  /\ Base(f) \in Entries /\ Base(f).finfo \in Int /\ Base(f).comp \in Flags
           /\ Live(f).size \in Nat /\ Live(f).mtime \in Int /\ Live(f).chunks \in Seq(Data)
           /\ Live(f).size = 0 => Live(f).chunks = <<>>
           /\ Base(f).finfo >= 0 =>
                 Base(f).finfo \in Nat /\ Base(f).finfo \in DOMAIN scene.base["finfo"]
           /\ OldLines(f) \in Seq(ChunkRecs)
           /\ \A i \in DOMAIN OldLines(f) :
                 /\ OldLines(f)[i] \in ChunkRecs
                 /\ OldLines(f)[i].idx \in Nat /\ OldLines(f)[i].comp \in Flags
                 /\ OldLines(f)[i].idx \in DOMAIN scene.base["chunk"]
                 /\ scene.base["chunk"][OldLines(f)[i].idx].zip = OldLines(f)[i].comp
                 /\ scene.base["chunk"][OldLines(f)[i].idx].data \in Data
                 /\ Hash[scene.base["chunk"][OldLines(f)[i].idx].data] = OldLines(f)[i].hash
<1>1. IsScene(scene)
  BY ScenesAssumption
<1>2. Base(f) \in Entries /\ Live(f) \in [size : Nat, mtime : Int, chunks : Seq(Data)]
  BY <1>1 DEF IsScene, Base, Live
<1>3. Base(f).finfo \in Int /\ Base(f).comp \in Flags
  BY <1>2 DEF Entries
<1>4. Base(f).finfo >= 0 =>
         Base(f).finfo \in Nat /\ Base(f).finfo \in DOMAIN scene.base["finfo"]
  BY <1>1, <1>3 DEF IsScene, Base
<1>5. OldLines(f) \in Seq(ChunkRecs)
  <2>1. CASE Base(f).finfo >= 0
    <3>1. scene.base["finfo"][Base(f).finfo] \in FInfoBlocks
      BY <1>1, <1>4, <2>1 DEF IsScene
    <3>2. scene.base["finfo"][Base(f).finfo].data \in Seq(ChunkRecs)
      BY <3>1 DEF FInfoBlocks
    <3> QED
      BY <2>1, <3>2 DEF OldLines, BaseLines, Base
  <2>2. CASE ~(Base(f).finfo >= 0)
    <3>1. OldLines(f) = <<>>
      BY <2>2 DEF OldLines, BaseLines, Base
    <3> QED
      BY <3>1, EmptySeq
  <2> QED
    BY <2>1, <2>2
<1>6. ASSUME NEW i \in DOMAIN OldLines(f)
      PROVE  /\ OldLines(f)[i] \in ChunkRecs
             /\ OldLines(f)[i].idx \in Nat /\ OldLines(f)[i].comp \in Flags
             /\ OldLines(f)[i].idx \in DOMAIN scene.base["chunk"]
             /\ scene.base["chunk"][OldLines(f)[i].idx].zip = OldLines(f)[i].comp
             /\ scene.base["chunk"][OldLines(f)[i].idx].data \in Data
             /\ Hash[scene.base["chunk"][OldLines(f)[i].idx].data] = OldLines(f)[i].hash
  <2>1. OldLines(f)[i] \in ChunkRecs
    BY <1>5, <1>6, LenProperties, ElementOfSeq
  <2>2. OldLines(f)[i].idx \in Nat /\ OldLines(f)[i].comp \in Flags
    BY <2>1 DEF ChunkRecs
  <2>3. /\ OldLines(f)[i].idx \in DOMAIN scene.base["chunk"]
        /\ scene.base["chunk"][OldLines(f)[i].idx].zip = OldLines(f)[i].comp
        /\ Hash[scene.base["chunk"][OldLines(f)[i].idx].data] = OldLines(f)[i].hash
    BY <1>1, <1>6 DEF IsScene, OldLines
  <2>4. scene.base["chunk"][OldLines(f)[i].idx] \in ChunkBlocks
    BY <1>1, <2>3 DEF IsScene
  <2>5. scene.base["chunk"][OldLines(f)[i].idx].data \in Data
    BY <2>4 DEF ChunkBlocks
  <2> QED
    BY <2>1, <2>2, <2>3, <2>5
<1>7. Live(f).size \in Nat /\ Live(f).mtime \in Int /\ Live(f).chunks \in Seq(Data)
  BY <1>2
<1>8. Live(f).size = 0 => Live(f).chunks = <<>>
  BY <1>1 DEF IsScene, Live
<1> QED
  BY <1>2, <1>3, <1>4, <1>5, <1>6, <1>7, <1>8

\* What the base archive holds is what the scene says.
LEMMA BaseFacts ==
    ASSUME Typed, NEW f \in Names
    PROVE  /\ base["chunk"] = scene.base["chunk"] /\ base["finfo"] = scene.base["finfo"]
           /\ BaseReadable(f) <=> Readable(f)
           /\ BaseRecs(f) = OldLines(f)
BY DEF Typed, Kinds, BaseReadable, Readable, BaseFInfo, BaseRecs, OldLines, BaseLines, Base

\* A slot whose job stays as it is.
LEMMA SlotStays ==
    ASSUME scene' = scene, NEW p \in Slots,
           p[2] \in DOMAIN jobs'[p[1]] <=> p[2] \in DOMAIN jobs[p[1]],
           p[2] \in DOMAIN jobs[p[1]] => jobs'[p[1]][p[2]] = jobs[p[1]][p[2]]
    PROVE  /\ ChunkStage'[p] = ChunkStage[p]
           /\ ChunkStage[p] # "none" => ChunkIndex'[p] = ChunkIndex[p]
<1>1. OldLines(p[1])' = OldLines(p[1])
  BY DEF OldLines
<1>2. StageAt(p[1], p[2])' = StageAt(p[1], p[2])
  BY <1>1 DEF StageAt, OfSlot, JobStage
<1>3. StageAt(p[1], p[2]) \notin {"none", "base"} => p[2] \in DOMAIN jobs[p[1]]
  BY DEF StageAt, OfSlot, JobStage
<1>4. StageAt(p[1], p[2]) # "none" => IndexAt(p[1], p[2])' = IndexAt(p[1], p[2])
  BY <1>1, <1>2, <1>3 DEF IndexAt
<1> QED
  BY <1>2, <1>4 DEF ChunkStage, ChunkIndex

\* The slots of one place.
LEMMA SlotFacts ==
    ASSUME NEW f \in Names, NEW i \in Nat
    PROVE  /\ <<f, i>> \in Slots
           /\ ChunkStage[<<f, i>>] = StageAt(f, i) /\ ChunkIndex[<<f, i>>] = IndexAt(f, i)
           /\ ChunkStage'[<<f, i>>] = StageAt(f, i)' /\ ChunkIndex'[<<f, i>>] = IndexAt(f, i)'
BY DEF Slots, ChunkStage, ChunkIndex

\* No job changes.
LEMMA ChunkBooksStay ==
    ASSUME ChunkBooks, scene' = scene, jobs' = jobs, alloc'["chunk"] = alloc["chunk"],
           linked'["chunk"] = linked["chunk"], DOMAIN own'["chunk"] = DOMAIN own["chunk"]
    PROVE  ChunkBooks'
<1>1. \A p \in Slots : /\ ChunkStage'[p] = ChunkStage[p]
                       /\ ChunkStage[p] # "none" => ChunkIndex'[p] = ChunkIndex[p]
  BY SlotStays
<1> HIDE DEF ChunkStage, ChunkIndex, Slots
<1>2. Books(Slots, ChunkStage', ChunkIndex', alloc["chunk"], linked["chunk"], DOMAIN own["chunk"])
  BY <1>1, BooksStay DEF ChunkBooks
<1> QED
  BY <1>2 DEF ChunkBooks

\* A file that stays where it is keeps its info block.
LEMMA InfoStays ==
    ASSUME scene' = scene, NEW f \in Names, pc'[f] = pc[f], entry'[f] = entry[f],
           pc[f] \in {"push", "done"} => jobs'[f] = jobs[f]
    PROVE  InfoStage'[f] = InfoStage[f] /\ InfoIndex'[f] = InfoIndex[f]
<1>1. Base(f)' = Base(f)
  BY DEF Base
<1>2. pc[f] \in {"push", "done"} => KeepBaseFinfo(f)' = KeepBaseFinfo(f)
  BY DEF KeepBaseFinfo
<1>3. InfoStageOf(f)' = InfoStageOf(f)
  BY <1>1, <1>2 DEF InfoStageOf, OfBase
<1> QED
  BY <1>1, <1>3 DEF InfoStage, InfoIndex

\* No file changes its place in Create.
LEMMA InfoBooksStay ==
    ASSUME InfoBooks, scene' = scene, pc' = pc, entry' = entry,
           \A f \in Names : pc[f] \in {"push", "done"} => jobs'[f] = jobs[f],
           alloc'["finfo"] = alloc["finfo"],
           linked'["finfo"] = linked["finfo"], DOMAIN own'["finfo"] = DOMAIN own["finfo"]
    PROVE  InfoBooks'
<1>1. \A f \in Names : InfoStage'[f] = InfoStage[f] /\ InfoIndex'[f] = InfoIndex[f]
  BY InfoStays
<1> HIDE DEF InfoStage, InfoIndex
<1>2. Books(Names, InfoStage', InfoIndex', alloc["finfo"], linked["finfo"], DOMAIN own["finfo"])
  BY <1>1, BooksStay DEF InfoBooks
<1> QED
  BY <1>2 DEF InfoBooks

-----------------------------------------------------------------------------
(* A step of one file leaves the others as they are. *)

\* What is in the archive stays there.
Grows ==
    \A k \in Kinds :
        /\ linked[k] \subseteq linked'[k]
        /\ \A x \in DOMAIN own[k] : x \in DOMAIN own'[k] /\ own'[k][x] = own[k][x]

\* The task of f makes no step.
Rests(f) ==
    /\ pc'[f] = pc[f] /\ recs'[f] = recs[f] /\ jobs'[f] = jobs[f]
    /\ entry'[f] = entry[f] /\ list'[f] = list[f]

\* What is so of a job stays so.
LEMMA JobOkStays ==
    ASSUME NEW f \in Names, NEW i \in DOMAIN jobs[f], JobOk(f, i), scene' = scene, Grows,
           jobs'[f][i] = jobs[f][i]
    PROVE  JobOk(f, i)'
<1>1. Live(f)' = Live(f) /\ OldLines(f)' = OldLines(f)
  BY DEF Live, OldLines
<1>2. KeptAt(f, i)' <=> KeptAt(f, i)
  BY <1>1 DEF KeptAt
<1>3. \A x \in DOMAIN own["chunk"] :
         x \in DOMAIN own'["chunk"] /\ own'["chunk"][x] = own["chunk"][x]
  BY DEF Grows, Kinds
<1> QED
  BY <1>1, <1>2, <1>3 DEF JobOk

LEMMA FileStays ==
    ASSUME NEW f \in Names, FileOk(f), scene' = scene, Grows, Rests(f)
    PROVE  FileOk(f)'
<1>1. /\ Live(f)' = Live(f) /\ Base(f)' = Base(f) /\ OldLines(f)' = OldLines(f)
      /\ Same(f)' = Same(f) /\ Anew(f)' = Anew(f) /\ Readable(f)' = Readable(f)
  BY DEF Live, Base, OldLines, Same, SameStats, Anew, Readable
<1>2. EmptyOk(f) => EmptyOk(f)'
  BY DEF EmptyOk, Rests
<1>3. \A i \in DOMAIN jobs[f] : KeptAt(f, i) => KeptAt(f, i)'
  BY <1>1 DEF KeptAt, Rests
<1>4. LinkOk(f) => LinkOk(f)'
  BY <1>1, <1>3 DEF LinkOk, Rests
<1>5. /\ AllDone(f)' = AllDone(f) /\ KeepBaseFinfo(f)' = KeepBaseFinfo(f)
      /\ ZipsFInfo(f)' = ZipsFInfo(f) /\ WholeInfo(f)' = WholeInfo(f)
  BY <1>1 DEF AllDone, KeepBaseFinfo, ZipsFInfo, WholeInfo, Rests
<1>6. \A x \in DOMAIN own["finfo"] :
         x \in DOMAIN own'["finfo"] /\ own'["finfo"][x] = own["finfo"][x]
  BY DEF Grows, Kinds
<1>7. ReadOk(f) => ReadOk(f)'
  <2> SUFFICES ASSUME ReadOk(f) PROVE ReadOk(f)'
    OBVIOUS
  <2>1. \A i \in DOMAIN jobs'[f] : JobOk(f, i)'
    BY JobOkStays DEF ReadOk, Rests
  <2>2. /\ pc'[f] \in {"jobs", "alloc", "write", "push", "done"} /\ recs'[f] = OldLines(f)'
        /\ DOMAIN jobs'[f] = DOMAIN Live(f)'.chunks
        /\ pc'[f] # "jobs" => AllDone(f)'
        /\ pc'[f] \in {"alloc", "write"} => ~KeepBaseFinfo(f)'
    BY <1>1, <1>5 DEF ReadOk, Rests
  <2>3. pc'[f] \in {"jobs", "alloc"} \/ KeepBaseFinfo(f)' =>
           entry'[f] = Entry(Live(f)', Base(f)'.comp, Base(f)'.finfo)
    BY <1>1, <1>5 DEF ReadOk, Rests
  <2>4. pc'[f] \in {"write", "push", "done"} /\ ~KeepBaseFinfo(f)' =>
           /\ entry'[f].finfo \in Nat
           /\ entry'[f].comp = IF ZipsFInfo(f)' THEN "C" ELSE Base(f)'.comp
    BY <1>1, <1>5 DEF ReadOk, Rests
  <2>5. pc'[f] \in {"push", "done"} /\ ~KeepBaseFinfo(f)' =>
           /\ entry'[f].finfo \in DOMAIN own'["finfo"]
           /\ own'["finfo"][entry'[f].finfo] = Block(ZipsFInfo(f)', WholeInfo(f)')
    BY <1>5, <1>6 DEF ReadOk, Rests
  <2> QED
    BY <2>1, <2>2, <2>3, <2>4, <2>5 DEF ReadOk
<1> QED
  BY <1>1, <1>2, <1>4, <1>7 DEF FileOk, Rests

\* A job that is not done is of a file that is being read.
LEMMA WhereJobs ==
    ASSUME Typed, NEW f \in Names, FileOk(f), NEW i \in DOMAIN jobs[f], jobs[f][i].st # "done"
    PROVE  /\ pc[f] = "jobs" /\ Live(f).size > 0 /\ ~Same(f) /\ Anew(f) /\ ReadOk(f)
           /\ i \in Nat /\ jobs[f][i] \in JobRecs
           /\ i \in DOMAIN Live(f).chunks /\ Live(f).chunks[i] \in Data
<1>1. jobs[f] # <<>>
  BY EmptySeq
<1>2. Live(f).size \in Nat /\ Live(f).chunks \in Seq(Data)
  BY SceneFacts DEF Typed
<1>3. pc[f] # "start" /\ Live(f).size # 0
  BY <1>1 DEF FileOk, EmptyOk
<1>4. ~Same(f)
  BY <1>3 DEF FileOk, LinkOk, KeptAt
<1>5. Anew(f) /\ ReadOk(f)
  BY <1>2, <1>3, <1>4 DEF FileOk
<1>6. pc[f] = "jobs"
  BY <1>5 DEF ReadOk, AllDone
<1>7. jobs[f] \in Seq(JobRecs)
  BY DEF Typed
<1>8. i \in Nat /\ jobs[f][i] \in JobRecs
  BY <1>7, LenProperties, ElementOfSeq
<1>9. i \in DOMAIN Live(f).chunks
  BY <1>5 DEF ReadOk
<1>10. Live(f).chunks[i] \in Data
  BY <1>2, <1>9, LenProperties, ElementOfSeq
<1> QED
  BY <1>2, <1>3, <1>4, <1>5, <1>6, <1>8, <1>9, <1>10

\* A step of the job of chunk i of f.
LEMMA JobMoves ==
    ASSUME Typed, FilesOk, NEW f \in Names, NEW i \in DOMAIN jobs[f], jobs[f][i].st # "done",
           NEW job \in JobRecs, SetJob(f, i, job), Grows,
           UNCHANGED <<scene, pc, recs, entry, ZeroLenIdx, list, failed>>,
           JobOk(f, i)'
    PROVE  /\ jobs' \in [Names -> Seq(JobRecs)] /\ jobs'[f][i] = job
           /\ FilesOk'
           /\ \A p \in Slots : p # <<f, i>> =>
                 /\ ChunkStage'[p] = ChunkStage[p]
                 /\ ChunkStage[p] # "none" => ChunkIndex'[p] = ChunkIndex[p]
           /\ \A g \in Names : pc[g] \in {"push", "done"} => jobs'[g] = jobs[g]
<1>1. jobs \in [Names -> Seq(JobRecs)] /\ jobs' = [jobs EXCEPT ![f][i] = job]
  BY DEF Typed, SetJob
<1>2. /\ \A g \in Names : g # f => jobs'[g] = jobs[g]
      /\ jobs'[f] = [jobs[f] EXCEPT ![i] = job]
  BY <1>1
<1>3. i \in 1..Len(jobs[f])
  BY <1>1, LenProperties
<1>4. /\ jobs'[f] \in Seq(JobRecs) /\ DOMAIN jobs'[f] = DOMAIN jobs[f] /\ jobs'[f][i] = job
      /\ \A j \in DOMAIN jobs[f] : j # i => jobs'[f][j] = jobs[f][j]
  BY <1>1, <1>2, <1>3, ExceptSeq
<1>5. jobs' \in [Names -> Seq(JobRecs)]
  BY <1>1, <1>2, <1>4
<1>6. /\ pc[f] = "jobs" /\ Live(f).size > 0 /\ ~Same(f) /\ Anew(f) /\ ReadOk(f)
      /\ i \in Nat /\ Live(f).size \in Nat
  BY WhereJobs, SceneFacts DEF FilesOk, Typed
<1>7. FileOk(f)'
  <2>1. /\ Live(f)' = Live(f) /\ Base(f)' = Base(f) /\ OldLines(f)' = OldLines(f)
        /\ Same(f)' = Same(f) /\ Anew(f)' = Anew(f)
    BY DEF Live, Base, OldLines, Same, SameStats, Anew
  <2>2. \A j \in DOMAIN jobs'[f] : JobOk(f, j)'
    <3> SUFFICES ASSUME NEW j \in DOMAIN jobs[f] PROVE JobOk(f, j)'
      BY <1>4
    <3>1. CASE j = i
      BY <3>1
    <3>2. CASE j # i
      <4>1. JobOk(f, j) /\ jobs'[f][j] = jobs[f][j]
        BY <1>4, <1>6, <3>2 DEF ReadOk
      <4> QED
        BY <4>1, JobOkStays
    <3> QED
      BY <3>1, <3>2
  <2>3. ReadOk(f)'
    BY <1>4, <1>6, <2>1, <2>2 DEF ReadOk
  <2> QED
    BY <1>6, <2>1, <2>3 DEF FileOk
<1>8. FilesOk'
  <2> SUFFICES ASSUME NEW g \in Names PROVE FileOk(g)'
    BY DEF FilesOk
  <2>1. CASE g # f
    BY <1>2, <2>1, FileStays DEF Rests, FilesOk
  <2> QED
    BY <1>7, <2>1
<1>9. ASSUME NEW p \in Slots, p # <<f, i>>
      PROVE  /\ ChunkStage'[p] = ChunkStage[p]
             /\ ChunkStage[p] # "none" => ChunkIndex'[p] = ChunkIndex[p]
  <2>1. p[1] \in Names /\ p[2] \in Nat /\ (p[1] # f \/ p[2] # i)
    BY <1>9 DEF Slots
  <2>2. /\ p[2] \in DOMAIN jobs'[p[1]] <=> p[2] \in DOMAIN jobs[p[1]]
        /\ p[2] \in DOMAIN jobs[p[1]] => jobs'[p[1]][p[2]] = jobs[p[1]][p[2]]
    BY <1>2, <1>4, <2>1
  <2> QED
    BY <2>2, SlotStays
<1>10. \A g \in Names : pc[g] \in {"push", "done"} => jobs'[g] = jobs[g]
  BY <1>2, <1>6
<1> QED
  BY <1>4, <1>5, <1>8, <1>9, <1>10

-----------------------------------------------------------------------------
(* The steps of a chunk job. *)

\* Where the base's chunk of a job that is to hash is.
LEMMA HashFacts ==
    ASSUME Inv, NEW f \in Names, NEW i \in DOMAIN jobs[f], At(f, i, "hash")
    PROVE  /\ recs[f] = OldLines(f)
           /\ HasBase(f, i) <=> StageAt(f, i) = "base"
           /\ ~HasBase(f, i) <=> StageAt(f, i) = "none"
           /\ HasBase(f, i) =>
                 /\ i \in DOMAIN OldLines(f) /\ IndexAt(f, i) = OldLines(f)[i].idx
                 /\ OldLines(f)[i].idx \in Nat /\ OldLines(f)[i].comp \in Flags
                 /\ OldLines(f)[i].idx \in alloc["chunk"]
                 /\ CanLink("chunk", OldLines(f)[i].idx)
<1>1. jobs[f][i].st = "hash"
  BY DEF At
<1>2. recs[f] = OldLines(f) /\ i \in Nat
  BY <1>1, WhereJobs DEF Inv, FilesOk, ReadOk
<1>3. StageAt(f, i) = IF HasBase(f, i) THEN "base" ELSE "none"
  BY <1>1, <1>2 DEF StageAt, OfSlot, JobStage, HasBase
<1>4. ASSUME HasBase(f, i)
      PROVE  /\ i \in DOMAIN OldLines(f) /\ IndexAt(f, i) = OldLines(f)[i].idx
             /\ OldLines(f)[i].idx \in Nat /\ OldLines(f)[i].comp \in Flags
             /\ OldLines(f)[i].idx \in alloc["chunk"]
             /\ CanLink("chunk", OldLines(f)[i].idx)
  <2>1. StageAt(f, i) = "base" /\ i \in DOMAIN OldLines(f)
    BY <1>2, <1>3, <1>4 DEF HasBase
  <2>2. IndexAt(f, i) = OldLines(f)[i].idx
    BY <2>1 DEF IndexAt
  <2>3. /\ OldLines(f)[i].idx \in Nat /\ OldLines(f)[i].comp \in Flags
        /\ OldLines(f)[i].idx \in DOMAIN base["chunk"]
    BY <2>1, SceneFacts, BaseFacts DEF Inv, Typed
  <2>4. /\ <<f, i>> \in Slots /\ ChunkStage[<<f, i>>] = "base"
        /\ ChunkIndex[<<f, i>>] = OldLines(f)[i].idx
    BY <1>2, <2>1, <2>2, SlotFacts
  <2>5. /\ OldLines(f)[i].idx \in alloc["chunk"]
        /\ OldLines(f)[i].idx \notin linked["chunk"] \cup DOMAIN own["chunk"]
    <3> HIDE DEF ChunkStage, ChunkIndex, Slots
    <3> QED
      BY <2>4 DEF Inv, ChunkBooks, Books
  <2> QED
    BY <2>1, <2>2, <2>3, <2>5 DEF CanLink, Present
<1> QED
  BY <1>2, <1>3, <1>4

LEMMA KeepChunkStep ==
    ASSUME Inv, NEW f \in Names, NEW i \in DOMAIN jobs[f], KeepChunk(f, i)
    PROVE  Inv' /\ Grows
<1>1. /\ ~failed /\ jobs[f][i].st = "hash" /\ HasBase(f, i)
      /\ Hash[Live(f).chunks[i]] = recs[f][i].hash
  BY DEF KeepChunk, At, SameHash
<1>2. /\ recs[f] = OldLines(f) /\ i \in DOMAIN OldLines(f)
      /\ StageAt(f, i) = "base" /\ IndexAt(f, i) = OldLines(f)[i].idx
      /\ OldLines(f)[i].idx \in Nat /\ OldLines(f)[i].comp \in Flags
      /\ CanLink("chunk", OldLines(f)[i].idx)
  BY <1>1, HashFacts DEF KeepChunk
<1>3. PICK rec : rec = OldLines(f)[i]
  OBVIOUS
<1>4. PICK job : job = Job("done", rec.comp, rec.idx, TRUE)
  OBVIOUS
<1>5. /\ Link("chunk", rec.idx) /\ SetJob(f, i, job)
      /\ UNCHANGED <<scene, pc, recs, entry, ZeroLenIdx, list, failed>>
  BY <1>1, <1>2, <1>3, <1>4 DEF KeepChunk
<1>6. job \in JobRecs /\ job.st = "done" /\ job.keep /\ job.comp = rec.comp /\ job.idx = rec.idx
  BY <1>2, <1>3, <1>4 DEF Job, JobRecs
<1>7. Typed /\ FilesOk /\ ChunkBooks /\ InfoBooks
  BY DEF Inv
<1>8. /\ linked' \in [Kinds -> SUBSET Nat]
      /\ linked'["chunk"] = linked["chunk"] \cup {rec.idx}
      /\ linked'["finfo"] = linked["finfo"]
      /\ base' = base /\ own' = own /\ alloc' = alloc
  BY <1>2, <1>3, <1>5, <1>7 DEF Link, Typed, Kinds
<1>9. Grows
  BY <1>8 DEF Grows, Kinds
<1>10. i \in Nat /\ <<f, i>> \in Slots
  BY <1>1, <1>7, WhereJobs DEF FilesOk, Slots
<1>11. jobs'[f][i] = job
  <2>1. i \in DOMAIN jobs[f] /\ jobs[f] \in Seq(JobRecs) /\ jobs \in [Names -> Seq(JobRecs)]
    BY <1>7 DEF Typed
  <2> QED
    BY <1>5, <2>1 DEF SetJob
<1>12. JobOk(f, i)'
  <2>1. Live(f)' = Live(f) /\ OldLines(f)' = OldLines(f)
    BY <1>5 DEF Live, OldLines
  <2> QED
    BY <1>1, <1>2, <1>3, <1>6, <1>11, <2>1 DEF JobOk, KeptAt
<1>13. /\ jobs' \in [Names -> Seq(JobRecs)] /\ FilesOk'
       /\ \A p \in Slots : p # <<f, i>> =>
             /\ ChunkStage'[p] = ChunkStage[p]
             /\ ChunkStage[p] # "none" => ChunkIndex'[p] = ChunkIndex[p]
       /\ \A g \in Names : pc[g] \in {"push", "done"} => jobs'[g] = jobs[g]
  BY <1>1, <1>5, <1>6, <1>7, <1>9, <1>12, JobMoves
<1>14. Typed'
  BY <1>5, <1>7, <1>8, <1>13 DEF Typed
<1>15. ChunkBooks'
  <2>1. i \in DOMAIN jobs'[f]
    BY <1>5, <1>7 DEF SetJob, Typed
  <2>2. StageAt(f, i)' = "linked" /\ IndexAt(f, i)' = rec.idx
    BY <1>6, <1>11, <2>1 DEF StageAt, OfSlot, IndexAt, JobStage
  <2>3. /\ ChunkStage[<<f, i>>] = "base" /\ ChunkIndex[<<f, i>>] = rec.idx
        /\ ChunkStage'[<<f, i>>] = "linked" /\ ChunkIndex'[<<f, i>>] = rec.idx
    BY <1>2, <1>3, <1>10, <2>2, SlotFacts
  <2> HIDE DEF ChunkStage, ChunkIndex, Slots
  <2>4. PICK p \in Slots : p = <<f, i>>
    BY <1>10
  <2>5. Books(Slots, ChunkStage, ChunkIndex, alloc["chunk"], linked["chunk"], DOMAIN own["chunk"])
    BY <1>7 DEF ChunkBooks
  <2>6. Books(Slots, ChunkStage', ChunkIndex', alloc["chunk"],
              linked["chunk"] \cup {ChunkIndex[p]}, DOMAIN own["chunk"])
    <3>1. /\ ChunkStage[p] = "base" /\ ChunkStage'[p] = "linked"
          /\ ChunkIndex'[p] = ChunkIndex[p]
      BY <2>3, <2>4
    <3>2. \A q \in Slots : q # p =>
             /\ ChunkStage'[q] = ChunkStage[q]
             /\ ChunkStage[q] # "none" => ChunkIndex'[q] = ChunkIndex[q]
      BY <1>13, <2>4
    <3> QED
      BY <2>5, <3>1, <3>2, BooksLink
  <2> QED
    BY <1>8, <2>3, <2>4, <2>6 DEF ChunkBooks
<1>16. InfoBooks'
  BY <1>5, <1>7, <1>8, <1>13, InfoBooksStay
<1> QED
  BY <1>1, <1>5, <1>9, <1>13, <1>14, <1>15, <1>16 DEF Inv, ThrowsOnlyOnBadBase

LEMMA FreeChunkStep ==
    ASSUME Inv, NEW f \in Names, NEW i \in DOMAIN jobs[f], FreeChunk(f, i)
    PROVE  Inv' /\ Grows
<1>1. ~failed /\ jobs[f][i].st = "hash" /\ HasBase(f, i)
  BY DEF FreeChunk, At
<1>2. /\ recs[f] = OldLines(f) /\ i \in DOMAIN OldLines(f)
      /\ StageAt(f, i) = "base" /\ IndexAt(f, i) = OldLines(f)[i].idx
      /\ OldLines(f)[i].idx \in Nat /\ OldLines(f)[i].idx \in alloc["chunk"]
  BY <1>1, HashFacts DEF FreeChunk
<1>3. PICK idx : idx = OldLines(f)[i].idx
  OBVIOUS
<1>4. PICK job : job = Job("alloc", "U", 0, FALSE)
  OBVIOUS
<1>5. /\ Free("chunk", idx) /\ SetJob(f, i, job)
      /\ UNCHANGED <<scene, pc, recs, entry, ZeroLenIdx, list, failed>>
  BY <1>1, <1>2, <1>3, <1>4 DEF FreeChunk
<1>6. job \in JobRecs /\ job.st = "alloc" /\ ~job.keep
  BY <1>4 DEF Job, JobRecs, Flags
<1>7. Typed /\ FilesOk /\ ChunkBooks /\ InfoBooks
  BY DEF Inv
<1>8. /\ alloc' \in [Kinds -> SUBSET Nat]
      /\ alloc'["chunk"] = alloc["chunk"] \ {idx}
      /\ alloc'["finfo"] = alloc["finfo"]
      /\ base' = base /\ own' = own /\ linked' = linked
  BY <1>5, <1>7 DEF Free, Typed, Kinds
<1>9. Grows
  BY <1>8 DEF Grows, Kinds
<1>10. i \in Nat /\ <<f, i>> \in Slots
  BY <1>1, <1>7, WhereJobs DEF FilesOk, Slots
<1>11. jobs'[f][i] = job
  BY <1>5, <1>7 DEF SetJob, Typed
<1>12. JobOk(f, i)'
  BY <1>6, <1>11 DEF JobOk
<1>13. /\ jobs' \in [Names -> Seq(JobRecs)] /\ FilesOk'
       /\ \A p \in Slots : p # <<f, i>> =>
             /\ ChunkStage'[p] = ChunkStage[p]
             /\ ChunkStage[p] # "none" => ChunkIndex'[p] = ChunkIndex[p]
       /\ \A g \in Names : pc[g] \in {"push", "done"} => jobs'[g] = jobs[g]
  BY <1>1, <1>5, <1>6, <1>7, <1>9, <1>12, JobMoves
<1>14. Typed'
  BY <1>5, <1>7, <1>8, <1>13 DEF Typed
<1>15. ChunkBooks'
  <2>1. i \in DOMAIN jobs'[f]
    BY <1>5, <1>7 DEF SetJob, Typed
  <2>2. StageAt(f, i)' = "none"
    BY <1>6, <1>11, <2>1 DEF StageAt, OfSlot, JobStage
  <2>3. /\ ChunkStage[<<f, i>>] = "base" /\ ChunkIndex[<<f, i>>] = idx
        /\ ChunkStage'[<<f, i>>] = "none"
    BY <1>2, <1>3, <1>10, <2>2, SlotFacts
  <2> HIDE DEF ChunkStage, ChunkIndex, Slots
  <2>4. PICK p \in Slots : p = <<f, i>>
    BY <1>10
  <2>5. Books(Slots, ChunkStage, ChunkIndex, alloc["chunk"], linked["chunk"], DOMAIN own["chunk"])
    BY <1>7 DEF ChunkBooks
  <2>6. Books(Slots, ChunkStage', ChunkIndex', alloc["chunk"] \ {ChunkIndex[p]},
              linked["chunk"], DOMAIN own["chunk"])
    <3>1. \A q \in Slots : q # p =>
             ChunkStage'[q] = ChunkStage[q] /\ (ChunkStage[q] # "none" => ChunkIndex'[q] = ChunkIndex[q])
      BY <1>13, <2>4
    <3>2. ChunkStage[p] = "base" /\ ChunkStage'[p] = "none"
      BY <2>3, <2>4
    <3> QED
      BY <2>5, <3>1, <3>2, BooksFree
  <2> QED
    BY <1>8, <2>3, <2>4, <2>6 DEF ChunkBooks
<1>16. InfoBooks'
  BY <1>5, <1>7, <1>8, <1>13, InfoBooksStay
<1> QED
  BY <1>1, <1>5, <1>9, <1>13, <1>14, <1>15, <1>16 DEF Inv, ThrowsOnlyOnBadBase

LEMMA AllocChunkStep ==
    ASSUME Inv, NEW f \in Names, NEW i \in DOMAIN jobs[f], AllocChunk(f, i)
    PROVE  Inv' /\ Grows
<1>1. ~failed /\ jobs[f][i].st # "done"
  BY DEF AllocChunk, At
<1>2. PICK c : c = Live(f).chunks[i]
  OBVIOUS
<1>3. PICK idx \in 0..Cardinality(alloc["chunk"]) :
         /\ Alloc("chunk", idx)
         /\ SetJob(f, i, Job("write", Flag(c \in Zips), idx, FALSE))
  BY <1>2 DEF AllocChunk
<1>4. PICK job : job = Job("write", Flag(c \in Zips), idx, FALSE)
  OBVIOUS
<1>5. SetJob(f, i, job) /\ UNCHANGED <<scene, pc, recs, entry, ZeroLenIdx, list, failed>>
  BY <1>3, <1>4 DEF AllocChunk
<1>6. idx \in Nat
  BY <1>3
<1>7. /\ job \in JobRecs /\ job.st = "write" /\ ~job.keep /\ job.idx = idx
      /\ job.comp = Flag(c \in Zips)
  BY <1>4, <1>6 DEF Job, JobRecs, Flags, Flag
<1>8. Typed /\ FilesOk /\ ChunkBooks /\ InfoBooks
  BY DEF Inv
<1>9. /\ alloc' \in [Kinds -> SUBSET Nat] /\ idx \notin alloc["chunk"]
      /\ alloc'["chunk"] = alloc["chunk"] \cup {idx}
      /\ alloc'["finfo"] = alloc["finfo"]
      /\ base' = base /\ own' = own /\ linked' = linked
  BY <1>3, <1>6, <1>8 DEF Alloc, LowestFree, Typed, Kinds
<1>10. Grows
  BY <1>9 DEF Grows, Kinds
<1>11. i \in Nat /\ <<f, i>> \in Slots
  BY <1>1, <1>8, WhereJobs DEF FilesOk, Slots
<1>12. jobs'[f][i] = job
  BY <1>5, <1>8 DEF SetJob, Typed
<1>13. JobOk(f, i)'
  <2>1. Live(f)' = Live(f)
    BY <1>5 DEF Live
  <2> QED
    BY <1>2, <1>7, <1>12, <2>1 DEF JobOk
<1>14. /\ jobs' \in [Names -> Seq(JobRecs)] /\ FilesOk'
       /\ \A p \in Slots : p # <<f, i>> =>
             /\ ChunkStage'[p] = ChunkStage[p]
             /\ ChunkStage[p] # "none" => ChunkIndex'[p] = ChunkIndex[p]
       /\ \A g \in Names : pc[g] \in {"push", "done"} => jobs'[g] = jobs[g]
  BY <1>1, <1>5, <1>7, <1>8, <1>10, <1>13, JobMoves
<1>15. Typed'
  BY <1>5, <1>8, <1>9, <1>14 DEF Typed
<1>16. ChunkBooks'
  <2>1. i \in DOMAIN jobs'[f]
    BY <1>5, <1>8 DEF SetJob, Typed
  <2>2. StageAt(f, i)' = "new" /\ IndexAt(f, i)' = idx
    BY <1>7, <1>12, <2>1 DEF StageAt, OfSlot, IndexAt, JobStage
  <2>3. StageAt(f, i) = "none"
    <3>1. CASE At(f, i, "alloc")
      BY <3>1 DEF StageAt, OfSlot, JobStage, At
    <3>2. CASE At(f, i, "hash") /\ ~HasBase(f, i)
      BY <3>2, HashFacts
    <3> QED
      BY <3>1, <3>2 DEF AllocChunk
  <2>4. PICK p \in Slots : p = <<f, i>>
    BY <1>11
  <2>5. /\ ChunkStage[p] = "none" /\ ChunkStage'[p] = "new" /\ ChunkIndex'[p] = idx
    BY <1>11, <2>2, <2>3, <2>4, SlotFacts
  <2>6. \A q \in Slots : q # p =>
           /\ ChunkStage'[q] = ChunkStage[q]
           /\ ChunkStage[q] # "none" => ChunkIndex'[q] = ChunkIndex[q]
    BY <1>14, <2>4
  <2> HIDE DEF ChunkStage, ChunkIndex, Slots
  <2>7. Books(Slots, ChunkStage, ChunkIndex, alloc["chunk"], linked["chunk"], DOMAIN own["chunk"])
    BY <1>8 DEF ChunkBooks
  <2>8. ChunkIndex'[p] \notin alloc["chunk"]
    BY <1>9, <2>5
  <2>9. Books(Slots, ChunkStage', ChunkIndex', alloc["chunk"] \cup {ChunkIndex'[p]},
              linked["chunk"], DOMAIN own["chunk"])
    BY <2>5, <2>6, <2>7, <2>8, BooksAlloc
  <2> QED
    BY <1>9, <2>5, <2>9 DEF ChunkBooks
<1>17. InfoBooks'
  BY <1>5, <1>8, <1>9, <1>14, InfoBooksStay
<1> QED
  BY <1>1, <1>5, <1>10, <1>14, <1>15, <1>16, <1>17 DEF Inv, ThrowsOnlyOnBadBase

\* A write to an index that was allocated and not written yet makes a block of the
\* new archive, not of the base.
LEMMA SpitFacts ==
    ASSUME Typed, NEW k \in Kinds, NEW idx, NEW block, SpitBlock(k, idx, block),
           idx \notin linked[k] \cup DOMAIN own[k]
    PROVE  /\ base' = base /\ linked' = linked /\ alloc' = alloc
           /\ DOMAIN own' = Kinds
           /\ \A m \in Kinds : m # k => own'[m] = own[m]
           /\ DOMAIN own'[k] = DOMAIN own[k] \cup {idx}
           /\ own'[k][idx] = block
           /\ \A x \in DOMAIN own[k] : own'[k][x] = own[k][x]
           /\ own'[k] = [x \in DOMAIN own'[k] |-> own'[k][x]]
           /\ Grows
<1>1. own' = [own EXCEPT ![k] = Put(own[k], idx, block)] /\ base' = base
      /\ linked' = linked /\ alloc' = alloc
  BY DEF SpitBlock
<1>2. PICK m : m = Put(own[k], idx, block)
  OBVIOUS
<1>3. /\ DOMAIN m = DOMAIN own[k] \cup {idx} /\ m[idx] = block
      /\ \A x \in DOMAIN own[k] : m[x] = own[k][x]
      /\ m = [x \in DOMAIN m |-> m[x]]
  BY <1>2 DEF Put
<1>4. DOMAIN own = Kinds
  BY DEF Typed
<1>5. own'[k] = m /\ DOMAIN own' = Kinds /\ \A n \in Kinds : n # k => own'[n] = own[n]
  BY <1>1, <1>2, <1>4
<1>6. Grows
  BY <1>1, <1>3, <1>5 DEF Grows
<1> QED
  BY <1>1, <1>3, <1>5, <1>6

LEMMA WriteChunkStep ==
    ASSUME Inv, NEW f \in Names, NEW i \in DOMAIN jobs[f], WriteChunk(f, i)
    PROVE  Inv' /\ Grows
<1>1. ~failed /\ jobs[f][i].st = "write"
  BY DEF WriteChunk, At
<1>2. Typed /\ FilesOk /\ ChunkBooks /\ InfoBooks
  BY DEF Inv
<1>3. /\ i \in Nat /\ jobs[f][i] \in JobRecs /\ ReadOk(f) /\ pc[f] = "jobs"
      /\ Live(f).chunks[i] \in Data
  BY <1>1, <1>2, WhereJobs DEF FilesOk
<1>4. PICK c \in Data : c = Live(f).chunks[i]
  BY <1>3
<1>5. PICK old \in JobRecs : old = jobs[f][i]
  BY <1>3
<1>6. PICK job : job = [old EXCEPT !.st = "done"]
  OBVIOUS
<1>7. /\ job \in JobRecs /\ job.st = "done" /\ job.keep = old.keep /\ job.idx = old.idx
      /\ job.comp = old.comp /\ old.st = "write" /\ old.idx \in Nat
  BY <1>1, <1>5, <1>6 DEF JobRecs
<1>8. /\ SpitBlock("chunk", old.idx, Block(c \in Zips, c)) /\ SetJob(f, i, job)
      /\ UNCHANGED <<scene, pc, recs, entry, ZeroLenIdx, list, failed>>
  BY <1>4, <1>5, <1>6 DEF WriteChunk
<1>9. ~old.keep /\ old.comp = Flag(c \in Zips)
  BY <1>3, <1>4, <1>5, <1>7 DEF ReadOk, JobOk, KeptAt
<1>10. PICK p \in Slots : p = <<f, i>>
  BY <1>3 DEF Slots
<1>11. ChunkStage[p] = "new" /\ ChunkIndex[p] = old.idx
  <2>1. StageAt(f, i) = "new" /\ IndexAt(f, i) = old.idx
    BY <1>1, <1>5 DEF StageAt, OfSlot, IndexAt, JobStage
  <2> QED
    BY <1>3, <1>10, <2>1, SlotFacts
<1>12. Books(Slots, ChunkStage, ChunkIndex, alloc["chunk"], linked["chunk"], DOMAIN own["chunk"])
  BY <1>2 DEF ChunkBooks
<1>13. old.idx \notin linked["chunk"] \cup DOMAIN own["chunk"]
  <2> HIDE DEF ChunkStage, ChunkIndex, Slots
  <2> QED
    BY <1>10, <1>11, <1>12 DEF Books
<1>14. PICK block \in ChunkBlocks : block = Block(c \in Zips, c)
  <2>1. PICK flag \in Flags : flag = Flag(c \in Zips)
    BY DEF Flag, Flags
  <2>2. [zip |-> flag, data |-> c] \in ChunkBlocks
    BY DEF ChunkBlocks
  <2> QED
    BY <2>1, <2>2 DEF Block
<1>15. /\ base' = base /\ linked' = linked /\ alloc' = alloc /\ DOMAIN own' = Kinds
       /\ own'["finfo"] = own["finfo"]
       /\ DOMAIN own'["chunk"] = DOMAIN own["chunk"] \cup {old.idx}
       /\ own'["chunk"][old.idx] = block
       /\ \A x \in DOMAIN own["chunk"] : own'["chunk"][x] = own["chunk"][x]
       /\ own'["chunk"] = [x \in DOMAIN own'["chunk"] |-> own'["chunk"][x]]
       /\ Grows
  BY <1>2, <1>8, <1>13, <1>14, SpitFacts DEF Kinds
<1>16. jobs'[f][i] = job
  BY <1>2, <1>8 DEF SetJob, Typed
<1>17. JobOk(f, i)'
  <2>1. Live(f)' = Live(f)
    BY <1>8 DEF Live
  <2> QED
    BY <1>4, <1>7, <1>9, <1>14, <1>15, <1>16, <2>1 DEF JobOk
<1>18. /\ jobs' \in [Names -> Seq(JobRecs)] /\ FilesOk'
       /\ \A q \in Slots : q # <<f, i>> =>
             /\ ChunkStage'[q] = ChunkStage[q]
             /\ ChunkStage[q] # "none" => ChunkIndex'[q] = ChunkIndex[q]
       /\ \A g \in Names : pc[g] \in {"push", "done"} => jobs'[g] = jobs[g]
  BY <1>1, <1>2, <1>7, <1>8, <1>15, <1>17, JobMoves
<1>19. Typed'
  <2>1. own'["chunk"] \in [DOMAIN own'["chunk"] -> ChunkBlocks]
    <3>1. own["chunk"] \in [DOMAIN own["chunk"] -> ChunkBlocks]
      BY <1>2 DEF Typed
    <3>2. \A x \in DOMAIN own'["chunk"] : own'["chunk"][x] \in ChunkBlocks
      BY <1>15, <3>1
    <3>3. own'["chunk"] = [x \in DOMAIN own'["chunk"] |-> own'["chunk"][x]]
      BY <1>15
    <3> QED
      BY <3>2, <3>3
  <2> QED
    BY <1>2, <1>8, <1>15, <1>18, <2>1 DEF Typed
<1>20. ChunkBooks'
  <2>1. i \in DOMAIN jobs'[f]
    BY <1>2, <1>8 DEF SetJob, Typed
  <2>2. StageAt(f, i)' = "written" /\ IndexAt(f, i)' = old.idx
    BY <1>7, <1>9, <1>16, <2>1 DEF StageAt, OfSlot, IndexAt, JobStage
  <2>3. /\ ChunkStage'[p] = "written" /\ ChunkIndex'[p] = ChunkIndex[p]
    BY <1>3, <1>10, <1>11, <2>2, SlotFacts
  <2>4. \A q \in Slots : q # p =>
           /\ ChunkStage'[q] = ChunkStage[q]
           /\ ChunkStage[q] # "none" => ChunkIndex'[q] = ChunkIndex[q]
    BY <1>10, <1>18
  <2> HIDE DEF ChunkStage, ChunkIndex, Slots
  <2>5. Books(Slots, ChunkStage', ChunkIndex', alloc["chunk"], linked["chunk"],
              DOMAIN own["chunk"] \cup {ChunkIndex[p]})
    BY <1>11, <1>12, <2>3, <2>4, BooksWrite
  <2> QED
    BY <1>11, <1>15, <2>5 DEF ChunkBooks
<1>21. InfoBooks'
  BY <1>2, <1>8, <1>15, <1>18, InfoBooksStay
<1> QED
  BY <1>1, <1>8, <1>15, <1>18, <1>19, <1>20, <1>21 DEF Inv, ThrowsOnlyOnBadBase

-----------------------------------------------------------------------------
(* The steps of Create up to the chunks. *)

\* What is so of all files but f, and of f, is so of all.
LEMMA FilesMove ==
    ASSUME FilesOk, NEW f \in Names, scene' = scene, Grows,
           \A g \in Names : g # f => Rests(g), FileOk(f)'
    PROVE  FilesOk'
BY FileStays DEF FilesOk

\* A step of f that leaves it the info block it has.
LEMMA InfoSame ==
    ASSUME InfoBooks, NEW f \in Names, scene' = scene,
           \A g \in Names : g # f => Rests(g),
           InfoStage'[f] = InfoStage[f],
           InfoStage[f] # "none" => InfoIndex'[f] = InfoIndex[f],
           alloc'["finfo"] = alloc["finfo"],
           linked'["finfo"] = linked["finfo"], DOMAIN own'["finfo"] = DOMAIN own["finfo"]
    PROVE  InfoBooks'
<1>1. \A g \in Names : /\ InfoStage'[g] = InfoStage[g]
                       /\ InfoStage[g] # "none" => InfoIndex'[g] = InfoIndex[g]
  BY InfoStays DEF Rests
<1> HIDE DEF InfoStage, InfoIndex
<1>2. Books(Names, InfoStage', InfoIndex', alloc["finfo"], linked["finfo"], DOMAIN own["finfo"])
  BY <1>1, BooksStay DEF InfoBooks
<1> QED
  BY <1>2 DEF InfoBooks

\* The scene of f does not change.
LEMMA SceneStays ==
    ASSUME scene' = scene, NEW f \in Names
    PROVE  /\ Live(f)' = Live(f) /\ Base(f)' = Base(f) /\ OldLines(f)' = OldLines(f)
           /\ Same(f)' = Same(f) /\ Anew(f)' = Anew(f) /\ Readable(f)' = Readable(f)
BY DEF Live, Base, OldLines, Same, SameStats, Anew, Readable

\* The info block and the index of f.
LEMMA InfoFacts ==
    ASSUME NEW f \in Names
    PROVE  /\ InfoStage[f] = InfoStageOf(f) /\ InfoStage'[f] = InfoStageOf(f)'
           /\ InfoIndex[f] = IF InfoStageOf(f) = "base" THEN Base(f).finfo ELSE entry[f].finfo
           /\ InfoIndex'[f] = IF InfoStageOf(f)' = "base" THEN Base(f)'.finfo ELSE entry'[f].finfo
BY DEF InfoStage, InfoIndex

\* An entry made of a file's stat is one.
LEMMA EntryType ==
    ASSUME scene \in Scenes, NEW f \in Names, NEW comp \in Flags, NEW idx \in Int
    PROVE  Entry(Live(f), comp, idx) \in Entries
<1>1. Live(f).size \in Nat /\ Live(f).mtime \in Int
  BY SceneFacts
<1> QED
  BY <1>1 DEF Entry, Entries

LEMMA StartEmptyStep ==
    ASSUME Inv, NEW f \in Names, StartEmpty(f)
    PROVE  Inv' /\ Grows
<1>1. Typed /\ FilesOk /\ ChunkBooks /\ InfoBooks
  BY DEF Inv
<1>2. /\ ~failed /\ pc[f] = "start" /\ Live(f).size = 0
      /\ pc' = [pc EXCEPT ![f] = "push"] /\ ZeroLenIdx' = ZeroLenIdx - 1
      /\ UNCHANGED <<scene, disk, recs, jobs, list, failed>>
  BY DEF StartEmpty, Goto
<1>3. PICK new : new = Entry(Live(f), "U", ZeroLenIdx - 1)
  OBVIOUS
<1>4. new \in Entries /\ new.finfo < 0
  <2>1. ZeroLenIdx - 1 \in Int /\ ZeroLenIdx - 1 < 0
    BY <1>1 DEF Typed
  <2>2. new \in Entries
    BY <1>1, <1>3, <2>1, EntryType DEF Typed, Flags
  <2> QED
    BY <1>3, <2>1, <2>2 DEF Entry
<1>5. entry' = [entry EXCEPT ![f] = new]
  BY <1>3 DEF StartEmpty
<1>6. /\ pc' \in [Names -> Places] /\ pc'[f] = "push"
      /\ entry' \in [Names -> Entries] /\ entry'[f] = new
      /\ \A g \in Names : g # f => Rests(g)
  BY <1>1, <1>2, <1>4, <1>5 DEF Typed, Places, Rests
<1>7. Typed'
  BY <1>1, <1>2, <1>6 DEF Typed, disk
<1>8. Grows
  BY <1>2 DEF Grows, disk
<1>9. FileOk(f)'
  BY <1>1, <1>2, <1>4, <1>6, SceneStays DEF FilesOk, FileOk, EmptyOk, Same
<1>10. FilesOk'
  BY <1>1, <1>2, <1>6, <1>8, <1>9, FilesMove
<1>11. ChunkBooks'
  BY <1>1, <1>2, ChunkBooksStay DEF disk
<1>12. InfoBooks'
  <2>1. InfoStageOf(f)' = OfBase(f) /\ InfoStageOf(f) = OfBase(f)
    BY <1>2, <1>4, <1>6, SceneStays DEF InfoStageOf, OfBase, Typed, Entries
  <2>2. /\ InfoStage'[f] = InfoStage[f]
        /\ InfoStage[f] # "none" => InfoIndex'[f] = InfoIndex[f]
    BY <1>2, <2>1, InfoFacts, SceneStays DEF OfBase
  <2> QED
    BY <1>1, <1>2, <1>6, <2>2, InfoSame DEF disk
<1> QED
  BY <1>2, <1>7, <1>8, <1>10, <1>11, <1>12 DEF Inv, ThrowsOnlyOnBadBase

LEMMA StartReadStep ==
    ASSUME Inv, NEW f \in Names, StartRead(f)
    PROVE  Inv' /\ Grows
<1>1. Typed /\ FilesOk /\ ChunkBooks /\ InfoBooks
  BY DEF Inv
<1>2. /\ ~failed /\ pc[f] = "start" /\ Live(f).size > 0
      /\ ~(Base(f).known /\ SameStats(f)) /\ BaseReadable(f)
      /\ pc' = [pc EXCEPT ![f] = "jobs"]
      /\ UNCHANGED <<scene, disk, ZeroLenIdx, list, failed>>
  BY DEF StartRead, Goto
<1>3. PICK new : new = Entry(Live(f), Base(f).comp, Base(f).finfo)
  OBVIOUS
<1>4. PICK js : js = [i \in DOMAIN Live(f).chunks |-> Job("hash", "U", 0, FALSE)]
  OBVIOUS
<1>5. new \in Entries
  BY <1>1, <1>3, SceneFacts, EntryType DEF Typed
<1>6. js \in Seq(JobRecs) /\ DOMAIN js = DOMAIN Live(f).chunks
      /\ \A i \in DOMAIN js : js[i].st = "hash" /\ ~js[i].keep
  <2>1. PICK n \in Nat : DOMAIN Live(f).chunks = 1..n
    BY <1>1, SceneFacts, LenProperties DEF Typed
  <2>2. PICK j \in JobRecs : j = Job("hash", "U", 0, FALSE)
    BY DEF Job, JobRecs, Flags
  <2>3. js = [i \in 1..n |-> j] /\ j.st = "hash" /\ ~j.keep
    BY <1>4, <2>1, <2>2 DEF Job
  <2>4. js \in [1..n -> JobRecs]
    BY <2>3
  <2>5. js \in Seq(JobRecs)
    BY <2>4, SeqDef
  <2> QED
    BY <2>1, <2>3, <2>5
<1>7. recs' = [recs EXCEPT ![f] = OldLines(f)]
  BY <1>1, BaseFacts DEF StartRead
<1>8. entry' = [entry EXCEPT ![f] = new] /\ jobs' = [jobs EXCEPT ![f] = js]
  BY <1>3, <1>4 DEF StartRead
<1>9. OldLines(f) \in Seq(ChunkRecs)
  BY <1>1, SceneFacts DEF Typed
<1>10. /\ pc' \in [Names -> Places] /\ pc'[f] = "jobs"
       /\ entry' \in [Names -> Entries] /\ entry'[f] = new
       /\ recs' \in [Names -> Seq(ChunkRecs)] /\ recs'[f] = OldLines(f)
       /\ jobs' \in [Names -> Seq(JobRecs)] /\ jobs'[f] = js
       /\ \A g \in Names : g # f => Rests(g)
  <2>1. pc' \in [Names -> Places] /\ pc'[f] = "jobs"
    BY <1>1, <1>2 DEF Typed, Places
  <2>2. entry' \in [Names -> Entries] /\ entry'[f] = new
    BY <1>1, <1>5, <1>8 DEF Typed
  <2>3. recs' \in [Names -> Seq(ChunkRecs)] /\ recs'[f] = OldLines(f)
    BY <1>1, <1>7, <1>9 DEF Typed
  <2>4. jobs' \in [Names -> Seq(JobRecs)] /\ jobs'[f] = js
    BY <1>1, <1>6, <1>8 DEF Typed
  <2>5. \A g \in Names : g # f => Rests(g)
    BY <1>1, <1>2, <1>7, <1>8 DEF Typed, Rests
  <2> QED
    BY <2>1, <2>2, <2>3, <2>4, <2>5
<1>11. Typed'
  BY <1>1, <1>2, <1>10 DEF Typed, disk
<1>12. Grows
  BY <1>2 DEF Grows, disk
<1>13. FileOk(f)'
  <2>1. ~Same(f) /\ Anew(f)
    <3>1. Readable(f)
      BY <1>1, <1>2, BaseFacts
    <3> QED
      BY <1>2, <3>1 DEF Same, Anew, ReadsAnew, Readable, SameStats, Live, Base
  <2>2. \A i \in DOMAIN jobs'[f] : JobOk(f, i)'
    BY <1>6, <1>10 DEF JobOk
  <2>3. ReadOk(f)'
    BY <1>2, <1>3, <1>6, <1>10, <2>2, SceneStays DEF ReadOk
  <2>4. Live(f).size \in Nat
    BY <1>1, SceneFacts DEF Typed
  <2> QED
    BY <1>2, <1>10, <2>1, <2>3, <2>4, SceneStays DEF FileOk
<1>14. FilesOk'
  BY <1>1, <1>2, <1>10, <1>12, <1>13, FilesMove
<1>15. ChunkBooks'
  <2>1. jobs[f] = <<>>
    BY <1>1, <1>2 DEF FilesOk, FileOk
  <2>2. ASSUME NEW p \in Slots
        PROVE  /\ ChunkStage'[p] = ChunkStage[p]
               /\ ChunkStage[p] # "none" => ChunkIndex'[p] = ChunkIndex[p]
    <3>1. CASE p[1] # f
      <4>1. jobs'[p[1]] = jobs[p[1]]
        BY <1>10, <3>1 DEF Slots, Rests
      <4> QED
        BY <1>2, <4>1, SlotStays
    <3>2. CASE p[1] = f
      <4>1. PICK i \in Nat : p = <<f, i>>
        BY <3>2 DEF Slots
      <4>2. i \notin DOMAIN jobs[f]
        BY <2>1
      <4>3. StageAt(f, i) = OfSlot(f, i)
        BY <4>2 DEF StageAt, OfSlot
      <4>4. StageAt(f, i)' = OfSlot(f, i)
        BY <1>2, <1>6, <1>10, SceneStays DEF StageAt, JobStage, OfSlot
      <4>5. StageAt(f, i) # "none" =>
               IndexAt(f, i) = OldLines(f)[i].idx /\ IndexAt(f, i)' = OldLines(f)[i].idx
        BY <1>2, <4>3, <4>4, SceneStays DEF IndexAt, OfSlot
      <4> QED
        BY <4>1, <4>3, <4>4, <4>5, SlotFacts
    <3> QED
      BY <3>1, <3>2
  <2> HIDE DEF ChunkStage, ChunkIndex, Slots
  <2>3. Books(Slots, ChunkStage', ChunkIndex', alloc["chunk"], linked["chunk"], DOMAIN own["chunk"])
    BY <1>1, <2>2, BooksStay DEF ChunkBooks
  <2> QED
    BY <1>2, <2>3 DEF ChunkBooks, disk
<1>16. InfoBooks'
  <2>1. InfoStageOf(f)' = OfBase(f) /\ InfoStageOf(f) = OfBase(f)
    BY <1>2, <1>10, SceneStays DEF InfoStageOf, OfBase
  <2>2. /\ InfoStage'[f] = InfoStage[f]
        /\ InfoStage[f] # "none" => InfoIndex'[f] = InfoIndex[f]
    BY <1>2, <2>1, InfoFacts, SceneStays DEF OfBase
  <2> QED
    BY <1>1, <1>2, <1>10, <2>2, InfoSame DEF disk
<1> QED
  BY <1>2, <1>11, <1>12, <1>14, <1>15, <1>16 DEF Inv, ThrowsOnlyOnBadBase

LEMMA StartLinkStep ==
    ASSUME Inv, NEW f \in Names, StartLink(f)
    PROVE  Inv' /\ Grows
<1>1. Typed /\ FilesOk /\ ChunkBooks /\ InfoBooks
  BY DEF Inv
<1>2. /\ ~failed /\ pc[f] = "start" /\ Live(f).size > 0
      /\ Base(f).known /\ SameStats(f) /\ BaseReadable(f)
      /\ pc' = [pc EXCEPT ![f] = "link"]
      /\ UNCHANGED <<scene, disk, jobs, ZeroLenIdx, list, failed>>
  BY DEF StartLink, Goto
<1>3. PICK new : new = Entry(Live(f), Base(f).comp, Base(f).finfo)
  OBVIOUS
<1>4. new \in Entries
  BY <1>1, <1>3, SceneFacts, EntryType DEF Typed
<1>5. recs' = [recs EXCEPT ![f] = OldLines(f)]
  BY <1>1, BaseFacts DEF StartLink
<1>6. entry' = [entry EXCEPT ![f] = new]
  BY <1>3 DEF StartLink
<1>7. OldLines(f) \in Seq(ChunkRecs)
  BY <1>1, SceneFacts DEF Typed
<1>8. /\ pc' \in [Names -> Places] /\ pc'[f] = "link"
      /\ entry' \in [Names -> Entries] /\ entry'[f] = new
      /\ recs' \in [Names -> Seq(ChunkRecs)] /\ recs'[f] = OldLines(f)
      /\ \A g \in Names : g # f => Rests(g)
  <2>1. pc' \in [Names -> Places] /\ pc'[f] = "link"
    BY <1>1, <1>2 DEF Typed, Places
  <2>2. entry' \in [Names -> Entries] /\ entry'[f] = new
    BY <1>1, <1>4, <1>6 DEF Typed
  <2>3. recs' \in [Names -> Seq(ChunkRecs)] /\ recs'[f] = OldLines(f)
    BY <1>1, <1>5, <1>7 DEF Typed
  <2>4. \A g \in Names : g # f => Rests(g)
    BY <1>1, <1>2, <1>5, <1>6 DEF Typed, Rests
  <2> QED
    BY <2>1, <2>2, <2>3, <2>4
<1>9. Typed'
  BY <1>1, <1>2, <1>8 DEF Typed, disk
<1>10. Grows
  BY <1>2 DEF Grows, disk
<1>11. FileOk(f)'
  <2>1. Same(f) /\ Readable(f) /\ jobs[f] = <<>>
    BY <1>1, <1>2, BaseFacts DEF Same, FilesOk, FileOk
  <2>2. Live(f).size \in Nat /\ Len(OldLines(f)) \in Nat /\ Len(<<>>) = 0
    BY <1>1, <1>7, SceneFacts, LenProperties, EmptySeq DEF Typed
  <2>3. LinkOk(f)'
    BY <1>2, <1>3, <1>8, <2>1, <2>2, SceneStays DEF LinkOk
  <2> QED
    BY <1>2, <1>8, <2>1, <2>2, <2>3, SceneStays DEF FileOk
<1>12. FilesOk'
  BY <1>1, <1>2, <1>8, <1>10, <1>11, FilesMove
<1>13. ChunkBooks'
  BY <1>1, <1>2, ChunkBooksStay DEF disk
<1>14. InfoBooks'
  <2>1. InfoStageOf(f)' = OfBase(f) /\ InfoStageOf(f) = OfBase(f)
    BY <1>2, <1>8, SceneStays DEF InfoStageOf, OfBase
  <2>2. /\ InfoStage'[f] = InfoStage[f]
        /\ InfoStage[f] # "none" => InfoIndex'[f] = InfoIndex[f]
    BY <1>2, <2>1, InfoFacts, SceneStays DEF OfBase
  <2> QED
    BY <1>1, <1>2, <1>8, <2>2, InfoSame DEF disk
<1> QED
  BY <1>2, <1>9, <1>10, <1>12, <1>13, <1>14 DEF Inv, ThrowsOnlyOnBadBase

LEMMA StartFailsStep ==
    ASSUME Inv, NEW f \in Names, StartFails(f)
    PROVE  Inv' /\ Grows
<1>1. Live(f).size > 0 /\ ~BaseReadable(f) /\ failed'
      /\ UNCHANGED <<scene, disk, pc, recs, jobs, entry, ZeroLenIdx, list>>
  BY DEF StartFails, Throw
<1>2. Typed /\ FilesOk /\ ChunkBooks /\ InfoBooks
  BY DEF Inv
<1>3. Typed' /\ Grows
  BY <1>1, <1>2 DEF Typed, Grows, disk, StartFails, Throw
<1>4. FilesOk'
  BY <1>1, <1>2, <1>3, FileStays DEF FilesOk, Rests
<1>5. ChunkBooks' /\ InfoBooks'
  BY <1>1, <1>2, ChunkBooksStay, InfoBooksStay DEF disk
<1>6. ThrowsOnlyOnBadBase'
  <2>1. Live(f)'.size > 0 /\ ~BaseReadable(f)'
    BY <1>1 DEF Live, BaseReadable, BaseFInfo, Base, disk
  <2> QED
    BY <2>1 DEF ThrowsOnlyOnBadBase
<1> QED
  BY <1>3, <1>4, <1>5, <1>6 DEF Inv

LEMMA LinkNextStep ==
    ASSUME Inv, NEW f \in Names, LinkNext(f)
    PROVE  Inv' /\ Grows
<1>1. Typed /\ FilesOk /\ ChunkBooks /\ InfoBooks
  BY DEF Inv
<1>2. ~failed /\ pc[f] = "link" /\ Len(jobs[f]) < Len(recs[f])
  BY DEF LinkNext
<1>3. Live(f).size > 0 /\ Same(f) /\ LinkOk(f)
  <2>1. Live(f).size \in Nat
    BY <1>1, SceneFacts DEF Typed
  <2> QED
    BY <1>1, <1>2, <2>1 DEF FilesOk, FileOk, EmptyOk, ReadOk
<1>4. recs[f] = OldLines(f)
  BY <1>3 DEF LinkOk
<1>5. jobs[f] \in Seq(JobRecs) /\ OldLines(f) \in Seq(ChunkRecs)
  BY <1>1, SceneFacts DEF Typed
<1>6. PICK n \in Nat : n = Len(jobs[f])
  BY <1>5, LenProperties
<1>7. DOMAIN jobs[f] = 1..n /\ n + 1 \in DOMAIN OldLines(f)
  BY <1>2, <1>4, <1>5, <1>6, LenProperties
<1>8. PICK rec : rec = OldLines(f)[n + 1]
  OBVIOUS
<1>9. rec.idx \in Nat /\ rec.comp \in Flags /\ rec.idx \in DOMAIN base["chunk"]
  BY <1>1, <1>7, <1>8, SceneFacts, BaseFacts DEF Typed
<1>10. PICK p \in Slots : p = <<f, n + 1>>
  <2>1. n + 1 \in Nat
    BY <1>6
  <2> QED
    BY <2>1, SlotFacts
<1>11. ChunkStage[p] = "base" /\ ChunkIndex[p] = rec.idx
  <2>1. n + 1 \notin DOMAIN jobs[f]
    BY <1>7
  <2>2. StageAt(f, n + 1) = "base"
    BY <1>7, <2>1 DEF StageAt, OfSlot
  <2>3. IndexAt(f, n + 1) = rec.idx
    BY <1>8, <2>2 DEF IndexAt
  <2> QED
    BY <1>6, <1>10, <2>2, <2>3, SlotFacts
<1>12. Books(Slots, ChunkStage, ChunkIndex, alloc["chunk"], linked["chunk"], DOMAIN own["chunk"])
  BY <1>1 DEF ChunkBooks
<1>13. CanLink("chunk", rec.idx)
  <2> HIDE DEF ChunkStage, ChunkIndex, Slots
  <2>1. rec.idx \notin linked["chunk"] \cup DOMAIN own["chunk"]
    BY <1>10, <1>11, <1>12 DEF Books
  <2> QED
    BY <1>9, <2>1 DEF CanLink, Present
<1>14. PICK job : job = Job("done", rec.comp, rec.idx, TRUE)
  OBVIOUS
<1>15. job \in JobRecs /\ job.st = "done" /\ job.keep /\ job.comp = rec.comp /\ job.idx = rec.idx
  BY <1>9, <1>14 DEF Job, JobRecs
<1>16. /\ Link("chunk", rec.idx)
       /\ jobs' = [jobs EXCEPT ![f] = Append(jobs[f], job)]
       /\ UNCHANGED <<scene, pc, recs, entry, ZeroLenIdx, list, failed>>
  BY <1>2, <1>4, <1>6, <1>8, <1>13, <1>14 DEF LinkNext
<1>17. PICK js : js = Append(jobs[f], job)
  OBVIOUS
<1>18. /\ js \in Seq(JobRecs) /\ Len(js) = n + 1 /\ DOMAIN js = 1..n + 1 /\ js[n + 1] = job
       /\ \A i \in 1..n : js[i] = jobs[f][i]
  BY <1>5, <1>6, <1>15, <1>17, AppendProperties, LenProperties
<1>19. /\ jobs' \in [Names -> Seq(JobRecs)] /\ jobs'[f] = js
       /\ \A g \in Names : g # f => Rests(g)
  BY <1>1, <1>16, <1>17, <1>18 DEF Typed, Rests
<1>20. /\ linked' \in [Kinds -> SUBSET Nat]
       /\ linked'["chunk"] = linked["chunk"] \cup {rec.idx}
       /\ linked'["finfo"] = linked["finfo"]
       /\ base' = base /\ own' = own /\ alloc' = alloc
  BY <1>1, <1>9, <1>16 DEF Link, Typed, Kinds
<1>21. Grows
  BY <1>20 DEF Grows, Kinds
<1>22. Typed'
  BY <1>1, <1>16, <1>19, <1>20 DEF Typed
<1>23. FileOk(f)'
  <2>1. ASSUME NEW i \in DOMAIN js PROVE KeptAt(f, i)'
    <3>1. CASE i = n + 1
      BY <1>7, <1>8, <1>15, <1>16, <1>18, <1>19, <3>1, SceneStays DEF KeptAt
    <3>2. CASE i \in 1..n
      <4>1. KeptAt(f, i) /\ js[i] = jobs[f][i]
        BY <1>3, <1>7, <1>18, <3>2 DEF LinkOk
      <4> QED
        BY <1>16, <1>19, <4>1, SceneStays DEF KeptAt
    <3> QED
      BY <1>18, <3>1, <3>2
  <2>2. Len(js) <= Len(OldLines(f))
    BY <1>2, <1>4, <1>5, <1>6, <1>18, LenProperties
  <2>3. LinkOk(f)'
    BY <1>2, <1>3, <1>16, <1>19, <2>1, <2>2, SceneStays DEF LinkOk
  <2>4. Live(f).size \in Nat
    BY <1>1, SceneFacts DEF Typed
  <2> QED
    BY <1>2, <1>3, <1>16, <2>3, <2>4, SceneStays DEF FileOk
<1>24. FilesOk'
  BY <1>1, <1>16, <1>19, <1>21, <1>23, FilesMove
<1>25. ChunkBooks'
  <2>1. StageAt(f, n + 1)' = "linked" /\ IndexAt(f, n + 1)' = rec.idx
    <3>1. n + 1 \in DOMAIN js
      BY <1>18
    <3> QED
      BY <1>15, <1>18, <1>19, <3>1 DEF StageAt, IndexAt, JobStage
  <2>2. ChunkStage'[p] = "linked" /\ ChunkIndex'[p] = ChunkIndex[p]
    BY <1>6, <1>10, <1>11, <2>1, SlotFacts
  <2>3. ASSUME NEW q \in Slots, q # p
        PROVE  /\ ChunkStage'[q] = ChunkStage[q]
               /\ ChunkStage[q] # "none" => ChunkIndex'[q] = ChunkIndex[q]
    <3>1. q[1] \in Names /\ q[2] \in Nat /\ (q[1] # f \/ q[2] # n + 1)
      BY <1>10, <2>3 DEF Slots
    <3>2. CASE q[1] # f
      <4>1. jobs'[q[1]] = jobs[q[1]]
        BY <1>19, <3>1, <3>2 DEF Rests
      <4> QED
        BY <1>16, <4>1, SlotStays
    <3>3. CASE q[1] = f
      <4>1. /\ q[2] \in DOMAIN jobs'[f] <=> q[2] \in DOMAIN jobs[f]
            /\ q[2] \in DOMAIN jobs[f] => jobs'[f][q[2]] = jobs[f][q[2]]
        BY <1>7, <1>18, <1>19, <3>1, <3>3
      <4> QED
        BY <1>16, <3>3, <4>1, SlotStays
    <3> QED
      BY <3>2, <3>3
  <2> HIDE DEF ChunkStage, ChunkIndex, Slots
  <2>4. Books(Slots, ChunkStage', ChunkIndex', alloc["chunk"],
              linked["chunk"] \cup {ChunkIndex[p]}, DOMAIN own["chunk"])
    BY <1>11, <1>12, <2>2, <2>3, BooksLink
  <2> QED
    BY <1>11, <1>20, <2>4 DEF ChunkBooks
<1>26. InfoBooks'
  <2>1. \A g \in Names : pc[g] \in {"push", "done"} => jobs'[g] = jobs[g]
    BY <1>2, <1>19 DEF Rests
  <2> QED
    BY <1>1, <1>16, <1>20, <2>1, InfoBooksStay
<1> QED
  BY <1>2, <1>16, <1>21, <1>22, <1>24, <1>25, <1>26 DEF Inv, ThrowsOnlyOnBadBase

-----------------------------------------------------------------------------
(* The steps of Create from the chunks on. *)

\* When the chunks of f are dealt with it is linked or read, and has its info block
\* in the base as it had it.
LEMMA ReadyFacts ==
    ASSUME Typed, NEW f \in Names, FileOk(f), QueueOk(f), ChunksReady(f)
    PROVE  /\ pc[f] \in {"link", "jobs"} /\ Live(f).size > 0 /\ Live(f).size \in Nat
           /\ entry[f] = Entry(Live(f), Base(f).comp, Base(f).finfo)
           /\ entry[f].finfo = Base(f).finfo /\ entry[f].comp = Base(f).comp
           /\ InfoStage[f] = OfBase(f)
           /\ OfBase(f) = "base" => InfoIndex[f] = Base(f).finfo
           /\ \/ Same(f) /\ LinkOk(f) /\ Len(jobs[f]) = Len(OldLines(f)) /\ KeepBaseFinfo(f)
              \/ ~Same(f) /\ Anew(f) /\ ReadOk(f) /\ AllDone(f)
<1>1. pc[f] \in {"link", "jobs"} /\ Live(f).size \in Nat
  BY SceneFacts DEF ChunksReady, Typed
<1>2. Live(f).size > 0
  BY <1>1 DEF FileOk, EmptyOk
<1>3. \/ Same(f) /\ LinkOk(f) /\ pc[f] = "link"
      \/ ~Same(f) /\ Anew(f) /\ ReadOk(f) /\ pc[f] = "jobs"
  BY <1>1, <1>2 DEF FileOk, LinkOk, ReadOk
<1>4. \/ Same(f) /\ LinkOk(f) /\ Len(jobs[f]) = Len(OldLines(f)) /\ KeepBaseFinfo(f)
      \/ ~Same(f) /\ Anew(f) /\ ReadOk(f) /\ AllDone(f)
  <2>1. CASE pc[f] = "link"
    BY <1>3, <2>1 DEF ChunksReady, LinkOk, KeptAt, KeepBaseFinfo
  <2>2. CASE pc[f] = "jobs"
    <3>1. Len(FInfo[f]) = Len(jobs[f])
      BY <2>2 DEF ChunksReady
    <3>2. jobs[f] \in Seq(JobRecs)
      BY DEF Typed
    <3>3. DOMAIN jobs[f] = 1..Len(jobs[f])
      BY <3>2, LenProperties
    <3>4. AllDone(f)
      BY <2>2, <3>1, <3>3 DEF QueueOk, AllDone
    <3> QED
      BY <1>3, <2>2, <3>4
  <2> QED
    BY <1>1, <2>1, <2>2
<1>5. entry[f] = Entry(Live(f), Base(f).comp, Base(f).finfo)
  BY <1>3 DEF LinkOk, ReadOk
<1>6. entry[f].finfo = Base(f).finfo /\ entry[f].comp = Base(f).comp
  BY <1>5 DEF Entry
<1>7. InfoStageOf(f) = OfBase(f)
  BY <1>1 DEF InfoStageOf
<1> QED
  BY <1>1, <1>2, <1>4, <1>5, <1>6, <1>7, InfoFacts

\* What is known of the base's info block while nothing has been done with it.
LEMMA InfoOfBase ==
    ASSUME Inv, NEW f \in Names, InfoStage[f] = OfBase(f), Base(f).finfo >= 0,
           InfoIndex[f] = Base(f).finfo
    PROVE  /\ OfBase(f) = "base" /\ Base(f).finfo \in alloc["finfo"]
           /\ Base(f).finfo \in Nat /\ CanLink("finfo", Base(f).finfo)
<1>1. OfBase(f) = "base"
  BY DEF OfBase
<1>2. /\ Base(f).finfo \in alloc["finfo"]
      /\ Base(f).finfo \notin linked["finfo"] \cup DOMAIN own["finfo"]
  <2> HIDE DEF InfoStage, InfoIndex
  <2> QED
    BY <1>1 DEF Inv, InfoBooks, Books
<1>3. Base(f).finfo \in Nat /\ Base(f).finfo \in DOMAIN base["finfo"]
  BY SceneFacts, BaseFacts DEF Inv, Typed
<1> QED
  BY <1>1, <1>2, <1>3 DEF CanLink, Present

\* A step of Create that only moves on leaves what is so of the chunks and of what
\* was read.
LEMMA ChecksStay ==
    ASSUME scene' = scene, NEW f \in Names, jobs'[f] = jobs[f]
    PROVE  /\ KeepBaseFinfo(f)' = KeepBaseFinfo(f) /\ AllDone(f)' = AllDone(f)
           /\ ZipsFInfo(f)' = ZipsFInfo(f) /\ WholeInfo(f)' = WholeInfo(f)
           /\ \A i \in DOMAIN jobs[f] : KeptAt(f, i)' <=> KeptAt(f, i)
<1>1. Live(f)' = Live(f) /\ OldLines(f)' = OldLines(f)
  BY SceneStays
<1> QED
  BY <1>1 DEF KeepBaseFinfo, AllDone, ZipsFInfo, WholeInfo, KeptAt

LEMMA KeepFInfoStep ==
    ASSUME Inv, NEW f \in Names, QueueOk(f), KeepFInfo(f)
    PROVE  Inv' /\ Grows
<1>1. Typed /\ FilesOk /\ FileOk(f) /\ ChunkBooks /\ InfoBooks
  BY DEF Inv, FilesOk
<1>2. ~failed /\ ChunksReady(f) /\ KeepBaseFinfo(f)
  BY DEF KeepFInfo
<1>3. /\ pc[f] \in {"link", "jobs"} /\ Live(f).size > 0 /\ Live(f).size \in Nat
      /\ entry[f] = Entry(Live(f), Base(f).comp, Base(f).finfo)
      /\ entry[f].finfo = Base(f).finfo
      /\ InfoStage[f] = OfBase(f)
      /\ OfBase(f) = "base" => InfoIndex[f] = Base(f).finfo
      /\ \/ Same(f) /\ LinkOk(f) /\ Len(jobs[f]) = Len(OldLines(f))
         \/ ~Same(f) /\ Anew(f) /\ ReadOk(f) /\ AllDone(f)
  BY <1>1, <1>2, ReadyFacts
<1>4. PICK idx \in Int : idx = Base(f).finfo
  BY <1>1, SceneFacts DEF Typed
<1>5. idx >= 0 => OfBase(f) = "base" /\ idx \in Nat /\ CanLink("finfo", idx)
  BY <1>3, <1>4, InfoOfBase DEF OfBase
<1>6. /\ pc' = [pc EXCEPT ![f] = "push"]
      /\ UNCHANGED <<scene, recs, jobs, entry, ZeroLenIdx, list, failed>>
      /\ base' = base /\ own' = own /\ alloc' = alloc
      /\ idx < 0 => linked' = linked
      /\ idx >= 0 => linked' = [linked EXCEPT !["finfo"] = linked["finfo"] \cup {idx}]
  <2>1. CASE idx < 0
    BY <1>3, <1>4, <2>1 DEF KeepFInfo, Goto, disk
  <2>2. CASE idx >= 0
    <3>1. Link("finfo", idx) /\ Goto(f, "push")
          /\ UNCHANGED <<scene, recs, jobs, entry, ZeroLenIdx, list, failed>>
      BY <1>3, <1>4, <1>5, <2>2 DEF KeepFInfo
    <3> QED
      BY <2>2, <3>1 DEF Goto, Link
  <2> QED
    BY <2>1, <2>2
<1>7. /\ pc' \in [Names -> Places] /\ pc'[f] = "push"
      /\ \A g \in Names : g # f => Rests(g)
  BY <1>1, <1>6 DEF Typed, Places, Rests
<1>8. /\ linked' \in [Kinds -> SUBSET Nat] /\ linked'["chunk"] = linked["chunk"]
      /\ idx < 0 => linked'["finfo"] = linked["finfo"]
      /\ idx >= 0 => linked'["finfo"] = linked["finfo"] \cup {idx}
  BY <1>1, <1>5, <1>6 DEF Typed, Kinds
<1>9. Grows
  BY <1>6, <1>8 DEF Grows, Kinds
<1>10. Typed'
  BY <1>1, <1>6, <1>7, <1>8 DEF Typed
<1>11. FileOk(f)'
  <2>1. CASE Same(f) /\ LinkOk(f) /\ Len(jobs[f]) = Len(OldLines(f))
    <3>1. LinkOk(f)'
      BY <1>6, <1>7, <2>1, SceneStays, ChecksStay DEF LinkOk
    <3> QED
      BY <1>3, <1>6, <1>7, <2>1, <3>1, SceneStays DEF FileOk
  <2>2. CASE ~Same(f) /\ Anew(f) /\ ReadOk(f) /\ AllDone(f)
    <3>1. \A i \in DOMAIN jobs'[f] : JobOk(f, i)'
      BY <1>6, <1>9, <2>2, JobOkStays DEF ReadOk
    <3>2. ReadOk(f)'
      BY <1>2, <1>3, <1>6, <1>7, <2>2, <3>1, SceneStays, ChecksStay DEF ReadOk
    <3> QED
      BY <1>3, <1>6, <1>7, <2>2, <3>2, SceneStays DEF FileOk
  <2> QED
    BY <1>3, <2>1, <2>2
<1>12. FilesOk'
  BY <1>1, <1>6, <1>7, <1>9, <1>11, FilesMove
<1>13. ChunkBooks'
  BY <1>1, <1>6, <1>8, ChunkBooksStay
<1>14. InfoBooks'
  <2>1. CASE idx < 0
    <3>1. InfoStageOf(f)' = "none" /\ OfBase(f) = "none"
      BY <1>3, <1>4, <1>6, <1>7, <2>1, SceneStays DEF InfoStageOf, OfBase
    <3>2. InfoStage'[f] = InfoStage[f] /\ InfoStage[f] = "none"
      BY <1>3, <3>1, InfoFacts
    <3> QED
      BY <1>1, <1>6, <1>7, <1>8, <2>1, <3>2, InfoSame
  <2>2. CASE idx >= 0
    <3>1. KeepBaseFinfo(f)'
      BY <1>2, <1>6, ChecksStay
    <3>2. InfoStageOf(f)' = "linked"
      BY <1>3, <1>4, <1>6, <1>7, <2>2, <3>1 DEF InfoStageOf
    <3>3. /\ InfoStage'[f] = "linked" /\ InfoIndex'[f] = idx
          /\ InfoStage[f] = "base" /\ InfoIndex[f] = idx
      BY <1>3, <1>4, <1>5, <1>6, <2>2, <3>2, InfoFacts
    <3>4. \A g \in Names : g # f =>
             InfoStage'[g] = InfoStage[g] /\ InfoIndex'[g] = InfoIndex[g]
      BY <1>6, <1>7, InfoStays DEF Rests
    <3> HIDE DEF InfoStage, InfoIndex
    <3>5. Books(Names, InfoStage, InfoIndex, alloc["finfo"], linked["finfo"], DOMAIN own["finfo"])
      BY <1>1 DEF InfoBooks
    <3>6. Books(Names, InfoStage', InfoIndex', alloc["finfo"],
                linked["finfo"] \cup {InfoIndex[f]}, DOMAIN own["finfo"])
      BY <3>3, <3>4, <3>5, BooksLink
    <3> QED
      BY <1>6, <1>8, <2>2, <3>3, <3>6 DEF InfoBooks
  <2> QED
    BY <2>1, <2>2
<1> QED
  BY <1>2, <1>6, <1>9, <1>10, <1>12, <1>13, <1>14 DEF Inv, ThrowsOnlyOnBadBase

LEMMA FreeFInfoStep ==
    ASSUME Inv, NEW f \in Names, QueueOk(f), FreeFInfo(f)
    PROVE  Inv' /\ Grows
<1>1. Typed /\ FilesOk /\ FileOk(f) /\ ChunkBooks /\ InfoBooks
  BY DEF Inv, FilesOk
<1>2. ~failed /\ ChunksReady(f) /\ ~KeepBaseFinfo(f) /\ entry[f].finfo >= 0
  BY DEF FreeFInfo
<1>3. /\ Live(f).size > 0 /\ Live(f).size \in Nat
      /\ entry[f] = Entry(Live(f), Base(f).comp, Base(f).finfo)
      /\ entry[f].finfo = Base(f).finfo
      /\ InfoStage[f] = OfBase(f)
      /\ OfBase(f) = "base" => InfoIndex[f] = Base(f).finfo
      /\ ~Same(f) /\ Anew(f) /\ ReadOk(f) /\ AllDone(f)
  BY <1>1, <1>2, ReadyFacts
<1>4. PICK idx \in Int : idx = Base(f).finfo
  BY <1>1, SceneFacts DEF Typed
<1>5. OfBase(f) = "base" /\ idx \in alloc["finfo"]
  BY <1>2, <1>3, <1>4, InfoOfBase DEF OfBase
<1>6. /\ pc' = [pc EXCEPT ![f] = "alloc"] /\ alloc' = [alloc EXCEPT !["finfo"] = @ \ {idx}]
      /\ UNCHANGED <<scene, recs, jobs, entry, ZeroLenIdx, list, failed, base, own, linked>>
  BY <1>3, <1>4, <1>5 DEF FreeFInfo, Free, Goto
<1>7. /\ pc' \in [Names -> Places] /\ pc'[f] = "alloc"
      /\ \A g \in Names : g # f => Rests(g)
  BY <1>1, <1>6 DEF Typed, Places, Rests
<1>8. /\ alloc' \in [Kinds -> SUBSET Nat] /\ alloc'["chunk"] = alloc["chunk"]
      /\ alloc'["finfo"] = alloc["finfo"] \ {idx}
  BY <1>1, <1>6 DEF Typed, Kinds
<1>9. Grows
  BY <1>6 DEF Grows
<1>10. Typed'
  BY <1>1, <1>6, <1>7, <1>8 DEF Typed
<1>11. FileOk(f)'
  <2>1. \A i \in DOMAIN jobs'[f] : JobOk(f, i)'
    BY <1>3, <1>6, <1>9, JobOkStays DEF ReadOk
  <2>2. ReadOk(f)'
    BY <1>2, <1>3, <1>6, <1>7, <2>1, SceneStays, ChecksStay DEF ReadOk
  <2> QED
    BY <1>3, <1>6, <1>7, <2>2, SceneStays DEF FileOk
<1>12. FilesOk'
  BY <1>1, <1>6, <1>7, <1>9, <1>11, FilesMove
<1>13. ChunkBooks'
  BY <1>1, <1>6, <1>8, ChunkBooksStay
<1>14. InfoBooks'
  <2>1. InfoStageOf(f)' = "none"
    BY <1>7 DEF InfoStageOf
  <2>2. InfoStage'[f] = "none" /\ InfoStage[f] = "base" /\ InfoIndex[f] = idx
    BY <1>3, <1>4, <1>5, <2>1, InfoFacts
  <2>3. \A g \in Names : g # f =>
           InfoStage'[g] = InfoStage[g] /\ InfoIndex'[g] = InfoIndex[g]
    BY <1>6, <1>7, InfoStays DEF Rests
  <2> HIDE DEF InfoStage, InfoIndex
  <2>4. Books(Names, InfoStage, InfoIndex, alloc["finfo"], linked["finfo"], DOMAIN own["finfo"])
    BY <1>1 DEF InfoBooks
  <2>5. Books(Names, InfoStage', InfoIndex', alloc["finfo"] \ {InfoIndex[f]},
              linked["finfo"], DOMAIN own["finfo"])
    BY <2>2, <2>3, <2>4, BooksFree
  <2> QED
    BY <1>6, <1>8, <2>2, <2>5 DEF InfoBooks
<1> QED
  BY <1>2, <1>6, <1>9, <1>10, <1>12, <1>13, <1>14 DEF Inv, ThrowsOnlyOnBadBase

\* Before its Alloc a file has no info block.
LEMMA AllocFInfoFacts ==
    ASSUME Inv, NEW f \in Names, QueueOk(f), AllocFInfo(f)
    PROVE  /\ Live(f).size > 0 /\ Live(f).size \in Nat
           /\ ~Same(f) /\ Anew(f) /\ ReadOk(f) /\ AllDone(f) /\ ~KeepBaseFinfo(f)
           /\ entry[f] = Entry(Live(f), Base(f).comp, Base(f).finfo)
           /\ entry[f].comp = Base(f).comp
           /\ InfoStage[f] = "none"
<1>1. Typed /\ FileOk(f)
  BY DEF Inv, FilesOk
<1>2. CASE pc[f] = "alloc"
  <2>1. Live(f).size \in Nat
    BY <1>1, SceneFacts DEF Typed
  <2>2. Live(f).size > 0 /\ ~Same(f) /\ Anew(f) /\ ReadOk(f)
    BY <1>1, <1>2, <2>1 DEF FileOk, EmptyOk, LinkOk
  <2>3. /\ AllDone(f) /\ ~KeepBaseFinfo(f)
        /\ entry[f] = Entry(Live(f), Base(f).comp, Base(f).finfo)
    BY <1>2, <2>2 DEF ReadOk
  <2>4. InfoStage[f] = "none"
    BY <1>2, InfoFacts DEF InfoStageOf
  <2>5. entry[f].comp = Base(f).comp
    BY <2>3 DEF Entry
  <2> QED
    BY <2>1, <2>2, <2>3, <2>4, <2>5
<1>3. CASE ChunksReady(f) /\ ~KeepBaseFinfo(f) /\ entry[f].finfo < 0
  <2>1. Base(f).finfo \in Int
    BY <1>1, SceneFacts DEF Typed
  <2> QED
    BY <1>1, <1>3, <2>1, ReadyFacts DEF OfBase
<1> QED
  BY <1>2, <1>3 DEF AllocFInfo

LEMMA AllocFInfoStep ==
    ASSUME Inv, NEW f \in Names, QueueOk(f), AllocFInfo(f)
    PROVE  Inv' /\ Grows
<1>1. Typed /\ FilesOk /\ FileOk(f) /\ ChunkBooks /\ InfoBooks
  BY DEF Inv, FilesOk
<1>2. /\ Live(f).size > 0 /\ Live(f).size \in Nat
      /\ ~Same(f) /\ Anew(f) /\ ReadOk(f) /\ AllDone(f) /\ ~KeepBaseFinfo(f)
      /\ entry[f].comp = Base(f).comp /\ InfoStage[f] = "none"
  BY AllocFInfoFacts
<1>3. PICK idx \in 0..Cardinality(alloc["finfo"]) :
         /\ Alloc("finfo", idx)
         /\ entry' = [entry EXCEPT ![f].finfo = idx,
                                   ![f].comp = IF ZipsFInfo(f) THEN "C" ELSE @]
  BY DEF AllocFInfo
<1>4. idx \in Nat
  BY <1>3
<1>5. PICK old \in Entries : old = entry[f]
  BY <1>1 DEF Typed
<1>6. PICK flag \in Flags : flag = IF ZipsFInfo(f) THEN "C" ELSE Base(f).comp
  BY <1>1, SceneFacts DEF Typed, Flags
<1>7. PICK new : new = [old EXCEPT !.finfo = idx, !.comp = flag]
  OBVIOUS
<1>8. new \in Entries /\ new.finfo = idx /\ new.comp = flag
  <2>1. PICK mid : mid = [old EXCEPT !.finfo = idx]
    OBVIOUS
  <2>2. mid \in Entries /\ mid.finfo = idx
    BY <1>4, <2>1 DEF Entries
  <2>3. new = [mid EXCEPT !.comp = flag]
    BY <1>7, <2>1
  <2> QED
    BY <2>2, <2>3 DEF Entries
<1>9. entry' = [entry EXCEPT ![f] = new]
  <2>1. [old EXCEPT !.finfo = idx, !.comp = IF ZipsFInfo(f) THEN "C" ELSE @] = new
    BY <1>2, <1>5, <1>6, <1>7 DEF Entries
  <2> QED
    BY <1>3, <1>5, <2>1
<1>10. /\ ~failed /\ pc' = [pc EXCEPT ![f] = "write"]
       /\ UNCHANGED <<scene, recs, jobs, ZeroLenIdx, list, failed>>
  BY DEF AllocFInfo, Goto
<1>11. /\ alloc' \in [Kinds -> SUBSET Nat] /\ idx \notin alloc["finfo"]
       /\ alloc'["finfo"] = alloc["finfo"] \cup {idx}
       /\ alloc'["chunk"] = alloc["chunk"]
       /\ base' = base /\ own' = own /\ linked' = linked
  BY <1>1, <1>3, <1>4 DEF Alloc, LowestFree, Typed, Kinds
<1>12. /\ pc' \in [Names -> Places] /\ pc'[f] = "write"
       /\ entry' \in [Names -> Entries] /\ entry'[f] = new
       /\ \A g \in Names : g # f => Rests(g)
  BY <1>1, <1>8, <1>9, <1>10 DEF Typed, Places, Rests
<1>13. Grows
  BY <1>11 DEF Grows
<1>14. Typed'
  BY <1>1, <1>10, <1>11, <1>12 DEF Typed
<1>15. FileOk(f)'
  <2>1. \A i \in DOMAIN jobs'[f] : JobOk(f, i)'
    BY <1>2, <1>10, <1>13, JobOkStays DEF ReadOk
  <2>2. ReadOk(f)'
    BY <1>2, <1>4, <1>6, <1>8, <1>10, <1>12, <2>1, SceneStays, ChecksStay DEF ReadOk
  <2> QED
    BY <1>2, <1>10, <1>12, <2>2, SceneStays DEF FileOk
<1>16. FilesOk'
  BY <1>1, <1>10, <1>12, <1>13, <1>15, FilesMove
<1>17. ChunkBooks'
  BY <1>1, <1>10, <1>11, ChunkBooksStay
<1>18. InfoBooks'
  <2>1. InfoStageOf(f)' = "new"
    BY <1>12 DEF InfoStageOf
  <2>2. InfoStage'[f] = "new" /\ InfoIndex'[f] = idx
    BY <1>8, <1>12, <2>1, InfoFacts
  <2>3. \A g \in Names : g # f =>
           InfoStage'[g] = InfoStage[g] /\ InfoIndex'[g] = InfoIndex[g]
    BY <1>10, <1>12, InfoStays DEF Rests
  <2> HIDE DEF InfoStage, InfoIndex
  <2>4. Books(Names, InfoStage, InfoIndex, alloc["finfo"], linked["finfo"], DOMAIN own["finfo"])
    BY <1>1 DEF InfoBooks
  <2>5. InfoIndex'[f] \notin alloc["finfo"] /\ InfoStage[f] = "none"
    BY <1>2, <1>11, <2>2
  <2>6. Books(Names, InfoStage', InfoIndex', alloc["finfo"] \cup {InfoIndex'[f]},
              linked["finfo"], DOMAIN own["finfo"])
    BY <2>2, <2>3, <2>4, <2>5, BooksAlloc
  <2> QED
    BY <1>11, <2>2, <2>6 DEF InfoBooks
<1> QED
  BY <1>10, <1>13, <1>14, <1>16, <1>17, <1>18 DEF Inv, ThrowsOnlyOnBadBase

\* What is written of a file that was read is an info block.
LEMMA FInfoType ==
    ASSUME Typed, NEW f \in Names, ReadOk(f)
    PROVE  Block(ZipsFInfo(f), WholeInfo(f)) \in FInfoBlocks
<1>1. jobs[f] \in Seq(JobRecs) /\ Live(f).chunks \in Seq(Data)
  BY SceneFacts DEF Typed
<1>2. PICK n \in Nat : DOMAIN jobs[f] = 1..n /\ DOMAIN Live(f).chunks = 1..n
  BY <1>1, LenProperties DEF ReadOk
<1>3. ASSUME NEW i \in 1..n
      PROVE  ChunkRec(jobs[f][i].comp, jobs[f][i].idx, Hash[Live(f).chunks[i]]) \in ChunkRecs
  <2>1. jobs[f][i] \in JobRecs /\ Live(f).chunks[i] \in Data
    BY <1>1, <1>2, LenProperties, ElementOfSeq
  <2>2. jobs[f][i].comp \in Flags /\ jobs[f][i].idx \in Nat
    BY <2>1 DEF JobRecs
  <2>3. Hash[Live(f).chunks[i]] \in Range(Hash)
    BY <2>1, DataAssumption DEF Range
  <2> QED
    BY <2>2, <2>3 DEF ChunkRec, ChunkRecs
<1>4. WholeInfo(f) \in [1..n -> ChunkRecs]
  BY <1>2, <1>3 DEF WholeInfo
<1>5. WholeInfo(f) \in Seq(ChunkRecs)
  BY <1>4, SeqDef
<1>6. PICK flag \in Flags : flag = Flag(ZipsFInfo(f))
  BY DEF Flag, Flags
<1>7. [zip |-> flag, data |-> WholeInfo(f)] \in FInfoBlocks
  BY <1>5 DEF FInfoBlocks
<1> QED
  BY <1>6, <1>7 DEF Block

\* Once the queue is empty the lines are those of all chunks.
LEMMA QueueEmptied ==
    ASSUME Typed, NEW f \in Names, QueueOk(f), pc[f] \in {"alloc", "write"}
    PROVE  FInfo[f] = WholeInfo(f)
<1>1. jobs[f] \in Seq(JobRecs) /\ FInfo[f] \in Seq(ChunkRecs)
  BY DEF Typed, QueueOk
<1>2. PICK n \in Nat : Len(jobs[f]) = n /\ DOMAIN jobs[f] = 1..n
  BY <1>1, LenProperties
<1>3. Len(FInfo[f]) = n
  BY <1>2 DEF QueueOk
<1>4. FInfo[f] \in [1..n -> ChunkRecs]
  BY <1>1, <1>3, LenProperties
<1>5. \A i \in 1..n : FInfo[f][i] = WholeInfo(f)[i]
  BY <1>2, <1>3 DEF QueueOk, WholeInfo, LineOf
<1>6. WholeInfo(f) = [i \in 1..n |-> WholeInfo(f)[i]]
  BY <1>2 DEF WholeInfo
<1> QED
  BY <1>4, <1>5, <1>6

LEMMA WriteFInfoStep ==
    ASSUME Inv, NEW f \in Names, QueueOk(f), WriteFInfo(f)
    PROVE  Inv' /\ Grows
<1>1. Typed /\ FilesOk /\ FileOk(f) /\ ChunkBooks /\ InfoBooks
  BY DEF Inv, FilesOk
<1>2. /\ ~failed /\ pc[f] = "write" /\ pc' = [pc EXCEPT ![f] = "push"]
      /\ SpitBlock("finfo", entry[f].finfo, Block(ZipsFInfo(f), WholeInfo(f)))
      /\ UNCHANGED <<scene, recs, jobs, entry, ZeroLenIdx, list, failed>>
  <2>1. pc[f] = "write"
    BY DEF WriteFInfo
  <2>2. FInfo[f] = WholeInfo(f)
    BY <1>1, <2>1, QueueEmptied
  <2> QED
    BY <2>2 DEF WriteFInfo, Goto
<1>3. Live(f).size \in Nat /\ Live(f).size > 0 /\ ~Same(f) /\ Anew(f) /\ ReadOk(f)
  <2>1. Live(f).size \in Nat
    BY <1>1, SceneFacts DEF Typed
  <2> QED
    BY <1>1, <1>2, <2>1 DEF FileOk, EmptyOk, LinkOk
<1>4. /\ AllDone(f) /\ ~KeepBaseFinfo(f) /\ entry[f].finfo \in Nat
      /\ entry[f].comp = IF ZipsFInfo(f) THEN "C" ELSE Base(f).comp
  BY <1>2, <1>3 DEF ReadOk
<1>5. PICK idx \in Nat : idx = entry[f].finfo
  BY <1>4
<1>6. PICK block \in FInfoBlocks : block = Block(ZipsFInfo(f), WholeInfo(f))
  BY <1>1, <1>3, FInfoType
<1>7. InfoStage[f] = "new" /\ InfoIndex[f] = idx
  <2>1. InfoStageOf(f) = "new"
    BY <1>2 DEF InfoStageOf
  <2> QED
    BY <1>5, <2>1, InfoFacts
<1>8. Books(Names, InfoStage, InfoIndex, alloc["finfo"], linked["finfo"], DOMAIN own["finfo"])
  BY <1>1 DEF InfoBooks
<1>9. idx \notin linked["finfo"] \cup DOMAIN own["finfo"]
  <2> HIDE DEF InfoStage, InfoIndex
  <2> QED
    BY <1>7, <1>8 DEF Books
<1>10. /\ base' = base /\ linked' = linked /\ alloc' = alloc /\ DOMAIN own' = Kinds
       /\ own'["chunk"] = own["chunk"]
       /\ DOMAIN own'["finfo"] = DOMAIN own["finfo"] \cup {idx}
       /\ own'["finfo"][idx] = block
       /\ \A x \in DOMAIN own["finfo"] : own'["finfo"][x] = own["finfo"][x]
       /\ own'["finfo"] = [x \in DOMAIN own'["finfo"] |-> own'["finfo"][x]]
       /\ Grows
  BY <1>1, <1>2, <1>5, <1>6, <1>9, SpitFacts DEF Kinds
<1>11. /\ pc' \in [Names -> Places] /\ pc'[f] = "push"
       /\ \A g \in Names : g # f => Rests(g)
  BY <1>1, <1>2 DEF Typed, Places, Rests
<1>12. Typed'
  <2>1. own["finfo"] \in [DOMAIN own["finfo"] -> FInfoBlocks]
    BY <1>1 DEF Typed
  <2>2. \A x \in DOMAIN own'["finfo"] : own'["finfo"][x] \in FInfoBlocks
    BY <1>10, <2>1
  <2>3. own'["finfo"] \in [DOMAIN own'["finfo"] -> FInfoBlocks]
    BY <1>10, <2>2
  <2> QED
    BY <1>1, <1>2, <1>10, <1>11, <2>3 DEF Typed
<1>13. FileOk(f)'
  <2>1. \A i \in DOMAIN jobs'[f] : JobOk(f, i)'
    BY <1>2, <1>3, <1>10, JobOkStays DEF ReadOk
  <2>2. ReadOk(f)'
    BY <1>2, <1>3, <1>4, <1>5, <1>6, <1>10, <1>11, <2>1, SceneStays, ChecksStay DEF ReadOk
  <2> QED
    BY <1>2, <1>3, <1>11, <2>2, SceneStays DEF FileOk
<1>14. FilesOk'
  BY <1>1, <1>2, <1>10, <1>11, <1>13, FilesMove
<1>15. ChunkBooks'
  BY <1>1, <1>2, <1>10, ChunkBooksStay
<1>16. InfoBooks'
  <2>1. InfoStageOf(f)' = "written"
    <3>1. ~KeepBaseFinfo(f)' /\ entry'[f].finfo >= 0
      BY <1>2, <1>4, ChecksStay
    <3> QED
      BY <1>11, <3>1 DEF InfoStageOf
  <2>2. InfoStage'[f] = "written" /\ InfoIndex'[f] = InfoIndex[f]
    BY <1>2, <1>5, <1>7, <2>1, InfoFacts
  <2>3. \A g \in Names : g # f =>
           InfoStage'[g] = InfoStage[g] /\ InfoIndex'[g] = InfoIndex[g]
    BY <1>2, <1>11, InfoStays DEF Rests
  <2> HIDE DEF InfoStage, InfoIndex
  <2>4. Books(Names, InfoStage', InfoIndex', alloc["finfo"], linked["finfo"],
              DOMAIN own["finfo"] \cup {InfoIndex[f]})
    BY <1>7, <1>8, <2>2, <2>3, BooksWrite
  <2> QED
    BY <1>7, <1>10, <2>4 DEF InfoBooks
<1> QED
  BY <1>2, <1>10, <1>12, <1>14, <1>15, <1>16 DEF Inv, ThrowsOnlyOnBadBase

LEMMA PushListEntryStep ==
    ASSUME Inv, NEW f \in Names, PushListEntry(f)
    PROVE  Inv' /\ Grows
<1>1. Typed /\ FilesOk /\ FileOk(f) /\ ChunkBooks /\ InfoBooks
  BY DEF Inv, FilesOk
<1>2. /\ ~failed /\ pc[f] = "push" /\ pc' = [pc EXCEPT ![f] = "done"]
      /\ list' = [list EXCEPT ![f] = entry[f]]
      /\ UNCHANGED <<scene, base, own, linked, alloc, recs, jobs, entry, ZeroLenIdx, failed>>
  BY DEF PushListEntry, Goto, disk
<1>3. /\ pc' \in [Names -> Places] /\ pc'[f] = "done"
      /\ list' \in [Names -> Entries] /\ list'[f] = entry[f]
      /\ \A g \in Names : g # f => Rests(g)
  BY <1>1, <1>2 DEF Typed, Places, Rests
<1>4. Grows
  BY <1>2 DEF Grows
<1>5. Typed'
  BY <1>1, <1>2, <1>3 DEF Typed
<1>6. FileOk(f)'
  <2>1. EmptyOk(f) => EmptyOk(f)'
    BY <1>2, <1>3 DEF EmptyOk
  <2>2. LinkOk(f) => LinkOk(f)'
    BY <1>2, <1>3, SceneStays, ChecksStay DEF LinkOk
  <2>3. ReadOk(f) => ReadOk(f)'
    <3> SUFFICES ASSUME ReadOk(f) PROVE ReadOk(f)'
      OBVIOUS
    <3>1. \A i \in DOMAIN jobs'[f] : JobOk(f, i)'
      BY <1>2, <1>4, JobOkStays DEF ReadOk
    <3> QED
      BY <1>2, <1>3, <3>1, SceneStays, ChecksStay DEF ReadOk
  <2> QED
    BY <1>1, <1>2, <1>3, <2>1, <2>2, <2>3, SceneStays DEF FileOk
<1>7. FilesOk'
  BY <1>1, <1>2, <1>3, <1>4, <1>6, FilesMove
<1>8. ChunkBooks'
  BY <1>1, <1>2, ChunkBooksStay
<1>9. InfoBooks'
  <2>1. InfoStageOf(f)' = InfoStageOf(f)
    BY <1>2, <1>3, SceneStays, ChecksStay DEF InfoStageOf, OfBase
  <2>2. InfoStage'[f] = InfoStage[f] /\ InfoIndex'[f] = InfoIndex[f]
    BY <1>2, <2>1, InfoFacts, SceneStays
  <2> QED
    BY <1>1, <1>2, <1>3, <2>2, InfoSame
<1> QED
  BY <1>2, <1>4, <1>5, <1>7, <1>8, <1>9 DEF Inv, ThrowsOnlyOnBadBase

-----------------------------------------------------------------------------
(* The invariant holds always. *)

LEMMA InitInv ==
    ASSUME \A s \in Scenes : Unshared(s), Init
    PROVE  Inv
<1>1. scene \in Scenes /\ IsScene(scene) /\ Unshared(scene)
  BY ScenesAssumption DEF Init
<1>2. \A f \in Names : NoEntry \in Entries
  BY DEF NoEntry, NoFInfo, Entries, Flags
<1>3. /\ <<>> \in Seq(ChunkRecs) /\ <<>> \in Seq(JobRecs) /\ DOMAIN <<>> = {}
      /\ <<>> \in [{} -> ChunkBlocks] /\ <<>> \in [{} -> FInfoBlocks]
  BY EmptySeq
<1>4. \A k \in Kinds : DOMAIN scene.base[k] \subseteq Nat
  BY <1>1 DEF IsScene
<1>5. /\ own["chunk"] = <<>> /\ own["finfo"] = <<>> /\ DOMAIN own = Kinds
      /\ linked["chunk"] = {} /\ linked["finfo"] = {}
      /\ alloc["chunk"] = DOMAIN scene.base["chunk"]
      /\ alloc["finfo"] = DOMAIN scene.base["finfo"]
  BY DEF Init, Kinds
<1>6. Typed
  <2>1. linked \in [Kinds -> SUBSET Nat] /\ alloc \in [Kinds -> SUBSET Nat]
    BY <1>4 DEF Init
  <2>2. /\ pc \in [Names -> Places] /\ entry \in [Names -> Entries] /\ list \in [Names -> Entries]
        /\ recs \in [Names -> Seq(ChunkRecs)] /\ jobs \in [Names -> Seq(JobRecs)]
    BY <1>2, <1>3 DEF Init, Places
  <2>3. own["chunk"] \in [DOMAIN own["chunk"] -> ChunkBlocks]
    BY <1>3, <1>5
  <2>4. own["finfo"] \in [DOMAIN own["finfo"] -> FInfoBlocks]
    BY <1>3, <1>5
  <2>5. base = [k \in Kinds |-> scene.base[k]]
    BY DEF Init
  <2>6. ZeroLenIdx \in Int /\ ZeroLenIdx < 0
    <3>1. ZeroLenIdx = -1
      BY DEF Init
    <3> QED
      BY <3>1
  <2>7. failed \in BOOLEAN
    BY DEF Init
  <2> QED
    BY <1>1, <1>5, <2>1, <2>2, <2>3, <2>4, <2>5, <2>6, <2>7 DEF Typed
<1>7. FilesOk
  <2> SUFFICES ASSUME NEW f \in Names PROVE FileOk(f)
    BY DEF FilesOk
  <2>1. pc[f] = "start" /\ recs[f] = <<>> /\ jobs[f] = <<>>
    BY DEF Init
  <2> QED
    BY <2>1 DEF FileOk, EmptyOk
<1>8. ASSUME NEW f \in Names, NEW i \in Nat
      PROVE  /\ StageAt(f, i) = OfSlot(f, i)
             /\ i \in DOMAIN OldLines(f) =>
                   /\ IndexAt(f, i) = OldLines(f)[i].idx
                   /\ OldLines(f)[i].idx \in DOMAIN scene.base["chunk"]
  <2>1. jobs[f] = <<>>
    BY DEF Init
  <2>2. StageAt(f, i) = OfSlot(f, i)
    BY <1>3, <2>1 DEF StageAt
  <2> QED
    BY <1>1, <2>2, SceneFacts DEF IndexAt, OfSlot
<1>9. ChunkBooks
  <2>1. ASSUME NEW p \in Slots
        PROVE  /\ p[1] \in Names /\ p[2] \in Nat /\ p = <<p[1], p[2]>>
               /\ ChunkStage[p] \in {"none", "base"}
               /\ ChunkStage[p] = "base" =>
                     /\ p[2] \in DOMAIN OldLines(p[1])
                     /\ ChunkIndex[p] = OldLines(p[1])[p[2]].idx
                     /\ ChunkIndex[p] \in alloc["chunk"]
    <3>1. p[1] \in Names /\ p[2] \in Nat /\ p = <<p[1], p[2]>>
      BY DEF Slots
    <3>2. StageAt(p[1], p[2]) = OfSlot(p[1], p[2])
      BY <1>8, <3>1
    <3>3. StageAt(p[1], p[2]) = "base" =>
             /\ p[2] \in DOMAIN OldLines(p[1])
             /\ IndexAt(p[1], p[2]) = OldLines(p[1])[p[2]].idx
             /\ IndexAt(p[1], p[2]) \in alloc["chunk"]
      BY <1>5, <1>8, <3>1, <3>2 DEF OfSlot
    <3> QED
      BY <3>1, <3>2, <3>3 DEF ChunkStage, ChunkIndex, OfSlot
  <2>2. ASSUME NEW p \in Slots, NEW q \in Slots,
               ChunkStage[p] # "none", ChunkStage[q] # "none", ChunkIndex[p] = ChunkIndex[q]
        PROVE  p = q
    <3>1. p[1] = q[1] /\ p[2] = q[2]
      BY <1>1, <2>1, <2>2 DEF Unshared, OldLines
    <3> QED
      BY <2>1, <3>1
  <2> HIDE DEF ChunkStage, ChunkIndex, Slots
  <2> QED
    BY <1>3, <1>5, <2>1, <2>2 DEF ChunkBooks, Books, Stages
<1>10. InfoBooks
  <2>1. ASSUME NEW f \in Names
        PROVE  /\ InfoStage[f] \in {"none", "base"}
               /\ InfoStage[f] = "base" =>
                     /\ InfoIndex[f] = Base(f).finfo /\ Base(f).finfo >= 0
                     /\ InfoIndex[f] \in alloc["finfo"]
    <3>1. InfoStageOf(f) = OfBase(f)
      BY DEF Init, InfoStageOf
    <3>2. Base(f).finfo >= 0 => Base(f).finfo \in alloc["finfo"]
      BY <1>1, <1>5, SceneFacts
    <3> QED
      BY <3>1, <3>2, InfoFacts DEF OfBase
  <2>2. ASSUME NEW f \in Names, NEW g \in Names,
               InfoStage[f] # "none", InfoStage[g] # "none", InfoIndex[f] = InfoIndex[g]
        PROVE  f = g
    BY <1>1, <2>1, <2>2 DEF Unshared, Base
  <2> HIDE DEF InfoStage, InfoIndex
  <2> QED
    BY <1>3, <1>5, <2>1, <2>2 DEF InfoBooks, Books, Stages
<1> QED
  BY <1>6, <1>7, <1>9, <1>10 DEF Inv, ThrowsOnlyOnBadBase, Init

\* A step that none of this sees.
LEMMA InvStays ==
    ASSUME Inv, UNCHANGED <<scene, disk, pc, recs, jobs, entry, ZeroLenIdx, list, failed>>
    PROVE  Inv' /\ Grows
<1>1. /\ scene' = scene /\ base' = base /\ own' = own /\ linked' = linked /\ alloc' = alloc
      /\ pc' = pc /\ recs' = recs /\ jobs' = jobs /\ entry' = entry
      /\ ZeroLenIdx' = ZeroLenIdx /\ list' = list /\ failed' = failed
  BY DEF disk
<1>2. Typed' /\ Grows /\ \A f \in Names : Rests(f)
  BY <1>1 DEF Inv, Typed, Grows, Rests
<1>3. FilesOk'
  BY <1>1, <1>2, FileStays DEF Inv, FilesOk
<1>4. ChunkBooks' /\ InfoBooks'
  BY <1>1, ChunkBooksStay, InfoBooksStay DEF Inv
<1>5. ThrowsOnlyOnBadBase'
  BY <1>1 DEF Inv, ThrowsOnlyOnBadBase, Live, BaseReadable, BaseFInfo, Base
<1> QED
  BY <1>2, <1>3, <1>4, <1>5 DEF Inv

\* A step of any kind.
LEMMA NextStep ==
    ASSUME Inv, QueuesOk, Next
    PROVE  Inv' /\ Grows
<1>1. PICK f \in Names : FileStep(f) \/ \E i \in DOMAIN jobs[f] : JobStep(f, i)
  BY DEF Next
<1>2. QueueOk(f)
  BY DEF QueuesOk
<1>3. CASE CheckReturns(f)
  BY <1>3, InvStays DEF CheckReturns
<1>4. CASE FileStep(f)
  BY <1>2, <1>3, <1>4, StartEmptyStep, StartReadStep, StartLinkStep, StartFailsStep, LinkNextStep,
     KeepFInfoStep, FreeFInfoStep, AllocFInfoStep, WriteFInfoStep, PushListEntryStep
  DEF FileStep
<1>5. ASSUME NEW i \in DOMAIN jobs[f], JobStep(f, i) PROVE Inv' /\ Grows
  BY <1>5, KeepChunkStep, FreeChunkStep, AllocChunkStep, WriteChunkStep DEF JobStep
<1> QED
  BY <1>1, <1>4, <1>5

-----------------------------------------------------------------------------
(* The queue. *)

\* What is so of a queue stays so while its file's task and jobs stand still.
LEMMA QueueStays ==
    ASSUME NEW g \in Names, QueueOk(g), scene' = scene, FInfo'[g] = FInfo[g],
           jobs'[g] = jobs[g], pc'[g] = pc[g]
    PROVE  QueueOk(g)'
<1>1. \A i : LineOf(g, i)' = LineOf(g, i)
  BY DEF LineOf, Live
<1> QED
  BY <1>1 DEF QueueOk

\* The line of a chunk that was read is one of an info block.
LEMMA LineType ==
    ASSUME Typed, NEW f \in Names, ReadOk(f), NEW i \in DOMAIN jobs[f]
    PROVE  LineOf(f, i) \in ChunkRecs
<1>1. jobs[f] \in Seq(JobRecs) /\ Live(f).chunks \in Seq(Data) /\ i \in DOMAIN Live(f).chunks
  BY SceneFacts DEF Typed, ReadOk
<1>2. jobs[f][i] \in JobRecs /\ Live(f).chunks[i] \in Data
  BY <1>1, LenProperties, ElementOfSeq
<1>3. jobs[f][i].comp \in Flags /\ jobs[f][i].idx \in Nat
  BY <1>2 DEF JobRecs
<1>4. Hash[Live(f).chunks[i]] \in Range(Hash)
  BY <1>2, DataAssumption DEF Range
<1> QED
  BY <1>3, <1>4 DEF LineOf, ChunkRec, ChunkRecs

\* CheckReturns takes the next line.
LEMMA QueueTakes ==
    ASSUME Inv, NEW f \in Names, QueueOk(f), FInfo = [g \in Names |-> FInfo[g]], CheckReturns(f)
    PROVE  QueueOk(f)'
<1>1. /\ pc[f] = "jobs" /\ pc' = pc /\ jobs' = jobs /\ scene' = scene
      /\ At(f, Len(FInfo[f]) + 1, "done")
      /\ FInfo'[f] = Append(FInfo[f], LineOf(f, Len(FInfo[f]) + 1))
  BY DEF CheckReturns
<1>2. PICK n \in Nat : n = Len(FInfo[f])
  BY LenProperties DEF QueueOk
<1>3. n + 1 \in DOMAIN jobs[f] /\ jobs[f][n + 1].st = "done"
  BY <1>1, <1>2 DEF At
<1>4. jobs[f] \in Seq(JobRecs) /\ FileOk(f) /\ Live(f).size \in Nat
  BY SceneFacts DEF Inv, Typed, FilesOk
<1>5. n + 1 <= Len(jobs[f])
  BY <1>3, <1>4, LenProperties
<1>6. ReadOk(f)
  BY <1>1, <1>4 DEF FileOk, EmptyOk, LinkOk
<1>7. PICK line \in ChunkRecs : line = LineOf(f, n + 1)
  BY <1>3, <1>6, LineType DEF Inv
<1>8. FInfo[f] \in Seq(ChunkRecs) /\ FInfo'[f] = Append(FInfo[f], line)
  BY <1>1, <1>2, <1>7 DEF QueueOk
<1>9. /\ FInfo'[f] \in Seq(ChunkRecs) /\ Len(FInfo'[f]) = n + 1
      /\ FInfo'[f][n + 1] = line
      /\ \A i \in 1..n : FInfo'[f][i] = FInfo[f][i]
  BY <1>2, <1>8, AppendProperties
<1>10. \A i : LineOf(f, i)' = LineOf(f, i)
  BY <1>1 DEF LineOf, Live
<1>11. \A i \in 1..n : jobs[f][i].st = "done" /\ FInfo[f][i] = LineOf(f, i)
  BY <1>1, <1>2 DEF QueueOk
<1>12. \A i \in 1..n + 1 : jobs[f][i].st = "done" /\ FInfo'[f][i] = LineOf(f, i)
  <2> SUFFICES ASSUME NEW i \in 1..n + 1
               PROVE  jobs[f][i].st = "done" /\ FInfo'[f][i] = LineOf(f, i)
    OBVIOUS
  <2>1. CASE i = n + 1
    BY <1>3, <1>7, <1>9, <2>1
  <2>2. CASE i \in 1..n
    BY <1>9, <1>11, <2>2
  <2> QED
    BY <2>1, <2>2
<1> QED
  BY <1>1, <1>5, <1>9, <1>10, <1>12 DEF QueueOk

\* A job that goes on is not one whose line has been taken.
LEMMA QueueKeepsJobs ==
    ASSUME Inv, NEW f \in Names, QueueOk(f), NEW i \in DOMAIN jobs[f], JobStep(f, i)
    PROVE  QueueOk(f)'
<1>1. /\ jobs \in [Names -> Seq(JobRecs)] /\ pc' = pc /\ scene' = scene /\ FInfo' = FInfo
      /\ jobs[f][i].st # "done"
      /\ jobs' = jobs \/ \E job : SetJob(f, i, job)
  BY DEF Inv, Typed, JobStep, KeepChunk, FreeChunk, AllocChunk, WriteChunk, At, Throw
<1>2. CASE jobs' = jobs
  BY <1>1, <1>2, QueueStays
<1>3. ASSUME NEW job, SetJob(f, i, job) PROVE QueueOk(f)'
  <2>1. jobs'[f] = [jobs[f] EXCEPT ![i] = job]
    BY <1>1, <1>3 DEF SetJob
  <2>2. Len(jobs'[f]) = Len(jobs[f])
    <3>1. PICK n \in Nat : DOMAIN jobs[f] = 1..n /\ Len(jobs[f]) = n
      BY <1>1, LenProperties
    <3>2. jobs'[f] = [j \in 1..n |-> jobs'[f][j]]
      BY <2>1, <3>1
    <3>3. jobs'[f] \in Seq({jobs'[f][j] : j \in 1..n})
      BY <3>1, <3>2, SeqDef
    <3> QED
      BY <3>1, <3>2, <3>3, LenProperties
  <2>3. \A j : j # i => jobs'[f][j] = jobs[f][j]
    BY <1>1, <2>1
  <2>4. \A j : j # i => LineOf(f, j)' = LineOf(f, j)
    BY <1>1, <2>3 DEF LineOf, Live
  <2>5. pc[f] \in {"jobs", "alloc", "write"} => i \notin 1..Len(FInfo[f])
    BY <1>1 DEF QueueOk
  <2> QED
    BY <1>1, <2>2, <2>3, <2>4, <2>5 DEF QueueOk
<1> QED
  BY <1>1, <1>2, <1>3

\* Create's own steps.
LEMMA QueueKeepsCreate ==
    ASSUME Inv, NEW f \in Names, QueueOk(f), FileStep(f), ~CheckReturns(f)
    PROVE  QueueOk(f)'
<1>1. FInfo' = FInfo /\ scene' = scene /\ pc \in [Names -> Places] /\ FileOk(f)
  BY DEF Inv, Typed, FilesOk, FileStep, StartEmpty, StartRead, StartLink, StartFails, LinkNext,
     KeepFInfo, FreeFInfo, AllocFInfo, WriteFInfo, PushListEntry, Throw, disk
<1>2. jobs \in [Names -> Seq(JobRecs)] /\ Len(jobs[f]) \in Nat
  BY LenProperties DEF Inv, Typed
<1>3. ASSUME pc'[f] \in {"push", "done"} PROVE QueueOk(f)'
  BY <1>1, <1>3 DEF QueueOk
<1>4. CASE Throw
  BY <1>4, QueueStays DEF Throw
<1>5. CASE StartEmpty(f) \/ PushListEntry(f) \/ WriteFInfo(f)
  BY <1>1, <1>3, <1>5 DEF StartEmpty, PushListEntry, WriteFInfo, Goto
<1>6. CASE StartRead(f)
  <2>1. FInfo[f] = <<>> /\ pc'[f] = "jobs" /\ jobs' = [jobs EXCEPT ![f] = jobs'[f]]
    BY <1>1, <1>6 DEF StartRead, Goto, QueueOk
  <2>2. Len(FInfo[f]) = 0
    BY <2>1, EmptySeq
  <2>3. Len(jobs'[f]) \in Nat
    <3>1. jobs'[f] = [i \in DOMAIN Live(f).chunks |-> Job("hash", "U", 0, FALSE)]
      BY <1>2, <1>6 DEF StartRead
    <3>2. Live(f).chunks \in Seq(Data)
      BY SceneFacts DEF Inv, Typed
    <3>3. PICK n \in Nat : DOMAIN Live(f).chunks = 1..n
      BY <3>2, LenProperties
    <3>4. jobs'[f] \in [1..n -> {Job("hash", "U", 0, FALSE)}]
      BY <3>1, <3>3
    <3>5. jobs'[f] \in Seq({Job("hash", "U", 0, FALSE)})
      BY <3>4, SeqDef
    <3> QED
      BY <3>5, LenProperties
  <2> QED
    BY <1>1, <2>1, <2>2, <2>3 DEF QueueOk
<1>7. CASE StartLink(f)
  BY <1>1, <1>7 DEF StartLink, Goto, QueueOk
<1>8. CASE StartFails(f)
  BY <1>4, <1>8 DEF StartFails
<1>9. CASE LinkNext(f) /\ ~Throw
  <2>1. pc' = pc /\ pc[f] = "link"
    BY <1>9 DEF LinkNext
  <2> QED
    BY <1>1, <2>1 DEF QueueOk
<1>10. CASE KeepFInfo(f) /\ ~Throw
  <2>1. pc'[f] = "push"
    BY <1>1, <1>10 DEF KeepFInfo, Goto
  <2> QED
    BY <1>3, <2>1
<1>11. ASSUME ChunksReady(f), ~KeepBaseFinfo(f)
       PROVE  pc[f] = "jobs" /\ Len(FInfo[f]) = Len(jobs[f])
  <2>1. ~Same(f) /\ Live(f).size > 0 /\ Live(f).size \in Nat /\ ReadOk(f)
    BY <1>1, <1>11, ReadyFacts DEF Inv
  <2> QED
    BY <1>11, <2>1 DEF ChunksReady, ReadOk
<1>12. CASE FreeFInfo(f) /\ ~Throw
  <2>1. /\ pc'[f] = "alloc" /\ jobs' = jobs /\ ChunksReady(f) /\ ~KeepBaseFinfo(f)
    BY <1>1, <1>12 DEF FreeFInfo, Goto
  <2>2. \A i : LineOf(f, i)' = LineOf(f, i)
    BY <1>1, <2>1 DEF LineOf, Live
  <2> QED
    BY <1>1, <1>11, <2>1, <2>2 DEF QueueOk
<1>13. CASE AllocFInfo(f)
  <2>1. pc'[f] = "write" /\ jobs' = jobs
    BY <1>1, <1>13 DEF AllocFInfo, Goto
  <2>2. pc[f] = "alloc" \/ (ChunksReady(f) /\ ~KeepBaseFinfo(f))
    BY <1>13 DEF AllocFInfo
  <2>3. \A i : LineOf(f, i)' = LineOf(f, i)
    BY <1>1, <2>1 DEF LineOf, Live
  <2> QED
    BY <1>1, <1>11, <2>1, <2>2, <2>3 DEF QueueOk
<1> QED
  BY <1>4, <1>5, <1>6, <1>7, <1>8, <1>9, <1>10, <1>12, <1>13 DEF FileStep

LEMMA QueuesStep ==
    ASSUME Inv, QueuesOk, Next
    PROVE  QueuesOk'
<1>1. PICK f \in Names : FileStep(f) \/ \E i \in DOMAIN jobs[f] : JobStep(f, i)
  BY DEF Next
<1>2. /\ QueueOk(f) /\ FInfo = [g \in Names |-> FInfo[g]]
      /\ pc \in [Names -> Places] /\ jobs \in [Names -> Seq(JobRecs)]
  BY DEF QueuesOk, Inv, Typed
<1>3. QueueOk(f)'
  BY <1>1, <1>2, QueueTakes, QueueKeepsCreate, QueueKeepsJobs
<1>4. /\ scene' = scene
      /\ FInfo' = FInfo \/ FInfo' = [FInfo EXCEPT ![f] = FInfo'[f]]
      /\ pc' = pc \/ pc' = [pc EXCEPT ![f] = pc'[f]]
      /\ jobs' = jobs \/ jobs' = [jobs EXCEPT ![f] = jobs'[f]]
  <2>1. CASE \E i \in DOMAIN jobs[f] : JobStep(f, i)
    BY <1>2, <2>1 DEF JobStep, KeepChunk, FreeChunk, AllocChunk, WriteChunk, Throw, SetJob
  <2>2. CASE StartEmpty(f) \/ StartRead(f) \/ StartLink(f) \/ StartFails(f) \/ LinkNext(f)
    BY <1>2, <2>2 DEF StartEmpty, StartRead, StartLink, StartFails, LinkNext, Throw, Goto, disk
  <2>3. CASE CheckReturns(f)
    BY <1>2, <2>3 DEF CheckReturns
  <2>4. CASE \/ KeepFInfo(f) \/ FreeFInfo(f) \/ AllocFInfo(f) \/ WriteFInfo(f)
             \/ PushListEntry(f)
    BY <1>2, <2>4 DEF KeepFInfo, FreeFInfo, AllocFInfo, WriteFInfo, PushListEntry, Throw,
       Goto, disk
  <2> QED
    BY <1>1, <2>1, <2>2, <2>3, <2>4 DEF FileStep
<1>5. \A g \in Names : g # f =>
         FInfo'[g] = FInfo[g] /\ pc'[g] = pc[g] /\ jobs'[g] = jobs[g]
  BY <1>2, <1>4
<1>6. \A g \in Names : QueueOk(g)'
  BY <1>3, <1>4, <1>5, QueueStays DEF QueuesOk
<1>7. FInfo' = [g \in Names |-> FInfo'[g]]
  BY <1>2, <1>4
<1> QED
  BY <1>6, <1>7 DEF QueuesOk

LEMMA InitQueues ==
    ASSUME Init
    PROVE  QueuesOk
<1>1. \A f \in Names : FInfo[f] = <<>> /\ pc[f] = "start"
  BY DEF Init
<1>2. FInfo = [f \in Names |-> FInfo[f]]
  BY DEF Init
<1>3. <<>> \in Seq(ChunkRecs)
  BY EmptySeq
<1> QED
  BY <1>1, <1>2, <1>3 DEF QueuesOk, QueueOk

LEMMA StutterQueues ==
    ASSUME QueuesOk, UNCHANGED vars
    PROVE  QueuesOk'
BY QueueStays DEF vars, QueuesOk

\* The invariant, for every base that does not share a block between two places: an
\* index of the base is kept, freed or left by the one file it belongs to, and no
\* other can get it meanwhile; and the lines of an info block come in the order of the
\* chunks, in whatever order their jobs end.
THEOREM Invariant ==
    ASSUME \A s \in Scenes : Unshared(s)
    PROVE  Spec => [](Inv /\ QueuesOk)
<1>1. Init => Inv /\ QueuesOk
  BY InitInv, InitQueues
<1>2. ASSUME Inv, QueuesOk, UNCHANGED vars PROVE Inv'
  <2>1. UNCHANGED <<scene, disk, pc, recs, jobs, entry, ZeroLenIdx, list, failed>>
    BY <1>2 DEF vars
  <2> QED
    BY <1>2, <2>1, InvStays
<1>3. Inv /\ QueuesOk /\ [Next]_vars => (Inv /\ QueuesOk)'
  BY <1>2, NextStep, QueuesStep, StutterQueues
<1> QED
  BY <1>1, <1>3, PTL DEF Spec

\* The block directories hold blocks, and their indexes are natural numbers.
THEOREM TypeCorrect ==
    ASSUME \A s \in Scenes : Unshared(s)
    PROVE  Spec => []TypeOK
<1>1. Inv => TypeOK
  <2> SUFFICES ASSUME Typed PROVE TypeOK
    BY DEF Inv
  <2>1. IsScene(scene) /\ base["chunk"] = scene.base["chunk"] /\ base["finfo"] = scene.base["finfo"]
    BY ScenesAssumption DEF Typed, Kinds
  <2>2. /\ base["chunk"] \in [DOMAIN base["chunk"] -> ChunkBlocks]
        /\ base["finfo"] \in [DOMAIN base["finfo"] -> FInfoBlocks]
    BY <2>1 DEF IsScene
  <2>3. /\ own["chunk"] \in [DOMAIN own["chunk"] -> ChunkBlocks]
        /\ own["finfo"] \in [DOMAIN own["finfo"] -> FInfoBlocks]
    BY DEF Typed
  <2>4. Range(base["chunk"]) \cup Range(own["chunk"]) \subseteq ChunkBlocks
    BY <2>2, <2>3 DEF Range
  <2>5. \A b \in Range(base["finfo"]) \cup Range(own["finfo"]) : b \in FInfoBlocks
    BY <2>2, <2>3 DEF Range
  <2> QED
    BY <2>4, <2>5 DEF TypeOK, Typed
<1> QED
  BY <1>1, Invariant, PTL

\* Writing an archive never changes a block of its base (SpitBlock, BlockList.cpp:260,
\* writes through a hard link if there is one): no index that is written is linked.
THEOREM BaseStays ==
    ASSUME \A s \in Scenes : Unshared(s)
    PROVE  Spec => []BaseUntouched
<1>1. Inv => BaseUntouched
  BY DEF Inv, Typed, BaseUntouched
<1> QED
  BY <1>1, Invariant, PTL

\* No index is both of a hard link and of a file of the new archive.
Apart == \A k \in Kinds : linked[k] \cap DOMAIN own[k] = {}

LEMMA LinksApart ==
    ASSUME Inv
    PROVE  Apart
<1>1. linked["chunk"] \cap DOMAIN own["chunk"] = {}
  <2> HIDE DEF ChunkStage, ChunkIndex, Slots
  <2> QED
    BY DEF Inv, ChunkBooks, Books
<1>2. linked["finfo"] \cap DOMAIN own["finfo"] = {}
  <2> HIDE DEF InfoStage, InfoIndex
  <2> QED
    BY DEF Inv, InfoBooks, Books
<1> QED
  BY <1>1, <1>2 DEF Apart, Kinds

\* No block of the new archive is written or linked a second time, whatever the files'
\* tasks and chunk jobs do between the Alloc, the Link and the write of each other.
THEOREM EachBlockOnce ==
    ASSUME \A s \in Scenes : Unshared(s)
    PROVE  Spec => BlocksWrittenOnce
<1>1. Inv => Apart
  BY LinksApart
<1>2. Inv /\ QueuesOk /\ Apart' /\ [Next]_vars =>
         [\A k \in Kinds :
             /\ linked[k] \subseteq linked'[k]
             /\ \A idx \in DOMAIN own[k] : idx \in DOMAIN own'[k] /\ own'[k][idx] = own[k][idx]
             /\ linked'[k] \cap DOMAIN own'[k] = {}]_vars
  <2> SUFFICES ASSUME Inv, QueuesOk, Apart', Next
               PROVE  \A k \in Kinds :
                         /\ linked[k] \subseteq linked'[k]
                         /\ \A idx \in DOMAIN own[k] :
                               idx \in DOMAIN own'[k] /\ own'[k][idx] = own[k][idx]
                         /\ linked'[k] \cap DOMAIN own'[k] = {}
    OBVIOUS
  <2>1. Grows
    BY NextStep
  <2> QED
    BY <2>1 DEF Grows, Apart
<1>3. Spec => [](Inv /\ QueuesOk)
  BY Invariant
<1> QED
  BY <1>1, <1>2, <1>3, PTL DEF Spec, BlocksWrittenOnce

\* No job throws, so that no block's index is freed twice (Free, BlockList.cpp), or its
\* link made twice (Link), unless an info block of the base cannot be read.
THEOREM ThrowsHaveCause ==
    ASSUME \A s \in Scenes : Unshared(s)
    PROVE  Spec => []ThrowsOnlyOnBadBase
<1>1. Inv => ThrowsOnlyOnBadBase
  BY DEF Inv
<1> QED
  BY <1>1, Invariant, PTL

-----------------------------------------------------------------------------
(* What the new archive holds of a file that is done. *)

\* The base's chunk, where a job has linked it.
LEMMA KeptReads ==
    ASSUME Inv, NEW f \in Names, NEW i \in DOMAIN jobs[f], KeptAt(f, i)
    PROVE  ChunkReads(OldLines(f)[i], scene.base["chunk"][OldLines(f)[i].idx].data)
<1>1. i \in Nat /\ i \in DOMAIN OldLines(f) /\ jobs[f][i].idx = OldLines(f)[i].idx
  BY LenProperties DEF Inv, Typed, KeptAt
<1>2. StageAt(f, i) = "linked" /\ IndexAt(f, i) = OldLines(f)[i].idx
  BY <1>1 DEF StageAt, IndexAt, JobStage, KeptAt
<1>3. PICK p \in Slots : p = <<f, i>>
  BY <1>1, SlotFacts
<1>4. ChunkStage[p] = "linked" /\ ChunkIndex[p] = OldLines(f)[i].idx
  BY <1>1, <1>2, <1>3, SlotFacts
<1>5. OldLines(f)[i].idx \in linked["chunk"]
  <2> HIDE DEF ChunkStage, ChunkIndex, Slots
  <2> QED
    BY <1>4 DEF Inv, ChunkBooks, Books
<1>6. ReadBlock("chunk", OldLines(f)[i].idx) = scene.base["chunk"][OldLines(f)[i].idx]
  BY <1>5, BaseFacts DEF Inv, ReadBlock
<1>7. /\ scene.base["chunk"][OldLines(f)[i].idx].zip = OldLines(f)[i].comp
      /\ Hash[scene.base["chunk"][OldLines(f)[i].idx].data] = OldLines(f)[i].hash
  BY <1>1, SceneFacts DEF Inv, Typed
<1> QED
  BY <1>5, <1>6, <1>7 DEF ChunkReads, Reads, Present

\* What a chunk job of a file that is read leaves: the line it returns is that of
\* the chunk.
LEMMA LineReads ==
    ASSUME Inv, NEW f \in Names, NEW i \in DOMAIN jobs[f],
           ReadOk(f), jobs[f][i].st = "done"
    PROVE  ChunkReads(WholeInfo(f)[i], Live(f).chunks[i])
<1>1. JobOk(f, i) /\ i \in DOMAIN Live(f).chunks
  BY DEF ReadOk
<1>2. Live(f).chunks[i] \in Data
  BY <1>1, SceneFacts, LenProperties, ElementOfSeq DEF Inv, Typed
<1>3. WholeInfo(f)[i] = ChunkRec(jobs[f][i].comp, jobs[f][i].idx, Hash[Live(f).chunks[i]])
  BY DEF WholeInfo
<1>4. CASE jobs[f][i].keep
  <2>1. KeptAt(f, i) /\ OldLines(f)[i].hash = Hash[Live(f).chunks[i]]
    BY <1>1, <1>4 DEF JobOk
  <2>2. /\ WholeInfo(f)[i].comp = OldLines(f)[i].comp /\ WholeInfo(f)[i].idx = OldLines(f)[i].idx
        /\ WholeInfo(f)[i].hash = OldLines(f)[i].hash
    BY <1>3, <2>1 DEF KeptAt, ChunkRec
  <2>3. ChunkReads(OldLines(f)[i], scene.base["chunk"][OldLines(f)[i].idx].data)
    BY <2>1, KeptReads
  <2>4. scene.base["chunk"][OldLines(f)[i].idx].data = Live(f).chunks[i]
    <3>1. /\ scene.base["chunk"][OldLines(f)[i].idx].data \in Data
          /\ Hash[scene.base["chunk"][OldLines(f)[i].idx].data] = OldLines(f)[i].hash
      BY <2>1, SceneFacts DEF Inv, Typed, KeptAt
    <3> QED
      BY <1>2, <2>1, <3>1, HashAssumption
  <2> QED
    BY <2>2, <2>3, <2>4 DEF ChunkReads
<1>5. CASE ~jobs[f][i].keep
  <2>1. /\ jobs[f][i].comp = Flag(Live(f).chunks[i] \in Zips)
        /\ jobs[f][i].idx \in DOMAIN own["chunk"]
        /\ own["chunk"][jobs[f][i].idx] = Block(Live(f).chunks[i] \in Zips, Live(f).chunks[i])
    BY <1>1, <1>5 DEF JobOk
  <2>2. jobs[f][i].idx \notin linked["chunk"]
    BY <2>1, LinksApart DEF Apart, Kinds
  <2>3. /\ ReadBlock("chunk", jobs[f][i].idx).zip = jobs[f][i].comp
        /\ ReadBlock("chunk", jobs[f][i].idx).data = Live(f).chunks[i]
    BY <2>1, <2>2 DEF ReadBlock, Block
  <2>4. /\ WholeInfo(f)[i].comp = jobs[f][i].comp /\ WholeInfo(f)[i].idx = jobs[f][i].idx
        /\ WholeInfo(f)[i].hash = Hash[Live(f).chunks[i]]
    BY <1>3 DEF ChunkRec
  <2> QED
    BY <2>1, <2>3, <2>4 DEF ChunkReads, Reads, Present
<1> QED
  BY <1>4, <1>5

\* The info block of a file that keeps the base's.
LEMMA InfoKept ==
    ASSUME Inv, NEW f \in Names, pc[f] \in {"push", "done"}, KeepBaseFinfo(f),
           entry[f] = Entry(Live(f), Base(f).comp, Base(f).finfo),
           Readable(f), Base(f).finfo >= 0
    PROVE  /\ entry[f].finfo = Base(f).finfo
           /\ InfoStage[f] = "linked" /\ InfoIndex[f] = entry[f].finfo
           /\ Reads("finfo", entry[f].finfo, entry[f].comp)
           /\ ReadBlock("finfo", entry[f].finfo).data = OldLines(f)
<1>1. entry[f].finfo = Base(f).finfo /\ entry[f].comp = Base(f).comp
  BY DEF Entry
<1>2. InfoStageOf(f) = "linked"
  BY <1>1 DEF InfoStageOf
<1>3. InfoStage[f] = "linked" /\ InfoIndex[f] = Base(f).finfo
  BY <1>1, <1>2, InfoFacts
<1>4. Base(f).finfo \in linked["finfo"]
  <2> HIDE DEF InfoStage, InfoIndex
  <2> QED
    BY <1>3 DEF Inv, InfoBooks, Books
<1>5. ReadBlock("finfo", Base(f).finfo) = scene.base["finfo"][Base(f).finfo]
  BY <1>4, BaseFacts DEF Inv, ReadBlock
<1>6. scene.base["finfo"][Base(f).finfo].data = OldLines(f)
  BY DEF OldLines, BaseLines, Base
<1>7. scene.base["finfo"][Base(f).finfo].zip = Base(f).comp
  BY DEF Readable
<1> QED
  BY <1>1, <1>3, <1>4, <1>5, <1>6, <1>7 DEF Reads, Present

\* The info block of a file that gets its own.
LEMMA InfoOwn ==
    ASSUME Inv, NEW f \in Names, pc[f] \in {"push", "done"}, ReadOk(f), ~KeepBaseFinfo(f)
    PROVE  /\ entry[f].finfo >= 0 /\ entry[f].finfo \in Present("finfo")
           /\ InfoStage[f] = "written" /\ InfoIndex[f] = entry[f].finfo
           /\ ReadBlock("finfo", entry[f].finfo).zip = Flag(ZipsFInfo(f))
           /\ ReadBlock("finfo", entry[f].finfo).data = WholeInfo(f)
<1>1. /\ entry[f].finfo \in Nat /\ entry[f].finfo \in DOMAIN own["finfo"]
      /\ own["finfo"][entry[f].finfo] = Block(ZipsFInfo(f), WholeInfo(f))
  BY DEF ReadOk
<1>2. InfoStageOf(f) = "written"
  BY <1>1 DEF InfoStageOf
<1>3. InfoStage[f] = "written" /\ InfoIndex[f] = entry[f].finfo
  BY <1>2, InfoFacts
<1>4. entry[f].finfo \notin linked["finfo"]
  BY <1>1, LinksApart DEF Apart, Kinds
<1>5. ReadBlock("finfo", entry[f].finfo) = Block(ZipsFInfo(f), WholeInfo(f))
  BY <1>1, <1>4 DEF ReadBlock
<1> QED
  BY <1>1, <1>3, <1>5 DEF Present, Block

\* A file that is read, all of whose chunks are the base's, is the base's, unless it
\* was cut.
LEMMA AllKept ==
    ASSUME Inv, NEW f \in Names, Anew(f), ReadOk(f), AllDone(f), KeepBaseFinfo(f),
           NoneCut(scene)
    PROVE  /\ DOMAIN jobs[f] = DOMAIN OldLines(f) /\ Len(OldLines(f)) = Len(Live(f).chunks)
           /\ \A i \in DOMAIN OldLines(f) : KeptAt(f, i) /\ WholeInfo(f)[i] = OldLines(f)[i]
<1>1. \A i \in DOMAIN jobs[f] : KeptAt(f, i) /\ OldLines(f)[i].hash = Hash[Live(f).chunks[i]]
  BY DEF ReadOk, JobOk, KeepBaseFinfo
<1>2. PICK m \in Nat : DOMAIN Live(f).chunks = 1..m /\ Len(Live(f).chunks) = m
  BY SceneFacts, LenProperties DEF Inv, Typed
<1>3. PICK n \in Nat : DOMAIN OldLines(f) = 1..n /\ Len(OldLines(f)) = n
  BY SceneFacts, LenProperties DEF Inv, Typed
<1>4. DOMAIN jobs[f] = 1..m
  BY <1>2 DEF ReadOk
<1>5. m <= n
  BY <1>1, <1>3, <1>4 DEF KeptAt
<1>6. ~(m < n)
  <2> SUFFICES ASSUME m < n PROVE FALSE
    OBVIOUS
  <2>1. Len(scene.live[f].chunks) < Len(BaseLines(scene, f))
    BY <1>2, <1>3 DEF Live, OldLines
  <2>2. PICK i \in DOMAIN scene.live[f].chunks :
            Hash[scene.live[f].chunks[i]] # BaseLines(scene, f)[i].hash
    BY <2>1 DEF NoneCut, Anew
  <2> QED
    BY <1>1, <1>2, <1>4, <2>2 DEF Live, OldLines
<1>7. m = n
  BY <1>5, <1>6
<1>8. ASSUME NEW i \in DOMAIN OldLines(f) PROVE KeptAt(f, i) /\ WholeInfo(f)[i] = OldLines(f)[i]
  <2>1. i \in DOMAIN jobs[f]
    BY <1>3, <1>4, <1>7
  <2>2. WholeInfo(f)[i] = ChunkRec(jobs[f][i].comp, jobs[f][i].idx, Hash[Live(f).chunks[i]])
    BY <2>1 DEF WholeInfo
  <2>3. OldLines(f)[i] \in ChunkRecs
    BY SceneFacts DEF Inv, Typed
  <2>4. OldLines(f)[i] = ChunkRec(OldLines(f)[i].comp, OldLines(f)[i].idx, OldLines(f)[i].hash)
    BY <2>3 DEF ChunkRecs, ChunkRec
  <2> QED
    BY <1>1, <2>1, <2>2, <2>4 DEF KeptAt
<1> QED
  BY <1>2, <1>3, <1>4, <1>7, <1>8

\* A linked file is as the base archive has it.
LEMMA LinkedRestored ==
    ASSUME Inv, NEW f \in Names, pc[f] = "done", LinkOk(f)
    PROVE  Restores(entry[f], BaseContent(f))
<1>1. entry[f] = Entry(Live(f), Base(f).comp, Base(f).finfo) /\ Readable(f)
  BY DEF LinkOk
<1>2. entry[f].finfo = Base(f).finfo /\ Base(f).finfo \in Int
  BY <1>1, SceneFacts DEF Inv, Typed, Entry
<1>3. CASE Base(f).finfo < 0
  BY <1>2, <1>3 DEF Restores, BaseContent
<1>4. CASE Base(f).finfo >= 0
  <2>1. KeepBaseFinfo(f) /\ \A i \in DOMAIN jobs[f] : KeptAt(f, i)
    BY DEF LinkOk, KeptAt, KeepBaseFinfo
  <2>2. /\ Reads("finfo", entry[f].finfo, entry[f].comp)
        /\ ReadBlock("finfo", entry[f].finfo).data = OldLines(f)
    BY <1>1, <1>4, <2>1, InfoKept
  <2>3. OldLines(f) \in Seq(ChunkRecs) /\ jobs[f] \in Seq(JobRecs)
    BY SceneFacts DEF Inv, Typed
  <2>4. DOMAIN jobs[f] = DOMAIN OldLines(f)
    BY <2>3, LenProperties DEF LinkOk
  <2>5. BaseContent(f) =
           [i \in DOMAIN OldLines(f) |-> scene.base["chunk"][OldLines(f)[i].idx].data]
    <3>1. OldLines(f) = scene.base["finfo"][Base(f).finfo].data
      BY <1>4 DEF OldLines, BaseLines, Base
    <3>2. ~(Base(f).finfo < 0)
      BY <1>2, <1>4
    <3> QED
      BY <3>1, <3>2 DEF BaseContent
  <2>6. Len(BaseContent(f)) = Len(OldLines(f))
    <3>1. PICK n \in Nat : DOMAIN OldLines(f) = 1..n /\ Len(OldLines(f)) = n
      BY <2>3, LenProperties
    <3>2. \A i \in 1..n : scene.base["chunk"][OldLines(f)[i].idx].data \in Data
      BY <3>1, SceneFacts DEF Inv, Typed
    <3>3. BaseContent(f) \in [1..n -> Data]
      BY <2>5, <3>1, <3>2
    <3>4. BaseContent(f) \in Seq(Data)
      BY <3>3, SeqDef
    <3> QED
      BY <3>1, <3>3, <3>4, LenProperties
  <2>7. \A i \in DOMAIN OldLines(f) : ChunkReads(OldLines(f)[i], BaseContent(f)[i])
    BY <2>1, <2>4, <2>5, KeptReads
  <2> QED
    BY <1>2, <1>4, <2>2, <2>6, <2>7 DEF Restores
<1> QED
  BY <1>2, <1>3, <1>4

\* A file that was read is as it was read.
LEMMA ReadRestored ==
    ASSUME Inv, NEW f \in Names, pc[f] = "done", Anew(f), ReadOk(f),
           NoneCut(scene), FlagsStay(scene)
    PROVE  Restores(entry[f], Live(f).chunks)
<1>1. AllDone(f)
  BY DEF ReadOk
<1>2. \A i \in DOMAIN jobs[f] : ChunkReads(WholeInfo(f)[i], Live(f).chunks[i])
  BY <1>1, LineReads DEF AllDone
<1>3. CASE KeepBaseFinfo(f)
  <2>1. entry[f] = Entry(Live(f), Base(f).comp, Base(f).finfo)
    BY <1>3 DEF ReadOk
  <2>2. /\ DOMAIN jobs[f] = DOMAIN OldLines(f) /\ Len(OldLines(f)) = Len(Live(f).chunks)
        /\ \A i \in DOMAIN OldLines(f) : WholeInfo(f)[i] = OldLines(f)[i]
    BY <1>1, <1>3, AllKept
  <2>3. entry[f].finfo = Base(f).finfo /\ Base(f).finfo \in Int
    BY <2>1, SceneFacts DEF Inv, Typed, Entry
  <2>4. CASE Base(f).finfo < 0
    <3>1. OldLines(f) = <<>>
      BY <2>3, <2>4 DEF OldLines, BaseLines, Base
    <3>2. Live(f).chunks \in Seq(Data) /\ Len(Live(f).chunks) = 0
      BY <2>2, <3>1, SceneFacts DEF Inv, Typed
    <3>3. Live(f).chunks = <<>>
      BY <3>2, EmptySeq
    <3> QED
      BY <2>3, <2>4, <3>3 DEF Restores
  <2>5. CASE Base(f).finfo >= 0
    <3>1. Readable(f)
      BY <2>5 DEF Anew, ReadsAnew, Readable, Base
    <3>2. /\ Reads("finfo", entry[f].finfo, entry[f].comp)
          /\ ReadBlock("finfo", entry[f].finfo).data = OldLines(f)
      BY <1>3, <2>1, <2>5, <3>1, InfoKept
    <3>3. \A i \in DOMAIN OldLines(f) : ChunkReads(OldLines(f)[i], Live(f).chunks[i])
      BY <1>2, <2>2
    <3> QED
      BY <2>2, <2>3, <2>5, <3>2, <3>3 DEF Restores
  <2> QED
    BY <2>3, <2>4, <2>5
<1>4. CASE ~KeepBaseFinfo(f)
  <2>1. /\ entry[f].finfo >= 0 /\ entry[f].finfo \in Present("finfo")
        /\ ReadBlock("finfo", entry[f].finfo).zip = Flag(ZipsFInfo(f))
        /\ ReadBlock("finfo", entry[f].finfo).data = WholeInfo(f)
    BY <1>4, InfoOwn
  <2>2. PICK n \in Nat : /\ DOMAIN Live(f).chunks = 1..n /\ Len(Live(f).chunks) = n
                         /\ DOMAIN jobs[f] = 1..n /\ Len(jobs[f]) = n
    <3>1. Live(f).chunks \in Seq(Data) /\ jobs[f] \in Seq(JobRecs)
      BY SceneFacts DEF Inv, Typed
    <3>2. DOMAIN jobs[f] = DOMAIN Live(f).chunks
      BY DEF ReadOk
    <3> QED
      BY <3>1, <3>2, LenProperties
  <2>3. entry[f].comp = Flag(ZipsFInfo(f))
    <3>1. entry[f].comp = IF ZipsFInfo(f) THEN "C" ELSE Base(f).comp
      BY <1>4 DEF ReadOk
    <3>2. Base(f).comp = "U" \/ Base(f).comp = "C"
      BY SceneFacts DEF Inv, Typed, Flags
    <3>3. Base(f).comp = "C" => Len(Live(f).chunks) >= ZipLen
      BY DEF FlagsStay, Anew, Base, Live
    <3>4. Base(f).comp = "C" => ZipsFInfo(f)
      BY <2>2, <3>3 DEF ZipsFInfo
    <3> QED
      BY <3>1, <3>2, <3>4 DEF Flag
  <2>4. DOMAIN WholeInfo(f) = 1..n /\ Len(WholeInfo(f)) = n
    <3>1. Block(ZipsFInfo(f), WholeInfo(f)) \in FInfoBlocks
      BY FInfoType DEF Inv
    <3>2. WholeInfo(f) \in Seq(ChunkRecs)
      BY <3>1 DEF Block, FInfoBlocks
    <3>3. DOMAIN WholeInfo(f) = 1..n
      BY <2>2 DEF WholeInfo
    <3> QED
      BY <2>2, <3>2, <3>3, LenProperties
  <2>5. Reads("finfo", entry[f].finfo, entry[f].comp)
    BY <2>1, <2>3 DEF Reads
  <2>6. ~(entry[f].finfo < 0)
    <3>1. entry[f].finfo \in Int
      BY DEF Inv, Typed, Entries
    <3> QED
      BY <2>1, <3>1
  <2>7. \A i \in DOMAIN WholeInfo(f) : ChunkReads(WholeInfo(f)[i], Live(f).chunks[i])
    BY <1>2, <2>2, <2>4
  <2> QED
    BY <2>1, <2>2, <2>4, <2>5, <2>6, <2>7 DEF Restores
<1> QED
  BY <1>3, <1>4

\* Every file in the list of a new archive can be restored from its blocks, whatever
\* the other files' tasks and chunk jobs have done and still do: to what was read, or
\* to what the base has of a file whose size and time have not changed.
THEOREM EachFileRestorable ==
    ASSUME \A s \in Scenes : Unshared(s) /\ NoneCut(s) /\ FlagsStay(s)
    PROVE  Spec => []Restorable
<1>1. Inv => Restorable
  <2> SUFFICES ASSUME Inv, NEW f \in Names, pc[f] = "done"
               PROVE  Restores(list[f], Expected(f))
    BY DEF Restorable
  <2>1. FileOk(f) /\ list[f] = entry[f] /\ Live(f).size \in Nat
    BY SceneFacts DEF Inv, Typed, FilesOk, FileOk
  <2>2. NoneCut(scene) /\ FlagsStay(scene)
    BY DEF Inv, Typed
  <2>3. CASE Live(f).size = 0
    <3>1. entry[f].finfo < 0
      BY <2>1, <2>3 DEF FileOk, EmptyOk
    <3>2. Live(f).chunks = <<>>
      BY <2>3, SceneFacts DEF Inv, Typed
    <3> QED
      BY <2>1, <2>3, <3>1, <3>2 DEF Restores, Expected
  <2>4. CASE Same(f)
    BY <2>1, <2>4, LinkedRestored DEF FileOk, Expected, Same
  <2>5. CASE Live(f).size > 0 /\ ~Same(f)
    BY <2>1, <2>2, <2>5, ReadRestored DEF FileOk, Expected, Same
  <2> QED
    BY <2>1, <2>3, <2>4, <2>5
<1>2. Spec => [](Inv /\ QueuesOk)
  BY Invariant
<1> QED
  BY <1>1, <1>2, PTL
-----------------------------------------------------------------------------
(* The blocks of a finished archive are those its list refers to. *)

\* The info block of a file that is done, and its lines.
LEMMA DoneFacts ==
    ASSUME Inv, NoneCut(scene), NEW f \in Names, pc[f] = "done"
    PROVE  /\ AllDone(f) /\ list[f].finfo \in Int
           /\ list[f].finfo >= 0 =>
                 /\ InfoStage[f] \in {"linked", "written"} /\ InfoIndex[f] = list[f].finfo
                 /\ DOMAIN ReadBlock("finfo", list[f].finfo).data = DOMAIN jobs[f]
                 /\ \A i \in DOMAIN jobs[f] :
                       ReadBlock("finfo", list[f].finfo).data[i].idx = jobs[f][i].idx
           /\ InfoStage[f] \in {"linked", "written"} => list[f].finfo >= 0
           /\ list[f].finfo < 0 => DOMAIN jobs[f] = {}
<1>1. FileOk(f) /\ list[f] = entry[f] /\ Live(f).size \in Nat
  BY SceneFacts DEF Inv, Typed, FilesOk, FileOk
<1>2. list[f].finfo \in Int
  BY DEF Inv, Typed, Entries
<1>3. InfoStage[f] \in {"linked", "written"} => list[f].finfo >= 0
  BY <1>1, <1>2, InfoFacts DEF InfoStageOf, OfBase
<1>4. CASE Live(f).size = 0
  BY <1>1, <1>2, <1>3, <1>4, EmptySeq DEF FileOk, EmptyOk, AllDone
<1>5. CASE Same(f)
  <2>1. LinkOk(f)
    BY <1>1, <1>5 DEF FileOk
  <2>2. /\ entry[f] = Entry(Live(f), Base(f).comp, Base(f).finfo) /\ Readable(f)
        /\ \A i \in DOMAIN jobs[f] : KeptAt(f, i)
    BY <2>1 DEF LinkOk
  <2>3. KeepBaseFinfo(f) /\ AllDone(f)
    BY <2>2 DEF KeptAt, KeepBaseFinfo, AllDone
  <2>4. entry[f].finfo = Base(f).finfo
    BY <2>2 DEF Entry
  <2>5. DOMAIN jobs[f] = DOMAIN OldLines(f)
    <3>1. OldLines(f) \in Seq(ChunkRecs) /\ jobs[f] \in Seq(JobRecs)
      BY SceneFacts DEF Inv, Typed
    <3> QED
      BY <2>1, <3>1, LenProperties DEF LinkOk
  <2>6. CASE Base(f).finfo >= 0
    <3>1. /\ InfoStage[f] = "linked" /\ InfoIndex[f] = entry[f].finfo
          /\ ReadBlock("finfo", entry[f].finfo).data = OldLines(f)
      BY <2>2, <2>3, <2>6, InfoKept
    <3>2. \A i \in DOMAIN jobs[f] : OldLines(f)[i].idx = jobs[f][i].idx
      BY <2>2 DEF KeptAt
    <3> QED
      BY <1>1, <1>2, <2>3, <2>4, <2>5, <2>6, <3>1, <3>2
  <2>7. CASE ~(Base(f).finfo >= 0)
    <3>1. OldLines(f) = <<>>
      BY <2>7 DEF OldLines, BaseLines, Base
    <3> QED
      BY <1>1, <1>2, <1>3, <2>3, <2>4, <2>5, <2>7, <3>1, EmptySeq
  <2> QED
    BY <2>6, <2>7
<1>6. CASE Live(f).size > 0 /\ ~Same(f)
  <2>1. Anew(f) /\ ReadOk(f)
    BY <1>1, <1>6 DEF FileOk
  <2>2. AllDone(f)
    BY <2>1 DEF ReadOk
  <2>3. CASE KeepBaseFinfo(f)
    <3>1. entry[f] = Entry(Live(f), Base(f).comp, Base(f).finfo)
      BY <2>1, <2>3 DEF ReadOk
    <3>2. entry[f].finfo = Base(f).finfo
      BY <3>1 DEF Entry
    <3>3. /\ DOMAIN jobs[f] = DOMAIN OldLines(f)
          /\ \A i \in DOMAIN OldLines(f) : KeptAt(f, i)
      BY <2>1, <2>2, <2>3, AllKept
    <3>4. CASE Base(f).finfo >= 0
      <4>1. Readable(f)
        BY <2>1, <3>4 DEF Anew, ReadsAnew, Readable, Base
      <4>2. /\ InfoStage[f] = "linked" /\ InfoIndex[f] = entry[f].finfo
            /\ ReadBlock("finfo", entry[f].finfo).data = OldLines(f)
        BY <2>3, <3>1, <3>4, <4>1, InfoKept
      <4>3. \A i \in DOMAIN jobs[f] : OldLines(f)[i].idx = jobs[f][i].idx
        BY <3>3 DEF KeptAt
      <4> QED
        BY <1>1, <1>2, <2>2, <3>2, <3>3, <3>4, <4>2, <4>3
    <3>5. CASE ~(Base(f).finfo >= 0)
      <4>1. OldLines(f) = <<>>
        BY <3>5 DEF OldLines, BaseLines, Base
      <4> QED
        BY <1>1, <1>2, <1>3, <2>2, <3>2, <3>3, <3>5, <4>1, EmptySeq
    <3> QED
      BY <3>4, <3>5
  <2>4. CASE ~KeepBaseFinfo(f)
    <3>1. /\ entry[f].finfo >= 0
          /\ InfoStage[f] = "written" /\ InfoIndex[f] = entry[f].finfo
          /\ ReadBlock("finfo", entry[f].finfo).data = WholeInfo(f)
      BY <2>1, <2>4, InfoOwn
    <3>2. /\ DOMAIN WholeInfo(f) = DOMAIN jobs[f]
          /\ \A i \in DOMAIN jobs[f] : WholeInfo(f)[i].idx = jobs[f][i].idx
      BY DEF WholeInfo, ChunkRec
    <3> QED
      BY <1>1, <1>2, <2>2, <3>1, <3>2
  <2> QED
    BY <2>3, <2>4
<1> QED
  BY <1>1, <1>4, <1>5, <1>6 DEF Same

\* The chunk slots of a file that is done.
LEMMA DoneSlots ==
    ASSUME Inv, NEW f \in Names, AllDone(f)
    PROVE  /\ \A i \in DOMAIN jobs[f] :
                 /\ <<f, i>> \in Slots /\ ChunkStage[<<f, i>>] \in {"linked", "written"}
                 /\ ChunkIndex[<<f, i>>] = jobs[f][i].idx
           /\ \A i \in Nat : ChunkStage[<<f, i>>] \in {"linked", "written"} => i \in DOMAIN jobs[f]
<1>1. ASSUME NEW i \in DOMAIN jobs[f]
      PROVE  /\ <<f, i>> \in Slots /\ ChunkStage[<<f, i>>] \in {"linked", "written"}
             /\ ChunkIndex[<<f, i>>] = jobs[f][i].idx
  <2>1. i \in Nat /\ jobs[f][i].st = "done"
    BY LenProperties DEF Inv, Typed, AllDone
  <2>2. StageAt(f, i) \in {"linked", "written"}
    BY <2>1 DEF StageAt, JobStage
  <2>3. IndexAt(f, i) = jobs[f][i].idx
    BY <2>2 DEF IndexAt
  <2> QED
    BY <2>1, <2>2, <2>3, SlotFacts
<1>2. ASSUME NEW i \in Nat, i \notin DOMAIN jobs[f]
      PROVE  ChunkStage[<<f, i>>] \notin {"linked", "written"}
  <2>1. StageAt(f, i) \in {"base", "none"}
    BY <1>2 DEF StageAt, OfSlot
  <2> QED
    BY <2>1, SlotFacts
<1> QED
  BY <1>1, <1>2

\* When every file is in the list the new archive has the blocks the list refers to,
\* and no others: what the test command counts (DoTest, Archive.cpp).
THEOREM EachBlockUsed ==
    ASSUME \A s \in Scenes : Unshared(s) /\ NoneCut(s)
    PROVE  Spec => []NoBlockUnused
<1>1. Inv => NoBlockUnused
  <2> SUFFICES ASSUME Inv, Finished PROVE \A k \in Kinds : Used(k) = Present(k)
    BY DEF NoBlockUnused
  <2>1. \A f \in Names : pc[f] = "done"
    BY DEF Finished
  <2>2. NoneCut(scene)
    BY DEF Inv, Typed
  <2> DEFINE infos == {list[f].finfo : f \in {g \in Names : list[g].finfo >= 0}}
  <2>3. infos = Present("finfo")
    <3>1. \A f \in Names : list[f].finfo >= 0 =>
             InfoStage[f] \in {"linked", "written"} /\ InfoIndex[f] = list[f].finfo
      BY <2>1, <2>2, DoneFacts
    <3>2. \A f \in Names : InfoStage[f] \in {"linked", "written"} =>
             list[f].finfo >= 0 /\ InfoIndex[f] = list[f].finfo
      BY <2>1, <2>2, DoneFacts
    <3> HIDE DEF InfoStage, InfoIndex
    <3>3. ASSUME NEW x \in infos PROVE x \in Present("finfo")
      <4>1. PICK f \in Names : list[f].finfo >= 0 /\ list[f].finfo = x
        BY <3>3
      <4> QED
        BY <3>1, <4>1 DEF Inv, InfoBooks, Books, Present
    <3>4. ASSUME NEW x \in Present("finfo") PROVE x \in infos
      <4>1. PICK f \in Names : InfoStage[f] \in {"linked", "written"} /\ InfoIndex[f] = x
        BY <3>4 DEF Inv, InfoBooks, Books, Present
      <4> QED
        BY <3>2, <4>1
    <3> QED
      BY <3>3, <3>4
  <2>4. Used("finfo") = Present("finfo")
    BY <2>3 DEF Used
  <2> DEFINE uses == UNION {{r.idx : r \in Range(ReadBlock("finfo", i).data)} : i \in infos}
  <2>5. ASSUME NEW x \in uses PROVE x \in Present("chunk")
    <3>1. PICK f \in Names : /\ list[f].finfo >= 0
                             /\ \E r \in Range(ReadBlock("finfo", list[f].finfo).data) : r.idx = x
      BY <2>5
    <3>2. PICK j \in DOMAIN ReadBlock("finfo", list[f].finfo).data :
              ReadBlock("finfo", list[f].finfo).data[j].idx = x
      BY <3>1 DEF Range
    <3>3. j \in DOMAIN jobs[f] /\ jobs[f][j].idx = x /\ AllDone(f)
      BY <2>1, <2>2, <3>1, <3>2, DoneFacts
    <3>4. PICK p \in Slots : p = <<f, j>>
      BY <3>3, DoneSlots
    <3>5. ChunkStage[p] \in {"linked", "written"} /\ ChunkIndex[p] = x
      BY <3>3, <3>4, DoneSlots
    <3> HIDE DEF ChunkStage, ChunkIndex, Slots
    <3> QED
      BY <3>5 DEF Inv, ChunkBooks, Books, Present
  <2>6. ASSUME NEW x \in Present("chunk") PROVE x \in uses
    <3>1. PICK p \in Slots : ChunkStage[p] \in {"linked", "written"} /\ ChunkIndex[p] = x
      <4> HIDE DEF ChunkStage, ChunkIndex, Slots
      <4> QED
        BY <2>6 DEF Inv, ChunkBooks, Books, Present
    <3>2. PICK f \in Names, i \in Nat : p = <<f, i>>
      BY DEF Slots
    <3>3. AllDone(f)
      BY <2>1, <2>2, DoneFacts
    <3>4. i \in DOMAIN jobs[f] /\ jobs[f][i].idx = x
      <4> HIDE DEF ChunkStage, ChunkIndex, Slots
      <4> QED
        BY <3>1, <3>2, <3>3, DoneSlots
    <3>5. /\ list[f].finfo >= 0
          /\ DOMAIN ReadBlock("finfo", list[f].finfo).data = DOMAIN jobs[f]
          /\ ReadBlock("finfo", list[f].finfo).data[i].idx = x
      BY <2>1, <2>2, <3>4, DoneFacts
    <3>6. list[f].finfo \in infos
      BY <3>5
    <3>7. ReadBlock("finfo", list[f].finfo).data[i] \in Range(ReadBlock("finfo", list[f].finfo).data)
      BY <3>4, <3>5 DEF Range
    <3>8. x \in {r.idx : r \in Range(ReadBlock("finfo", list[f].finfo).data)}
      BY <3>5, <3>7
    <3> HIDE DEF infos
    <3> QED
      BY <3>6, <3>8
  <2>7. Used("chunk") = Present("chunk")
    <3>1. uses = Present("chunk")
      <4> HIDE DEF uses
      <4> QED
        BY <2>5, <2>6
    <3> QED
      BY <3>1 DEF Used
  <2> QED
    BY <2>4, <2>7 DEF Kinds
<1>2. Spec => [](Inv /\ QueuesOk)
  BY Invariant
<1> QED
  BY <1>1, <1>2, PTL
=============================================================================
