---------------------------- MODULE ExtractProofs ----------------------------
(***************************************************************************)
(* Theorems about the extract command (Extract.tla), for every archive     *)
(* whose names are apart, every choice of its entries, any number of lines *)
(* and chunks, and every order of the jobs and their helpers.              *)
(***************************************************************************)
EXTENDS Extract, FilePathProofs

\* What the list says of the lines.
Dirs     == {e \in Lines : Is(e, "dir")}
RegFiles == {e \in Lines : Is(e, "file")}
NameOf   == [e \in Lines |-> Name(e)]
Final    == [e \in Lines |-> List[e].chunks]
FInfoOf  == [e \in Lines |-> List[e].finfo]

\* Where a job has made nothing, where it is writing, and where it is making the
\* first file of its info block.
Before  == {"unread", "start", "sync", "make"}
Writes  == {"loop", "inplace", "collect", "attrs", "post"}
Makes   == Writes \cup {"make"}
Places  == Before \cup Writes \cup {"done"}

SyncRec == [name : Path, busy : BOOLEAN]
NodeRec == [owner : Lines \cup {0}, mtime : {"now", "archived"}, closed : BOOLEAN]
Locks   == {"none", "busy", "idle", "deleted"}

\* What each variable holds.
Typed ==
    /\ scene \in Scenes
    /\ pc \in [Lines -> Places]
    /\ HLinkSyncs \in [DOMAIN HLinkSyncs -> SyncRec]
    /\ DOMAIN chunk = Lines /\ DOMAIN lock = Lines /\ DOMAIN helpers = Lines /\ DOMAIN content = Lines
    /\ node \in [DOMAIN node -> NodeRec] /\ DOMAIN node \subseteq Path
    /\ DirAttribs \subseteq Dirs
    /\ main \in {"read", "dirs", "end"}

\* Where the jobs can be: those of directories write nothing, only regular files
\* have chunks, only what has an info block waits for one, and the directories
\* get their attributes when all jobs are through.
Jobs ==
    /\ \A e \in Lines :
          /\ pc[e] \notin {"unread", "done"} => e \in scene.wanted
          /\ e \in Dirs => pc[e] \in {"unread", "start", "make", "post", "done"}
          /\ pc[e] \in {"loop", "inplace", "collect"} => e \in RegFiles
          /\ pc[e] = "sync" => FInfoOf[e] # NoFInfo
    /\ main # "read" => \A e \in Lines : pc[e] = "done"

\* A job of n chunks, which is at "at": what is written are the first chunks in
\* their order, those that are past their "write", and the loop has come to all
\* of them.  The final chunk is written in place, so that all are written when
\* the loop is through, and no lock is deleted before.
ChunksOk(n, at, written, next, locks, jobs) ==
    /\ written \in Seq(Nat) /\ next \in 1..n + 1
    /\ locks \in [1..n -> Locks]
    /\ jobs \in [DOMAIN jobs -> {"write", "post"}] /\ DOMAIN jobs \subseteq 1..n
    /\ Len(written) <= n /\ \A k \in 1..Len(written) : written[k] = k
    /\ at \in Before => next = 1
    /\ at = "inplace" => next <= n
    /\ \A k \in 1..n :
          /\ k \in DOMAIN jobs <=> locks[k] = "busy"
          /\ k <= Len(written) <=>
                locks[k] # "none" /\ (locks[k] = "busy" => jobs[k] = "post")
          /\ at \in Before => locks[k] = "none"
          /\ at = "loop" => (locks[k] # "none" <=> k < next)
          /\ at = "inplace" => (locks[k] # "none" <=> k <= next)
          /\ at \in {"collect", "attrs", "post", "done"} /\ locks[k] # "none" => k <= Len(written)
          /\ at = "collect" => locks[k] # "none"
          /\ k = n /\ locks[k] = "busy" => at = "inplace" /\ next = k
          /\ locks[k] = "deleted" => at \notin {"loop", "inplace"}

\* So it is with every line, and a file that is closed is whole.
InOrder ==
    \A e \in Lines :
        /\ ChunksOk(Final[e], pc[e], content[e], chunk[e], lock[e], helpers[e])
        /\ e \in RegFiles /\ pc[e] \in {"attrs", "post"} => Len(content[e]) = Final[e]

\* The extracted tree is one: what a file lies in is there.
Rooted ==
    /\ <<>> \in DOMAIN node
    /\ \A q \in DOMAIN node : q # <<>> => Prefixes(Front(q)) \subseteq DOMAIN node

\* The names that are there: no file before its job makes it, and then it is of
\* the line that wrote it; it has its time once that is through.
Made ==
    /\ \A e \in Lines \ Dirs :
          /\ pc[e] \in Before => NameOf[e] \notin DOMAIN node
          /\ pc[e] \in Writes => NameOf[e] \in DOMAIN node /\ node[NameOf[e]].owner = e
          /\ pc[e] = "post" => node[NameOf[e]].mtime = "archived"
          /\ pc[e] = "done" /\ e \in scene.wanted =>
                /\ NameOf[e] \in DOMAIN node /\ node[NameOf[e]].mtime = "archived"
                /\ FInfoOf[e] = NoFInfo => node[NameOf[e]].owner = e
    /\ \A e \in Dirs :
          /\ NameOf[e] \in DOMAIN node => node[NameOf[e]].owner = 0
          /\ pc[e] \in {"post", "done"} /\ e \in scene.wanted => NameOf[e] \in DOMAIN node

\* The line d makes the file of the info block i, and others link to it after.
FirstOf(d, i) ==
    /\ FInfoOf[d] = i /\ d \in scene.wanted /\ pc[d] \in Makes \cup {"done"}
    /\ HLinkSyncs[i].busy <=> pc[d] # "done"
    /\ pc[d] = "done" => HLinkSyncs[i].name = NameOf[d] /\ node[NameOf[d]].owner = d
    /\ \A e \in Lines : e # d /\ FInfoOf[e] = i =>
          /\ pc[e] \notin Makes
          /\ pc[e] = "done" /\ e \in scene.wanted =>
                pc[d] = "done" /\ node[NameOf[e]].owner = d

\* Each info block that has been met has one line that makes its file.
Syncs ==
    /\ \A e \in Lines :
          FInfoOf[e] # NoFInfo /\ e \in scene.wanted /\ pc[e] \notin {"unread", "start"}
          => FInfoOf[e] \in DOMAIN HLinkSyncs
    /\ \A i \in DOMAIN HLinkSyncs : i # NoFInfo /\ \E d \in Lines \ Dirs : FirstOf(d, i)

\* The directories that wait for their attributes, and those that have them: only
\* those may be closed, and nothing that waits lies under them.
Deferred ==
    /\ DirAttribs \subseteq scene.wanted
    /\ \A e \in DirAttribs : pc[e] \in {"post", "done"}
    /\ main = "read" =>
          \A e \in Dirs : e \in scene.wanted /\ pc[e] \in {"post", "done"} => e \in DirAttribs
    /\ \A q \in DOMAIN node : node[q].closed =>
          main # "read" /\ \E d \in Dirs \ DirAttribs : d \in scene.wanted /\ q = NameOf[d]
    /\ main # "read" =>
          \A d \in Dirs \ DirAttribs : d \in scene.wanted =>
              /\ node[NameOf[d]].mtime = "archived"
              /\ \A e \in DirAttribs : ~IsStrictPrefix(NameOf[d], NameOf[e])
    /\ main = "end" => DirAttribs = {}

\* The inductive invariant.
Inv ==
    /\ Typed /\ Jobs /\ InOrder
    /\ Rooted /\ Made /\ Syncs /\ Deferred /\ NeverFails

-----------------------------------------------------------------------------
(* What the steps do to the chunks of one file. *)

\* Before anything of a file is extracted.
LEMMA NoChunks ==
    ASSUME NEW n \in Nat
    PROVE  ChunksOk(n, "unread", <<>>, 1, [k \in 1..n |-> "none"], <<>>)
<1>1. <<>> \in Seq(Nat) /\ Len(<<>>) = 0 /\ DOMAIN <<>> = {} /\ <<>> \in [{} -> {"write", "post"}]
  BY EmptySeq
<1>2. [k \in 1..n |-> "none"] \in [1..n -> Locks]
  BY DEF Locks
<1> QED
  BY <1>1, <1>2 DEF ChunksOk, Before

\* A job goes from one place to another and leaves the chunks alone.
LEMMA MoveChunks ==
    ASSUME NEW n \in Nat, NEW written, NEW next, NEW locks, NEW jobs,
           NEW from \in Places, NEW to \in Places,
           ChunksOk(n, from, written, next, locks, jobs),
           \/ from \in Before /\ to \in Before \cup {"loop", "attrs", "post", "done"}
           \/ from \in {"attrs", "post"} /\ to \in {"post", "done"}
    PROVE  ChunksOk(n, to, written, next, locks, jobs)
BY DEF ChunksOk, Before, Places, Writes

\* The length of what is written is a number.
LEMMA WrittenLen ==
    ASSUME NEW n \in Nat, NEW at, NEW written, NEW next, NEW locks, NEW jobs,
           ChunksOk(n, at, written, next, locks, jobs)
    PROVE  Len(written) \in Nat /\ next \in Nat /\ written \in Seq(Nat)
BY LenProperties DEF ChunksOk

\* A chunk gets its lock and its job, in a helper or in place.
LEMMA StartChunks ==
    ASSUME NEW n \in Nat, NEW written, NEW next, NEW locks, NEW jobs,
           ChunksOk(n, "loop", written, next, locks, jobs), next <= n
    PROVE  LET locked  == [locks EXCEPT ![next] = "busy"]
               started == Put(jobs, next, "write")
           IN  /\ next < n => ChunksOk(n, "loop", written, next + 1, locked, started)
               /\ ChunksOk(n, "inplace", written, next, locked, started)
<1> DEFINE locked  == [locks EXCEPT ![next] = "busy"]
           started == Put(jobs, next, "write")
<1>1. next \in 1..n /\ Len(written) \in Nat
  BY WrittenLen DEF ChunksOk
<1>2. /\ locked \in [1..n -> Locks] /\ locked[next] = "busy"
      /\ \A k \in 1..n : k # next => locked[k] = locks[k]
  BY <1>1 DEF ChunksOk, Locks
<1>3. /\ started \in [DOMAIN started -> {"write", "post"}] /\ DOMAIN started \subseteq 1..n
      /\ DOMAIN started = DOMAIN jobs \cup {next} /\ started[next] = "write"
      /\ \A k \in DOMAIN jobs : k # next => started[k] = jobs[k]
  BY <1>1 DEF ChunksOk, Put
<1>4. locks[next] = "none" /\ next \notin DOMAIN jobs /\ ~(next <= Len(written))
  BY <1>1 DEF ChunksOk
<1> HIDE DEF locked, started
<1>5. next < n => ChunksOk(n, "loop", written, next + 1, locked, started)
  BY <1>1, <1>2, <1>3, <1>4 DEF ChunksOk, Before
<1>6. ChunksOk(n, "inplace", written, next, locked, started)
  BY <1>1, <1>2, <1>3, <1>4 DEF ChunksOk, Before
<1> QED
  BY <1>5, <1>6 DEF locked, started

\* A chunk that was written in place is through.
LEMMA NextChunks ==
    ASSUME NEW n \in Nat, NEW written, NEW next, NEW locks, NEW jobs,
           ChunksOk(n, "inplace", written, next, locks, jobs), next \notin DOMAIN jobs
    PROVE  ChunksOk(n, "loop", written, next + 1, locks, jobs)
BY WrittenLen DEF ChunksOk, Before

\* A chunk is written when the one before is, and no other.
LEMMA WriteChunks ==
    ASSUME NEW n \in Nat, NEW at, NEW written, NEW next, NEW locks, NEW jobs,
           ChunksOk(n, at, written, next, locks, jobs),
           NEW k \in DOMAIN jobs, jobs[k] = "write", k > 1 => locks[k - 1] = "idle",
           at \in Places,
           NEW more, more = Append(written, k), NEW past, past = [jobs EXCEPT ![k] = "post"]
    PROVE  /\ at \in {"loop", "inplace"}
           /\ ChunksOk(n, at, more, next, locks, past)
<1>1. /\ k \in 1..n /\ Len(written) \in Nat /\ locks[k] = "busy" /\ ~(k <= Len(written))
      /\ written \in Seq(Nat)
  BY WrittenLen DEF ChunksOk
<1>2. at \in {"loop", "inplace"}
  BY <1>1 DEF ChunksOk, Places, Writes, Before
<1>3. k = Len(written) + 1
  <2>1. k > 1 => k - 1 <= Len(written)
    BY <1>1 DEF ChunksOk
  <2> QED
    BY <1>1, <2>1
<1>4. /\ more \in Seq(Nat) /\ Len(more) = k /\ more[k] = k
      /\ \A i \in 1..Len(written) : more[i] = written[i]
  <2>1. k \in Nat
    BY <1>1
  <2> QED
    BY <1>1, <1>3, <2>1, AppendProperties
<1>5. /\ past \in [DOMAIN past -> {"write", "post"}] /\ DOMAIN past = DOMAIN jobs
      /\ past[k] = "post" /\ \A i \in DOMAIN jobs : i # k => past[i] = jobs[i]
  BY DEF ChunksOk
<1>6. \A i \in 1..Len(more) : more[i] = i
  <2> TAKE i \in 1..Len(more)
  <2>1. i = k \/ i \in 1..Len(written)
    BY <1>1, <1>3, <1>4
  <2>2. \A j \in 1..Len(written) : written[j] = j
    BY DEF ChunksOk
  <2> QED
    BY <1>4, <2>1, <2>2
<1>7. \A i \in 1..n : i <= Len(more) <=> locks[i] # "none" /\ (locks[i] = "busy" => past[i] = "post")
  <2> TAKE i \in 1..n
  <2>1. CASE i = k
    BY <1>1, <1>4, <1>5, <2>1
  <2>2. CASE i # k
    <3>1. i <= Len(more) <=> i <= Len(written)
      BY <1>1, <1>3, <1>4, <2>2
    <3>2. locks[i] = "busy" => past[i] = jobs[i]
      BY <1>5, <2>2 DEF ChunksOk
    <3>3. i <= Len(written) <=> locks[i] # "none" /\ (locks[i] = "busy" => jobs[i] = "post")
      BY DEF ChunksOk
    <3> QED
      BY <3>1, <3>2, <3>3
  <2> QED
    BY <2>1, <2>2
<1>8. ChunksOk(n, at, more, next, locks, past)
  BY <1>1, <1>2, <1>4, <1>5, <1>6, <1>7 DEF ChunksOk, Before
<1> QED
  BY <1>2, <1>8

\* And then it posts that it is through.
LEMMA EndChunks ==
    ASSUME NEW n \in Nat, NEW at, NEW written, NEW next, NEW locks, NEW jobs,
           ChunksOk(n, at, written, next, locks, jobs),
           NEW k \in DOMAIN jobs, jobs[k] = "post"
    PROVE  ChunksOk(n, at, written, next, [locks EXCEPT ![k] = "idle"],
                    [i \in DOMAIN jobs \ {k} |-> jobs[i]])
<1> DEFINE locked == [locks EXCEPT ![k] = "idle"]
           rest   == [i \in DOMAIN jobs \ {k} |-> jobs[i]]
<1>1. k \in 1..n /\ Len(written) \in Nat /\ locks[k] = "busy" /\ k <= Len(written)
  BY WrittenLen DEF ChunksOk
<1>2. /\ locked \in [1..n -> Locks] /\ locked[k] = "idle"
      /\ \A i \in 1..n : i # k => locked[i] = locks[i]
  BY <1>1 DEF ChunksOk, Locks
<1>3. /\ DOMAIN rest = DOMAIN jobs \ {k} /\ rest \in [DOMAIN rest -> {"write", "post"}]
      /\ \A i \in DOMAIN rest : rest[i] = jobs[i]
  BY DEF ChunksOk
<1> HIDE DEF locked, rest
<1>4. ChunksOk(n, at, written, next, locked, rest)
  BY <1>1, <1>2, <1>3 DEF ChunksOk
<1> QED
  BY <1>4 DEF locked, rest

\* When the loop is through, all chunks are written.
LEMMA EndLoops ==
    ASSUME NEW n \in Nat, NEW written, NEW next, NEW locks, NEW jobs,
           ChunksOk(n, "loop", written, next, locks, jobs), next > n
    PROVE  ChunksOk(n, "collect", written, 1, locks, jobs)
<1>1. Len(written) \in Nat /\ next = n + 1
  BY WrittenLen DEF ChunksOk
<1>2. \A k \in 1..n : locks[k] # "none"
  BY <1>1 DEF ChunksOk
<1>3. n > 0 => n <= Len(written)
  BY <1>1, <1>2 DEF ChunksOk
<1>4. \A k \in 1..n : k <= Len(written)
  BY <1>1, <1>3
<1> QED
  BY <1>1, <1>2, <1>4 DEF ChunksOk, Before

\* The locks are deleted one by one.
LEMMA DeleteLocks ==
    ASSUME NEW n \in Nat, NEW written, NEW next, NEW locks, NEW jobs,
           ChunksOk(n, "collect", written, next, locks, jobs), next <= n, locks[next] = "idle"
    PROVE  ChunksOk(n, "collect", written, next + 1, [locks EXCEPT ![next] = "deleted"], jobs)
<1> DEFINE locked == [locks EXCEPT ![next] = "deleted"]
<1>1. next \in 1..n /\ Len(written) \in Nat
  BY WrittenLen DEF ChunksOk
<1>2. /\ locked \in [1..n -> Locks] /\ locked[next] = "deleted"
      /\ \A i \in 1..n : i # next => locked[i] = locks[i]
  BY <1>1 DEF ChunksOk, Locks
<1> HIDE DEF locked
<1>3. ChunksOk(n, "collect", written, next + 1, locked, jobs)
  BY <1>1, <1>2 DEF ChunksOk, Before
<1> QED
  BY <1>3 DEF locked

\* A file that is closed is whole.
LEMMA CloseChunks ==
    ASSUME NEW n \in Nat, NEW written, NEW next, NEW locks, NEW jobs,
           ChunksOk(n, "collect", written, next, locks, jobs)
    PROVE  ChunksOk(n, "attrs", written, next, locks, jobs) /\ Len(written) = n
<1>1. Len(written) \in Nat
  BY WrittenLen
<1>2. n > 0 => n <= Len(written)
  BY <1>1 DEF ChunksOk
<1> QED
  BY <1>1, <1>2 DEF ChunksOk, Before

-----------------------------------------------------------------------------
(* The lines of the list and their names. *)

\* What the list says stays while the scene does.
LEMMA SceneStays ==
    ASSUME scene' = scene
    PROVE  /\ Lines' = Lines /\ Dirs' = Dirs /\ RegFiles' = RegFiles
           /\ NameOf' = NameOf /\ Final' = Final /\ FInfoOf' = FInfoOf /\ NodeRec' = NodeRec
BY DEF Lines, Dirs, RegFiles, NameOf, Final, FInfoOf, NodeRec, Is, Name, List

\* The types of what the list says.
LEMMA SceneFacts ==
    ASSUME scene \in Scenes
    PROVE  /\ 0 \notin Lines /\ scene.wanted \subseteq Lines
           /\ Dirs \subseteq Lines /\ RegFiles \subseteq Lines /\ Dirs \cap RegFiles = {}
           /\ \A e \in Lines :
                 /\ NameOf[e] = Name(e) /\ NameOf[e] \in Path /\ NameOf[e] # <<>>
                 /\ Final[e] = List[e].chunks /\ Final[e] \in Nat /\ Chunks(e) = 1..Final[e]
                 /\ FInfoOf[e] = List[e].finfo
                 /\ e \in Dirs <=> Is(e, "dir")
                 /\ e \in RegFiles <=> Is(e, "file")
           /\ \A e \in Dirs : FInfoOf[e] = NoFInfo
<1>1. IsScene(scene)
  BY ScenesAssumption
<1>2. scene.list \in Seq(Entries)
  BY <1>1 DEF IsScene
<1>3. Len(scene.list) \in Nat /\ Lines = 1..Len(scene.list)
  BY <1>2, LenProperties DEF Lines
<1>4. \A e \in Lines : List[e] \in Entries
  BY <1>2, <1>3, ElementOfSeq DEF List
<1>5. \A e \in Lines :
         /\ NameOf[e] = Name(e) /\ NameOf[e] \in Path /\ NameOf[e] # <<>>
         /\ Final[e] = List[e].chunks /\ Final[e] \in Nat /\ Chunks(e) = 1..Final[e]
         /\ FInfoOf[e] = List[e].finfo
  BY <1>4 DEF NameOf, Name, Final, FInfoOf, Entries, Chunks
<1>6. 0 \notin Lines
  BY <1>3
<1>7. Dirs \cap RegFiles = {}
  BY DEF Dirs, RegFiles, Is
<1>8. scene.wanted \subseteq Lines
  BY <1>1 DEF IsScene, Lines
<1>9. \A e \in Dirs : FInfoOf[e] = NoFInfo
  BY <1>1, <1>5 DEF Dirs, Is, IsScene, Lines, List
<1> QED
  BY <1>5, <1>6, <1>7, <1>8, <1>9 DEF Dirs, RegFiles

\* The names are apart, and nothing lies under a file.
LEMMA NamesApart ==
    ASSUME scene \in Scenes, IsArchive(scene)
    PROVE  /\ \A d, e \in Lines : NameOf[d] = NameOf[e] => d = e
           /\ \A d \in Lines, e \in Lines \ Dirs : NameOf[e] \notin Prefixes(Front(NameOf[d]))
<1>1. \A d, e \in Lines : NameOf[d] = NameOf[e] => d = e
  BY SceneFacts DEF IsArchive, Lines, Name, List
<1>2. ASSUME NEW d \in Lines, NEW e \in Lines \ Dirs, NameOf[e] \in Prefixes(Front(NameOf[d]))
      PROVE  FALSE
  <2>1. PICK n \in Path : n = NameOf[d] /\ n # <<>>
    BY SceneFacts
  <2>2. PICK m \in Path : m = NameOf[e]
    BY <1>2, SceneFacts
  <2>3. /\ Front(n) \in Path /\ Len(Front(n)) = Len(n) - 1 /\ Len(n) \in Nat \ {0}
        /\ IsPrefix(Front(n), n)
    BY <2>1, FrontFacts
  <2>4. Len(m) <= Len(Front(n)) /\ IsPrefix(m, Front(n))
    BY <1>2, <2>1, <2>2, <2>3, PrefixesFacts
  <2>5. IsPrefix(m, n) /\ m # n
    BY <2>1, <2>2, <2>3, <2>4, PrefixOrder
  <2>6. IsStrictPrefix(Name(e), Name(d))
    BY <1>2, <2>1, <2>2, <2>5, SceneFacts DEF IsStrictPrefix
  <2>7. Is(e, "dir")
    BY <1>2, <2>6 DEF IsArchive, Lines, Name, List, Is
  <2> QED
    BY <1>2, <2>7 DEF Dirs
<1> QED
  BY <1>1, <1>2

\* A job that goes on leaves the others where they are.
LEMMA GotoFacts ==
    ASSUME pc \in [Lines -> Places], NEW e \in Lines, NEW where \in Places, Goto(e, where)
    PROVE  /\ pc' \in [Lines -> Places] /\ pc'[e] = where
           /\ \A d \in Lines : d # e => pc'[d] = pc[d]
BY DEF Goto

-----------------------------------------------------------------------------
(* The extracted tree. *)

\* What is above p lies in what is above p.
LEMMA AboveFacts ==
    ASSUME NEW p \in Path, p # <<>>
    PROVE  /\ Front(p) \in Prefixes(Front(p)) /\ Prefixes(Front(p)) \subseteq Path
           /\ p \notin Prefixes(Front(p))
           /\ \A q \in Prefixes(Front(p)) : q # <<>> =>
                 /\ Front(q) \in Prefixes(Front(p))
                 /\ Prefixes(Front(q)) \subseteq Prefixes(Front(p))
<1>1. /\ Front(p) \in Path /\ Len(Front(p)) = Len(p) - 1 /\ Len(p) \in Nat \ {0}
  BY FrontFacts
<1>2. PICK f \in Path : f = Front(p)
  BY <1>1
<1>3. f \in Prefixes(f) /\ Prefixes(f) \subseteq Path
  BY PrefixSelf, PrefixesFacts
<1>4. p \notin Prefixes(f)
  BY <1>1, <1>2, PrefixesFacts
<1>5. ASSUME NEW q \in Prefixes(f), q # <<>>
      PROVE  Front(q) \in Prefixes(f) /\ Prefixes(Front(q)) \subseteq Prefixes(f)
  <2>1. q \in Path /\ IsPrefix(q, f)
    BY PrefixesFacts
  <2>2. Front(q) \in Path /\ IsPrefix(Front(q), q)
    BY <1>5, <2>1, FrontFacts
  <2>3. IsPrefix(Front(q), f)
    BY <2>1, <2>2, PrefixOrder
  <2>4. ASSUME NEW r \in Prefixes(Front(q)) PROVE r \in Prefixes(f)
    <3>1. r \in Path /\ IsPrefix(r, Front(q))
      BY <2>2, PrefixesFacts
    <3>2. IsPrefix(r, f)
      BY <2>2, <2>3, <3>1, PrefixOrder
    <3> QED
      BY <3>1, <3>2, PrefixesFacts
  <2>5. Front(q) \in Prefixes(f)
    BY <2>2, <2>3, PrefixesFacts
  <2> QED
    BY <2>4, <2>5
<1> QED
  BY <1>2, <1>3, <1>4, <1>5

\* The directories above a name: those that were there keep all but their times.
LEMMA ParentsFacts ==
    ASSUME scene \in Scenes, node \in [DOMAIN node -> NodeRec], Rooted,
           NEW p \in Path, p # <<>>
    PROVE  /\ WithParents(p) \in [DOMAIN node \cup Prefixes(Front(p)) -> NodeRec]
           /\ \A q \in DOMAIN node :
                 /\ WithParents(p)[q].owner = node[q].owner
                 /\ WithParents(p)[q].closed = node[q].closed
                 /\ q \notin Prefixes(Front(p)) => WithParents(p)[q] = node[q]
           /\ \A q \in Prefixes(Front(p)) \ DOMAIN node : WithParents(p)[q] = NewDir
<1> DEFINE above   == Prefixes(Front(p))
           missing == above \ DOMAIN node
           W       == WithParents(p)
<1>1. W = [q \in DOMAIN node \cup missing |->
              CASE q \in missing -> NewDir
                [] q \notin missing /\ \E m \in missing : Front(m) = q ->
                      [node[q] EXCEPT !.mtime = "now"]
                [] OTHER -> node[q]]
  BY DEF WithParents
<1>2. /\ \A q \in above : q # <<>> => Front(q) \in above
      /\ <<>> \notin missing
  BY AboveFacts DEF Rooted
<1>3. NewDir \in NodeRec
  BY DEF NewDir, Node, NodeRec
<1>4. ASSUME NEW r \in NodeRec
      PROVE  LET s == [r EXCEPT !.mtime = "now"]
             IN  s \in NodeRec /\ s.owner = r.owner /\ s.closed = r.closed
  BY DEF NodeRec
<1>5. DOMAIN node \cup missing = DOMAIN node \cup above
  OBVIOUS
<1> HIDE DEF above
<1>6. \A q \in missing : W[q] = NewDir
  BY <1>1
<1>7. \A q \in DOMAIN node :
         \/ W[q] = node[q]
         \/ W[q] = [node[q] EXCEPT !.mtime = "now"] /\ q \in above
  <2> TAKE q \in DOMAIN node
  <2>1. CASE \E m \in missing : Front(m) = q
    <3>1. q \in above
      BY <1>2, <2>1
    <3>2. W[q] = [node[q] EXCEPT !.mtime = "now"]
      BY <1>1, <2>1
    <3> QED
      BY <3>1, <3>2
  <2>2. CASE ~\E m \in missing : Front(m) = q
    BY <1>1, <2>2
  <2> QED
    BY <2>1, <2>2
<1>8. \A q \in DOMAIN node : node[q] \in NodeRec
  OBVIOUS
<1>9. \A q \in DOMAIN node :
         /\ W[q] \in NodeRec /\ W[q].owner = node[q].owner /\ W[q].closed = node[q].closed
         /\ q \notin above => W[q] = node[q]
  <2> TAKE q \in DOMAIN node
  <2>1. PICK r \in NodeRec : r = node[q]
    BY <1>8
  <2>2. CASE W[q] = node[q]
    BY <1>8, <2>2
  <2>3. CASE W[q] = [r EXCEPT !.mtime = "now"] /\ q \in above
    BY <1>4, <2>1, <2>3
  <2> QED
    BY <1>7, <2>1, <2>2, <2>3
<1>10. W \in [DOMAIN node \cup above -> NodeRec]
  <2>1. DOMAIN W = DOMAIN node \cup above /\ W = [q \in DOMAIN W |-> W[q]]
    BY <1>1, <1>5
  <2>2. \A q \in DOMAIN W : W[q] \in NodeRec
    BY <1>3, <1>6, <1>9, <2>1
  <2> QED
    BY <2>1, <2>2
<1> QED
  BY <1>6, <1>9, <1>10 DEF above

\* What the job of the line e may do to the tree: make its name, and directories
\* above it, and set the times of directories and of its own file.
JobTree(e) ==
    /\ node' \in [DOMAIN node' -> NodeRec] /\ DOMAIN node' \subseteq Path /\ Rooted'
    /\ \A q \in DOMAIN node :
          /\ q \in DOMAIN node' /\ node'[q].owner = node[q].owner
          /\ node'[q].closed => node[q].closed
    /\ \A q \in DOMAIN node' : q \notin DOMAIN node =>
          /\ ~node'[q].closed
          /\ q = NameOf[e] \/ (q \in Prefixes(Front(NameOf[e])) /\ node'[q].owner = 0)
    /\ \A d \in Lines \ Dirs : d # e /\ NameOf[d] \in DOMAIN node =>
          node'[NameOf[d]].mtime = node[NameOf[d]].mtime

\* A job that makes something new.
LEMMA WithTree ==
    ASSUME Typed, Rooted, IsArchive(scene), NEW e \in Lines, NameOf[e] \notin DOMAIN node,
           NEW new \in NodeRec, ~new.closed, node' = With(NameOf[e], new)
    PROVE  JobTree(e) /\ NameOf[e] \in DOMAIN node' /\ node'[NameOf[e]] = new
<1>1. /\ scene \in Scenes /\ node \in [DOMAIN node -> NodeRec] /\ DOMAIN node \subseteq Path
  BY DEF Typed
<1>2. PICK p \in Path : p = NameOf[e] /\ p # <<>>
  BY <1>1, SceneFacts
<1>3. PICK above : above = Prefixes(Front(p))
  OBVIOUS
<1>4. PICK top : top = Front(p)
  OBVIOUS
<1>5. /\ top \in above /\ above \subseteq Path /\ p \notin above
      /\ \A q \in above : q # <<>> => Prefixes(Front(q)) \subseteq above
  BY <1>2, <1>3, <1>4, AboveFacts
<1>6. PICK W : W = WithParents(p)
  OBVIOUS
<1>7. /\ W \in [DOMAIN node \cup above -> NodeRec]
      /\ \A q \in DOMAIN node : /\ W[q].owner = node[q].owner /\ W[q].closed = node[q].closed
                                /\ q \notin above => W[q] = node[q]
      /\ \A q \in above \ DOMAIN node : W[q] = NewDir
  BY <1>1, <1>2, <1>3, <1>6, ParentsFacts
<1>8. PICK r \in NodeRec : r = W[top]
  BY <1>5, <1>7
<1>9. PICK s \in NodeRec : /\ s = [r EXCEPT !.mtime = "now"]
                           /\ s.owner = r.owner /\ s.closed = r.closed
  <2>1. LET s == [r EXCEPT !.mtime = "now"]
        IN  s \in NodeRec /\ s.owner = r.owner /\ s.closed = r.closed
    BY DEF NodeRec
  <2> QED
    BY <2>1
<1>10. node' = Put([W EXCEPT ![top] = s], p, new)
  BY <1>2, <1>4, <1>6, <1>8, <1>9 DEF With
<1>11. /\ node' \in [DOMAIN node \cup above \cup {p} -> NodeRec]
       /\ node'[p] = new /\ node'[top] = s
       /\ \A q \in DOMAIN node \cup above : q # p /\ q # top => node'[q] = W[q]
  BY <1>5, <1>7, <1>10 DEF Put
<1>12. DOMAIN node' = DOMAIN node \cup above \cup {p}
  BY <1>11
<1>13. Rooted'
  <2>1. <<>> \in DOMAIN node'
    BY <1>12 DEF Rooted
  <2>2. ASSUME NEW q \in DOMAIN node', q # <<>>
        PROVE  Prefixes(Front(q)) \subseteq DOMAIN node'
    <3>1. CASE q \in DOMAIN node
      BY <1>12, <2>2, <3>1 DEF Rooted
    <3>2. CASE q \in above
      BY <1>5, <1>12, <2>2, <3>2
    <3>3. CASE q = p
      BY <1>3, <1>12, <3>3
    <3> QED
      BY <1>12, <3>1, <3>2, <3>3
  <2> QED
    BY <2>1, <2>2 DEF Rooted
<1>14. \A q \in DOMAIN node : /\ q # p /\ node'[q].owner = node[q].owner
                              /\ node'[q].closed = node[q].closed
                              /\ q \notin above => node'[q] = node[q]
  <2> TAKE q \in DOMAIN node
  <2>1. q # p
    BY <1>2
  <2>2. CASE q = top
    BY <1>5, <1>7, <1>8, <1>9, <1>11, <2>1, <2>2
  <2>3. CASE q # top
    BY <1>7, <1>11, <2>1, <2>3
  <2> QED
    BY <2>1, <2>2, <2>3
<1>15. NewDir.owner = 0 /\ NewDir.closed = FALSE
  BY DEF NewDir, Node
<1>16. \A q \in above : q \notin DOMAIN node => node'[q].owner = 0 /\ ~node'[q].closed
  <2> TAKE q \in above
  <2> HAVE q \notin DOMAIN node
  <2>1. W[q] = NewDir /\ q # p
    BY <1>5, <1>7
  <2>2. CASE q = top
    BY <1>8, <1>9, <1>11, <1>15, <2>1, <2>2
  <2>3. CASE q # top
    BY <1>11, <1>15, <2>1, <2>3
  <2> QED
    BY <2>2, <2>3
<1>17. \A d \in Lines \ Dirs : NameOf[d] \notin above
  BY <1>1, <1>2, <1>3, NamesApart
<1>18. \A d \in Lines \ Dirs : NameOf[d] \in DOMAIN node => node'[NameOf[d]] = node[NameOf[d]]
  BY <1>14, <1>17
<1>19. \A q \in DOMAIN node' : q \notin DOMAIN node =>
          ~node'[q].closed /\ (q = p \/ (q \in above /\ node'[q].owner = 0))
  <2> TAKE q \in DOMAIN node'
  <2> HAVE q \notin DOMAIN node
  <2>1. CASE q = p
    BY <1>11, <2>1
  <2>2. CASE q \in above
    BY <1>16, <2>2
  <2> QED
    BY <1>12, <2>1, <2>2
<1>20. node' \in [DOMAIN node' -> NodeRec] /\ DOMAIN node' \subseteq Path
  BY <1>1, <1>2, <1>5, <1>11, <1>12
<1> QED
  BY <1>2, <1>3, <1>11, <1>12, <1>13, <1>14, <1>18, <1>19, <1>20 DEF JobTree

\* A job that leaves the tree alone.
LEMMA SameTree ==
    ASSUME Typed, Rooted, NEW e \in Lines, node' = node
    PROVE  JobTree(e)
BY DEF JobTree, Typed, Rooted

-----------------------------------------------------------------------------
(* A step of the job of one line keeps what is said of the others. *)

\* The chunks of the other lines.
LEMMA MoveInOrder ==
    ASSUME InOrder, NEW e \in Lines, scene' = scene,
           \A d \in Lines : d # e =>
               /\ pc'[d] = pc[d] /\ content'[d] = content[d] /\ chunk'[d] = chunk[d]
               /\ lock'[d] = lock[d] /\ helpers'[d] = helpers[d],
           ChunksOk(Final[e], pc'[e], content'[e], chunk'[e], lock'[e], helpers'[e]),
           e \in RegFiles /\ pc'[e] \in {"attrs", "post"} => Len(content'[e]) = Final[e]
    PROVE  InOrder'
<1>1. Lines' = Lines /\ RegFiles' = RegFiles /\ Final' = Final
  BY SceneStays
<1>2. ASSUME NEW d \in Lines
      PROVE  /\ ChunksOk(Final[d], pc'[d], content'[d], chunk'[d], lock'[d], helpers'[d])
             /\ d \in RegFiles /\ pc'[d] \in {"attrs", "post"} => Len(content'[d]) = Final[d]
  BY DEF InOrder
<1> QED
  BY <1>1, <1>2 DEF InOrder

\* Where the other jobs are.
LEMMA MoveJobs ==
    ASSUME Jobs, NEW e \in Lines, scene' = scene, main' = main, main = "read",
           \A d \in Lines : d # e => pc'[d] = pc[d],
           pc'[e] \notin {"unread", "done"} => e \in scene.wanted,
           e \in Dirs => pc'[e] \in {"unread", "start", "make", "post", "done"},
           pc'[e] \in {"loop", "inplace", "collect"} => e \in RegFiles,
           pc'[e] = "sync" => FInfoOf[e] # NoFInfo
    PROVE  Jobs'
BY SceneStays DEF Jobs

\* What the other jobs have made.
LEMMA MoveMade ==
    ASSUME Typed, Made, IsArchive(scene), NEW e \in Lines, scene' = scene, JobTree(e),
           \A d \in Lines : d # e => pc'[d] = pc[d],
           e \notin Dirs =>
               /\ pc'[e] \in Before => NameOf[e] \notin DOMAIN node'
               /\ pc'[e] \in Writes => NameOf[e] \in DOMAIN node' /\ node'[NameOf[e]].owner = e
               /\ pc'[e] = "post" => node'[NameOf[e]].mtime = "archived"
               /\ pc'[e] = "done" /\ e \in scene.wanted =>
                     /\ NameOf[e] \in DOMAIN node' /\ node'[NameOf[e]].mtime = "archived"
                     /\ FInfoOf[e] = NoFInfo => node'[NameOf[e]].owner = e,
           e \in Dirs =>
               /\ NameOf[e] \in DOMAIN node' => node'[NameOf[e]].owner = 0
               /\ pc'[e] \in {"post", "done"} /\ e \in scene.wanted => NameOf[e] \in DOMAIN node'
    PROVE  Made'
<1>1. /\ Lines' = Lines /\ Dirs' = Dirs /\ NameOf' = NameOf /\ FInfoOf' = FInfoOf
      /\ scene \in Scenes
  BY SceneStays DEF Typed
<1>2. ASSUME NEW d \in Lines \ Dirs, d # e
      PROVE  /\ pc'[d] \in Before => NameOf[d] \notin DOMAIN node'
             /\ pc'[d] \in Writes => NameOf[d] \in DOMAIN node' /\ node'[NameOf[d]].owner = d
             /\ pc'[d] = "post" => node'[NameOf[d]].mtime = "archived"
             /\ pc'[d] = "done" /\ d \in scene.wanted =>
                   /\ NameOf[d] \in DOMAIN node' /\ node'[NameOf[d]].mtime = "archived"
                   /\ FInfoOf[d] = NoFInfo => node'[NameOf[d]].owner = d
  <2>1. pc'[d] = pc[d]
    BY <1>2
  <2>2. NameOf[d] # NameOf[e] /\ NameOf[d] \notin Prefixes(Front(NameOf[e]))
    BY <1>1, <1>2, NamesApart
  <2>3. NameOf[d] \in DOMAIN node' => NameOf[d] \in DOMAIN node
    BY <2>2 DEF JobTree
  <2>4. NameOf[d] \in DOMAIN node =>
           /\ NameOf[d] \in DOMAIN node' /\ node'[NameOf[d]].owner = node[NameOf[d]].owner
           /\ node'[NameOf[d]].mtime = node[NameOf[d]].mtime
    BY <1>2 DEF JobTree
  <2>5. pc[d] = "post" => pc[d] \in Writes
    BY DEF Writes
  <2> QED
    BY <1>2, <2>1, <2>3, <2>4, <2>5 DEF Made
<1>3. ASSUME NEW d \in Dirs, d # e
      PROVE  /\ NameOf[d] \in DOMAIN node' => node'[NameOf[d]].owner = 0
             /\ pc'[d] \in {"post", "done"} /\ d \in scene.wanted => NameOf[d] \in DOMAIN node'
  <2>1. pc'[d] = pc[d] /\ d \in Lines
    BY <1>3 DEF Dirs
  <2>2. NameOf[d] # NameOf[e]
    BY <1>1, <1>3, <2>1, NamesApart
  <2>3. NameOf[d] \in DOMAIN node' /\ NameOf[d] \notin DOMAIN node => node'[NameOf[d]].owner = 0
    BY <2>2 DEF JobTree
  <2>4. NameOf[d] \in DOMAIN node =>
           NameOf[d] \in DOMAIN node' /\ node'[NameOf[d]].owner = node[NameOf[d]].owner
    BY DEF JobTree
  <2> QED
    BY <1>3, <2>1, <2>3, <2>4 DEF Made
<1> QED
  BY <1>1, <1>2, <1>3 DEF Made

\* The first line of each info block, and those that link to its file.
LEMMA MoveSyncs ==
    ASSUME Typed, Made, Syncs, NEW e \in Lines, scene' = scene, HLinkSyncs' = HLinkSyncs, JobTree(e),
           \A d \in Lines : d # e => pc'[d] = pc[d],
           \/ FInfoOf[e] = NoFInfo
           \/ pc[e] \in Makes /\ pc'[e] \in Makes
           \/ pc[e] = "unread" /\ pc'[e] = "start"
           \/ pc[e] = "unread" /\ pc'[e] = "done" /\ e \notin scene.wanted
    PROVE  Syncs'
<1>1. /\ Lines' = Lines /\ Dirs' = Dirs /\ NameOf' = NameOf /\ FInfoOf' = FInfoOf
  BY SceneStays
<1>2. \A d \in Lines : FInfoOf[d] # NoFInfo /\ d \in scene.wanted /\ pc'[d] \notin {"unread", "start"}
         => FInfoOf[d] \in DOMAIN HLinkSyncs
  BY DEF Syncs, Makes, Writes
<1>3. ASSUME NEW i \in DOMAIN HLinkSyncs
      PROVE  i # NoFInfo /\ \E d \in Lines \ Dirs : FirstOf(d, i)'
  <2>1. PICK d \in Lines \ Dirs : FirstOf(d, i)
    BY DEF Syncs
  <2>2. i # NoFInfo
    BY DEF Syncs
  <2>3. \A q \in DOMAIN node : node'[q].owner = node[q].owner
    BY DEF JobTree
  <2>4. \A c \in Lines \ Dirs : pc[c] = "done" /\ c \in scene.wanted => NameOf[c] \in DOMAIN node
    BY DEF Made
  <2>5. \A c \in Dirs : FInfoOf[c] = NoFInfo
    BY SceneFacts DEF Typed
  <2>6. \A c \in Lines : FInfoOf[c] = i /\ (pc[c] = "done" \/ pc'[c] = "done") =>
           pc'[c] = pc[c] \/ c \notin scene.wanted
    BY <2>2 DEF Makes, Writes
  <2>7. \A c \in Lines : FInfoOf[c] = i /\ (pc[c] \in Makes \/ pc'[c] \in Makes) =>
           pc'[c] \in Makes /\ pc[c] \in Makes
    BY <2>2 DEF Makes, Writes
  <2>8. FInfoOf[d] = i /\ d \in scene.wanted
    BY <2>1 DEF FirstOf
  <2>9. "done" \notin Makes
    BY DEF Makes, Writes
  <2>10. /\ pc'[d] = "done" <=> pc[d] = "done"
         /\ pc'[d] \in Makes \cup {"done"}
    BY <2>1, <2>6, <2>7, <2>8, <2>9 DEF FirstOf
  <2>11. pc'[d] = "done" => HLinkSyncs[i].name = NameOf[d] /\ node'[NameOf[d]].owner = d
    BY <2>1, <2>3, <2>4, <2>8, <2>10 DEF FirstOf
  <2>12. ASSUME NEW c \in Lines, c # d, FInfoOf[c] = i
         PROVE  /\ pc'[c] \notin Makes
                /\ pc'[c] = "done" /\ c \in scene.wanted =>
                      pc'[d] = "done" /\ node'[NameOf[c]].owner = d
    <3>1. /\ pc[c] \notin Makes
          /\ pc[c] = "done" /\ c \in scene.wanted => pc[d] = "done" /\ node[NameOf[c]].owner = d
      BY <2>1, <2>12 DEF FirstOf
    <3>2. pc'[c] \notin Makes
      BY <2>7, <2>12, <3>1
    <3>3. c \notin Dirs
      BY <2>2, <2>5, <2>12
    <3>4. ASSUME pc'[c] = "done", c \in scene.wanted
          PROVE  pc'[d] = "done" /\ node'[NameOf[c]].owner = d
      <4>1. pc[c] = "done"
        BY <2>6, <2>12, <3>4
      <4> QED
        BY <2>3, <2>4, <2>10, <3>1, <3>3, <3>4, <4>1
    <3> QED
      BY <3>2, <3>4
  <2>13. HLinkSyncs[i].busy <=> pc'[d] # "done"
    BY <2>1, <2>10 DEF FirstOf
  <2> QED
    BY <1>1, <2>2, <2>8, <2>10, <2>11, <2>12, <2>13 DEF FirstOf
<1> QED
  BY <1>1, <1>2, <1>3 DEF Syncs

\* The directories that wait for their attributes.
LEMMA MoveDeferred ==
    ASSUME Typed, Deferred, NEW e \in Lines, scene' = scene, main' = main, main = "read", JobTree(e),
           \A d \in Lines : d # e => pc'[d] = pc[d],
           DirAttribs \subseteq DirAttribs', DirAttribs' \subseteq DirAttribs \cup {e},
           e \in DirAttribs' => e \in scene.wanted /\ pc'[e] \in {"post", "done"},
           e \in Dirs /\ e \in scene.wanted /\ pc'[e] \in {"post", "done"} => e \in DirAttribs'
    PROVE  Deferred'
<1>1. /\ Lines' = Lines /\ Dirs' = Dirs /\ NameOf' = NameOf
      /\ Dirs \subseteq Lines /\ DirAttribs \subseteq Dirs
  BY SceneStays DEF Typed, Dirs
<1>2. DirAttribs' \subseteq scene.wanted /\ \A d \in DirAttribs' : pc'[d] \in {"post", "done"}
  BY <1>1 DEF Deferred
<1>3. \A d \in Dirs : d \in scene.wanted /\ pc'[d] \in {"post", "done"} => d \in DirAttribs'
  BY <1>1 DEF Deferred
<1>4. \A q \in DOMAIN node' : ~node'[q].closed
  BY DEF JobTree, Deferred
<1> QED
  BY <1>1, <1>2, <1>3, <1>4 DEF Deferred

-----------------------------------------------------------------------------
(* The invariant holds at first, and every step keeps it. *)

\* Nothing is extracted.
LEMMA InitInv == Init => Inv
<1> SUFFICES ASSUME Init PROVE Inv
  OBVIOUS
<1>1. /\ scene \in Scenes /\ pc = [e \in Lines |-> "unread"] /\ HLinkSyncs = <<>>
      /\ chunk = [e \in Lines |-> 1] /\ lock = [e \in Lines |-> [k \in Chunks(e) |-> "none"]]
      /\ helpers = [e \in Lines |-> <<>>] /\ content = [e \in Lines |-> <<>>]
      /\ node = [p \in {<<>>} |-> NewDir]
      /\ DirAttribs = {} /\ main = "read" /\ failed = FALSE
  BY DEF Init
<1>2. DOMAIN node = {<<>>} /\ <<>> \in Path /\ NewDir \in NodeRec /\ NewDir.closed = FALSE
  BY <1>1, EmptySeq DEF Path, NewDir, Node, NodeRec
<1>3. Typed
  <2>1. DOMAIN HLinkSyncs = {} /\ HLinkSyncs \in [{} -> SyncRec]
    BY <1>1
  <2>2. node \in [DOMAIN node -> NodeRec] /\ DOMAIN node \subseteq Path
    BY <1>1, <1>2
  <2> QED
    BY <1>1, <2>1, <2>2 DEF Typed, Places, Before
<1>4. Jobs
  BY <1>1, SceneFacts DEF Jobs
<1>5. InOrder
  <2> SUFFICES ASSUME NEW e \in Lines
               PROVE  ChunksOk(Final[e], pc[e], content[e], chunk[e], lock[e], helpers[e])
    BY <1>1 DEF InOrder
  <2>1. /\ pc[e] = "unread" /\ content[e] = <<>> /\ chunk[e] = 1 /\ helpers[e] = <<>>
        /\ lock[e] = [k \in 1..Final[e] |-> "none"] /\ Final[e] \in Nat
    BY <1>1, SceneFacts
  <2> QED
    BY <2>1, NoChunks
<1>6. Rooted
  BY <1>2 DEF Rooted
<1>7. Made
  <2>1. \A e \in Lines : NameOf[e] \notin DOMAIN node /\ pc[e] = "unread"
    BY <1>1, <1>2, SceneFacts
  <2> QED
    BY <2>1, SceneFacts, <1>1 DEF Made, Writes
<1>8. Syncs
  BY <1>1 DEF Syncs
<1>9. Deferred
  BY <1>1, <1>2, SceneFacts DEF Deferred
<1> QED
  BY <1>1, <1>3, <1>4, <1>5, <1>6, <1>7, <1>8, <1>9 DEF Inv, NeverFails

\* A job that has not come to its end: the directories still wait.
LEMMA BusyJob ==
    ASSUME Inv, NEW e \in Lines, pc[e] # "done"
    PROVE  /\ e \in scene.wanted \/ pc[e] = "unread"
           /\ main = "read" /\ Final[e] \in Nat
           /\ ChunksOk(Final[e], pc[e], content[e], chunk[e], lock[e], helpers[e])
BY SceneFacts DEF Inv, Typed, Jobs, InOrder

\* The loop over the chunks concerns its own line only.
LEMMA LoopInv ==
    ASSUME Inv, IsArchive(scene), NEW e \in Lines, scene' = scene, HLinkSyncs' = HLinkSyncs,
           node' = node, DirAttribs' = DirAttribs, main' = main, failed' = failed,
           pc' \in [Lines -> Places], content' = content,
           DOMAIN chunk' = Lines, DOMAIN lock' = Lines, DOMAIN helpers' = Lines,
           \A d \in Lines : d # e =>
               /\ pc'[d] = pc[d] /\ chunk'[d] = chunk[d]
               /\ lock'[d] = lock[d] /\ helpers'[d] = helpers[d],
           pc[e] \in {"loop", "inplace", "collect"},
           pc'[e] \in {"loop", "inplace", "collect", "attrs"},
           ChunksOk(Final[e], pc'[e], content'[e], chunk'[e], lock'[e], helpers'[e]),
           pc'[e] = "attrs" => Len(content'[e]) = Final[e]
    PROVE  Inv'
<1>1. /\ Typed /\ Jobs /\ InOrder /\ Rooted /\ Made /\ Syncs /\ Deferred /\ scene \in Scenes
  BY DEF Inv, Typed
<1>2. /\ Lines' = Lines /\ Dirs' = Dirs /\ NodeRec' = NodeRec
      /\ main = "read" /\ e \in scene.wanted /\ e \in RegFiles /\ e \notin Dirs
  BY <1>1, SceneStays, SceneFacts DEF Jobs
<1>3. Typed'
  BY <1>1, <1>2 DEF Typed
<1>4. Jobs'
  BY <1>1, <1>2, MoveJobs
<1>5. InOrder'
  BY <1>1, MoveInOrder
<1>6. JobTree(e)
  BY <1>1, SameTree
<1>7. Rooted'
  BY <1>1 DEF Rooted
<1>8. pc[e] \in Writes /\ pc'[e] \in Writes /\ pc'[e] \notin Before \cup {"post", "done"}
  BY DEF Writes, Before
<1>9. Made'
  <2>1. NameOf[e] \in DOMAIN node' /\ node'[NameOf[e]].owner = e
    BY <1>1, <1>2, <1>8 DEF Made
  <2> QED
    BY <1>1, <1>2, <1>6, <1>8, <2>1, MoveMade
<1>10. Syncs'
  BY <1>1, <1>6, <1>8, MoveSyncs DEF Makes
<1>11. Deferred'
  BY <1>1, <1>2, <1>6, MoveDeferred DEF Typed
<1> QED
  BY <1>3, <1>4, <1>5, <1>7, <1>9, <1>10, <1>11 DEF Inv, NeverFails

\* The loop of one job: a chunk gets its lock and its job, a chunk in place is
\* through, the loop is through, a lock is deleted, the file is closed.
LEMMA LoopSteps ==
    ASSUME Inv, IsArchive(scene), NEW e \in Lines,
           StartChunk(e) \/ NextChunk(e) \/ EndLoop(e) \/ DeleteLock(e) \/ CloseFile(e)
    PROVE  Inv'
<1>1. /\ scene \in Scenes /\ pc \in [Lines -> Places] /\ DOMAIN chunk = Lines
      /\ DOMAIN lock = Lines /\ DOMAIN helpers = Lines
      /\ scene' = scene /\ HLinkSyncs' = HLinkSyncs /\ node' = node /\ content' = content
      /\ DirAttribs' = DirAttribs /\ main' = main /\ failed' = failed
  BY DEF Inv, Typed, StartChunk, NextChunk, EndLoop, DeleteLock, CloseFile
<1>2. pc[e] \in {"loop", "inplace", "collect"}
  BY DEF StartChunk, NextChunk, EndLoop, DeleteLock, CloseFile, At
<1>3. PICK n \in Nat : n = Final[e] /\ n = List[e].chunks
  BY <1>1, SceneFacts
<1>4. ChunksOk(n, pc[e], content[e], chunk[e], lock[e], helpers[e])
  BY <1>2, <1>3, BusyJob
<1>5. chunk[e] \in Nat
  BY <1>4, WrittenLen
<1>6. {"loop", "inplace", "collect", "attrs"} \subseteq Places
  BY DEF Places, Writes
<1>7. CASE StartChunk(e)
  <2>1. /\ pc[e] = "loop" /\ chunk[e] <= n
        /\ lock' = [lock EXCEPT ![e][chunk[e]] = "busy"]
        /\ helpers' = [helpers EXCEPT ![e] = Put(@, chunk[e], "write")]
    BY <1>3, <1>7 DEF StartChunk, At
  <2>2. PICK k \in Nat : k = chunk[e]
    BY <1>5
  <2>3. PICK locked, started :
           locked = [lock[e] EXCEPT ![k] = "busy"] /\ started = Put(helpers[e], k, "write")
    OBVIOUS
  <2>4. lock' = [lock EXCEPT ![e] = locked] /\ helpers' = [helpers EXCEPT ![e] = started]
    BY <2>1, <2>2, <2>3
  <2>5. /\ DOMAIN lock' = Lines /\ DOMAIN helpers' = Lines
        /\ lock'[e] = locked /\ helpers'[e] = started
        /\ \A d \in Lines : d # e => lock'[d] = lock[d] /\ helpers'[d] = helpers[d]
    BY <1>1, <2>4
  <2>6. /\ k < n => ChunksOk(n, "loop", content[e], k + 1, locked, started)
        /\ ChunksOk(n, "inplace", content[e], k, locked, started)
    BY <1>4, <2>1, <2>2, <2>3, StartChunks
  <2>7. CASE Helped(e)
    <3>1. k < n /\ chunk' = [chunk EXCEPT ![e] = @ + 1] /\ pc' = pc
      BY <1>3, <1>7, <2>2, <2>7 DEF StartChunk, Helped
    <3>2. /\ DOMAIN chunk' = Lines /\ chunk'[e] = k + 1
          /\ \A d \in Lines : d # e => chunk'[d] = chunk[d]
      BY <1>1, <2>2, <3>1
    <3>3. pc' \in [Lines -> Places] /\ pc'[e] = "loop" /\ \A d \in Lines : pc'[d] = pc[d]
      BY <1>1, <2>1, <3>1
    <3>4. ChunksOk(Final[e], pc'[e], content'[e], chunk'[e], lock'[e], helpers'[e])
      BY <1>1, <1>3, <2>5, <2>6, <3>1, <3>2, <3>3
    <3> QED
      BY <1>1, <1>2, <2>5, <3>2, <3>3, <3>4, LoopInv
  <2>8. CASE ~Helped(e)
    <3>1. Goto(e, "inplace") /\ chunk' = chunk
      BY <1>7, <2>8 DEF StartChunk
    <3>2. /\ pc' \in [Lines -> Places] /\ pc'[e] = "inplace"
          /\ \A d \in Lines : d # e => pc'[d] = pc[d]
      BY <1>1, <1>6, <3>1, GotoFacts
    <3>3. ChunksOk(Final[e], pc'[e], content'[e], chunk'[e], lock'[e], helpers'[e])
      BY <1>1, <1>3, <2>2, <2>5, <2>6, <3>1, <3>2
    <3> QED
      BY <1>1, <1>2, <2>5, <3>1, <3>2, <3>3, LoopInv
  <2> QED
    BY <2>7, <2>8
<1>8. CASE NextChunk(e) \/ EndLoop(e)
  <2>1. /\ lock' = lock /\ helpers' = helpers
    BY <1>8 DEF NextChunk, EndLoop
  <2>2. PICK k \in Nat, where \in {"loop", "collect"} :
           /\ chunk' = [chunk EXCEPT ![e] = k] /\ Goto(e, where)
           /\ ChunksOk(n, where, content[e], k, lock[e], helpers[e])
    <3>1. CASE NextChunk(e)
      <4>1. /\ pc[e] = "inplace" /\ chunk[e] \notin DOMAIN helpers[e] /\ Goto(e, "loop")
            /\ chunk' = [chunk EXCEPT ![e] = chunk[e] + 1]
        BY <3>1 DEF NextChunk, At
      <4>2. ChunksOk(n, "loop", content[e], chunk[e] + 1, lock[e], helpers[e])
        BY <1>4, <4>1, NextChunks
      <4>3. PICK j \in Nat : j = chunk[e] + 1
        BY <1>5
      <4>4. /\ chunk' = [chunk EXCEPT ![e] = j] /\ Goto(e, "loop")
            /\ ChunksOk(n, "loop", content[e], j, lock[e], helpers[e])
        BY <4>1, <4>2, <4>3
      <4> QED
        BY <4>4
    <3>2. CASE EndLoop(e)
      <4>1. /\ pc[e] = "loop" /\ chunk[e] > n /\ Goto(e, "collect")
            /\ chunk' = [chunk EXCEPT ![e] = 1]
        BY <1>3, <3>2 DEF EndLoop, At
      <4>2. ChunksOk(n, "collect", content[e], 1, lock[e], helpers[e])
        BY <1>4, <4>1, EndLoops
      <4> QED
        BY <4>1, <4>2
    <3> QED
      BY <1>8, <3>1, <3>2
  <2>3. /\ pc' \in [Lines -> Places] /\ pc'[e] = where
        /\ \A d \in Lines : d # e => pc'[d] = pc[d]
    BY <1>1, <1>6, <2>2, GotoFacts
  <2>4. /\ DOMAIN chunk' = Lines /\ chunk'[e] = k
        /\ \A d \in Lines : d # e => chunk'[d] = chunk[d]
    BY <1>1, <2>2
  <2>5. ChunksOk(Final[e], pc'[e], content'[e], chunk'[e], lock'[e], helpers'[e])
    BY <1>1, <1>3, <2>1, <2>2, <2>3, <2>4
  <2> QED
    BY <1>1, <1>2, <2>1, <2>3, <2>4, <2>5, LoopInv
<1>9. CASE DeleteLock(e)
  <2>1. /\ pc[e] = "collect" /\ chunk[e] <= n /\ lock[e][chunk[e]] = "idle"
        /\ lock' = [lock EXCEPT ![e][chunk[e]] = "deleted"]
        /\ chunk' = [chunk EXCEPT ![e] = @ + 1] /\ pc' = pc /\ helpers' = helpers
    BY <1>3, <1>9 DEF DeleteLock, At
  <2>2. PICK k \in Nat : k = chunk[e]
    BY <1>5
  <2>3. PICK locked : locked = [lock[e] EXCEPT ![k] = "deleted"]
    OBVIOUS
  <2>4. lock' = [lock EXCEPT ![e] = locked] /\ chunk' = [chunk EXCEPT ![e] = k + 1]
    BY <2>1, <2>2, <2>3
  <2>5. /\ DOMAIN lock' = Lines /\ lock'[e] = locked
        /\ DOMAIN chunk' = Lines /\ chunk'[e] = k + 1
        /\ \A d \in Lines : d # e => lock'[d] = lock[d] /\ chunk'[d] = chunk[d]
    BY <1>1, <2>4
  <2>6. ChunksOk(n, "collect", content[e], k + 1, locked, helpers[e])
    BY <1>4, <2>1, <2>2, <2>3, DeleteLocks
  <2>7. ChunksOk(Final[e], pc'[e], content'[e], chunk'[e], lock'[e], helpers'[e])
    BY <1>1, <1>3, <2>1, <2>5, <2>6
  <2> QED
    BY <1>1, <1>2, <2>1, <2>5, <2>7, LoopInv
<1>10. CASE CloseFile(e)
  <2>1. /\ pc[e] = "collect" /\ Goto(e, "attrs")
        /\ lock' = lock /\ chunk' = chunk /\ helpers' = helpers
    BY <1>10 DEF CloseFile, At
  <2>2. /\ pc' \in [Lines -> Places] /\ pc'[e] = "attrs"
        /\ \A d \in Lines : d # e => pc'[d] = pc[d]
    BY <1>1, <1>6, <2>1, GotoFacts
  <2>3. ChunksOk(n, "attrs", content[e], chunk[e], lock[e], helpers[e]) /\ Len(content[e]) = n
    BY <1>4, <2>1, CloseChunks
  <2>4. /\ ChunksOk(Final[e], pc'[e], content'[e], chunk'[e], lock'[e], helpers'[e])
        /\ Len(content'[e]) = Final[e]
    BY <1>1, <1>3, <2>1, <2>2, <2>3
  <2> QED
    BY <1>1, <1>2, <2>1, <2>2, <2>4, LoopInv
<1> QED
  BY <1>7, <1>8, <1>9, <1>10

\* A helper of the line e writes its chunk, or posts that it is through.
LEMMA ChunkSteps ==
    ASSUME Inv, IsArchive(scene), NEW e \in Lines, NEW k, WriteChunk(e, k) \/ EndChunk(e, k)
    PROVE  Inv'
<1>1. /\ Typed /\ Jobs /\ InOrder /\ Rooted /\ Made /\ Syncs /\ Deferred /\ scene \in Scenes
      /\ DOMAIN lock = Lines /\ DOMAIN helpers = Lines /\ DOMAIN content = Lines
      /\ pc \in [Lines -> Places]
  BY DEF Inv, Typed
<1>2. /\ scene' = scene /\ pc' = pc /\ HLinkSyncs' = HLinkSyncs /\ chunk' = chunk
      /\ node' = node /\ DirAttribs' = DirAttribs /\ main' = main /\ failed' = failed
      /\ k \in DOMAIN helpers[e]
  BY DEF WriteChunk, EndChunk, Writing
<1>3. /\ Lines' = Lines /\ Dirs' = Dirs /\ RegFiles' = RegFiles /\ NameOf' = NameOf
      /\ FInfoOf' = FInfoOf /\ NodeRec' = NodeRec
  BY <1>2, SceneStays
<1>4. PICK n \in Nat : n = Final[e]
  BY <1>1, SceneFacts
<1>5. /\ ChunksOk(n, pc[e], content[e], chunk[e], lock[e], helpers[e])
      /\ e \in RegFiles /\ pc[e] \in {"attrs", "post"} => Len(content[e]) = n
  BY <1>1, <1>4 DEF InOrder
<1>6. PICK locked, locks, jobs, rest, past :
         /\ locked = lock[e] /\ locks = [locked EXCEPT ![k] = "idle"] /\ jobs = helpers[e]
         /\ rest = [j \in DOMAIN jobs \ {k} |-> jobs[j]]
         /\ past = [jobs EXCEPT ![k] = "post"]
  OBVIOUS
<1>7. /\ DOMAIN lock' = Lines /\ DOMAIN helpers' = Lines /\ DOMAIN content' = Lines
      /\ \A d \in Lines : d # e =>
            content'[d] = content[d] /\ lock'[d] = lock[d] /\ helpers'[d] = helpers[d]
      /\ ChunksOk(n, pc[e], content'[e], chunk[e], lock'[e], helpers'[e])
      /\ e \in RegFiles /\ pc[e] \in {"attrs", "post"} => Len(content'[e]) = n
  <2>1. CASE WriteChunk(e, k)
    <3>1. /\ helpers[e][k] = "write"
          /\ k > 1 => lock[e][k - 1] = "idle"
          /\ content' = [content EXCEPT ![File(e)] = Append(@, k)]
          /\ helpers' = [helpers EXCEPT ![e][k] = "post"] /\ lock' = lock
      BY <2>1 DEF WriteChunk, Writing
    <3>2. PICK more : more = Append(content[e], k)
      OBVIOUS
    <3>3. pc[e] \in {"loop", "inplace"} /\ ChunksOk(n, pc[e], more, chunk[e], lock[e], past)
      <4>1. pc[e] \in Places
        BY <1>1
      <4>2. /\ k \in DOMAIN jobs /\ jobs[k] = "write"
            /\ k > 1 => locked[k - 1] = "idle"
            /\ ChunksOk(n, pc[e], content[e], chunk[e], locked, jobs)
        BY <1>2, <1>5, <1>6, <3>1
      <4>3. pc[e] \in {"loop", "inplace"} /\ ChunksOk(n, pc[e], more, chunk[e], locked, past)
        BY <1>6, <3>2, <4>1, <4>2, WriteChunks
      <4> QED
        BY <1>6, <4>3
    <3>4. e \in Lines \ Dirs /\ pc[e] \in Writes
      BY <1>1, <3>3, SceneFacts DEF Jobs, Writes
    <3>5. File(e) = e
      BY <1>1, <3>4, SceneFacts DEF Made, File
    <3>6. content' = [content EXCEPT ![e] = more] /\ helpers' = [helpers EXCEPT ![e] = past]
      BY <1>6, <3>1, <3>2, <3>5
    <3> QED
      BY <1>1, <3>1, <3>3, <3>6
  <2>2. CASE EndChunk(e, k)
    <3>1. /\ helpers[e][k] = "post" /\ content' = content
          /\ lock' = [lock EXCEPT ![e][k] = "idle"]
          /\ helpers' = [helpers EXCEPT ![e] = [j \in DOMAIN @ \ {k} |-> @[j]]]
      BY <2>2 DEF EndChunk
    <3>2. lock' = [lock EXCEPT ![e] = locks] /\ helpers' = [helpers EXCEPT ![e] = rest]
      BY <1>6, <3>1
    <3>3. ChunksOk(n, pc[e], content[e], chunk[e], locks, rest)
      <4>1. /\ k \in DOMAIN jobs /\ jobs[k] = "post"
            /\ ChunksOk(n, pc[e], content[e], chunk[e], locked, jobs)
        BY <1>2, <1>5, <1>6, <3>1
      <4>2. ChunksOk(n, pc[e], content[e], chunk[e], [locked EXCEPT ![k] = "idle"],
                     [j \in DOMAIN jobs \ {k} |-> jobs[j]])
        BY <4>1, EndChunks
      <4> QED
        BY <1>6, <4>2
    <3> QED
      BY <1>1, <1>5, <3>1, <3>2, <3>3
  <2> QED
    BY <2>1, <2>2
<1>8. Typed'
  BY <1>1, <1>2, <1>3, <1>7 DEF Typed
<1>9. InOrder'
  BY <1>1, <1>2, <1>4, <1>7, MoveInOrder
<1>10. Jobs' /\ Rooted' /\ Made'
  BY <1>1, <1>2, <1>3 DEF Jobs, Rooted, Made
<1>11. Syncs'
  <2>1. \A d, i : FirstOf(d, i) => FirstOf(d, i)'
    BY <1>2, <1>3 DEF FirstOf
  <2>2. \A i \in DOMAIN HLinkSyncs : i # NoFInfo /\ \E d \in Lines \ Dirs : FirstOf(d, i)'
    BY <1>1, <2>1 DEF Syncs
  <2> QED
    BY <1>1, <1>2, <1>3, <2>2 DEF Syncs
<1>12. Deferred'
  BY <1>1, <1>2, <1>3 DEF Deferred
<1> QED
  BY <1>2, <1>8, <1>9, <1>10, <1>11, <1>12 DEF Inv, NeverFails

\* A job that leaves the chunks alone goes on.
LEMMA JobInv ==
    ASSUME Inv, IsArchive(scene), NEW e \in Lines, NEW to \in Places, Goto(e, to),
           scene' = scene, chunk' = chunk, lock' = lock, helpers' = helpers,
           content' = content, main' = main, failed' = failed,
           \/ pc[e] \in Before /\ to \in Before \cup {"loop", "attrs", "post", "done"}
           \/ pc[e] \in {"attrs", "post"} /\ to \in {"post", "done"},
           to \notin {"unread", "done"} => e \in scene.wanted,
           e \in Dirs => to \in {"unread", "start", "make", "post", "done"},
           to = "loop" => e \in RegFiles,
           to = "sync" => FInfoOf[e] # NoFInfo,
           e \in RegFiles /\ to \in {"attrs", "post"} => pc[e] = "attrs",
           HLinkSyncs' \in [DOMAIN HLinkSyncs' -> SyncRec],
           JobTree(e), Made', Syncs',
           DirAttribs' \subseteq Dirs, DirAttribs \subseteq DirAttribs',
           DirAttribs' \subseteq DirAttribs \cup {e},
           e \in DirAttribs' => e \in scene.wanted /\ to \in {"post", "done"},
           e \in Dirs /\ e \in scene.wanted /\ to \in {"post", "done"} => e \in DirAttribs'
    PROVE  Inv'
<1>1. /\ Typed /\ Jobs /\ InOrder /\ Deferred /\ scene \in Scenes
      /\ pc \in [Lines -> Places] /\ "done" \notin Before
  BY DEF Inv, Typed, Before
<1>2. /\ pc' \in [Lines -> Places] /\ pc'[e] = to
      /\ \A d \in Lines : d # e => pc'[d] = pc[d]
  BY <1>1, GotoFacts
<1>3. /\ Lines' = Lines /\ Dirs' = Dirs /\ NodeRec' = NodeRec /\ Final[e] \in Nat
      /\ main = "read" /\ ChunksOk(Final[e], pc[e], content[e], chunk[e], lock[e], helpers[e])
  BY <1>1, SceneStays, BusyJob
<1>4. Typed'
  BY <1>1, <1>2, <1>3 DEF Typed, JobTree
<1>5. Jobs'
  BY <1>1, <1>2, <1>3, MoveJobs DEF Before
<1>6. InOrder'
  <2>1. ChunksOk(Final[e], to, content[e], chunk[e], lock[e], helpers[e])
    <3>1. pc[e] \in Places
      BY <1>1
    <3> QED
      BY <1>3, <3>1, MoveChunks
  <2>2. e \in RegFiles /\ to \in {"attrs", "post"} => Len(content[e]) = Final[e]
    BY <1>1 DEF InOrder
  <2> QED
    BY <1>1, <1>2, <2>1, <2>2, MoveInOrder
<1>7. Deferred'
  BY <1>1, <1>2, <1>3, MoveDeferred
<1>8. Rooted'
  BY DEF JobTree
<1> QED
  BY <1>4, <1>5, <1>6, <1>7, <1>8 DEF Inv, NeverFails

\* A line is read: its job starts, or there is none for it.
LEMMA ReadStep ==
    ASSUME Inv, IsArchive(scene), NEW e \in Lines, Read(e)
    PROVE  Inv'
<1>1. /\ Typed /\ Jobs /\ Made /\ Syncs /\ Deferred /\ Rooted /\ scene \in Scenes
      /\ pc \in [Lines -> Places]
  BY DEF Inv, Typed
<1>2. PICK to \in {"start", "done"} :
         /\ Goto(e, to) /\ (to = "start" <=> e \in scene.wanted) /\ pc[e] = "unread"
  BY DEF Read, At
<1>3. /\ scene' = scene /\ HLinkSyncs' = HLinkSyncs /\ chunk' = chunk /\ lock' = lock
      /\ helpers' = helpers /\ node' = node /\ content' = content
      /\ DirAttribs' = DirAttribs /\ main' = main /\ failed' = failed /\ main = "read"
  BY DEF Read
<1>4. to \in Places /\ pc[e] \in Before /\ to \in Before \cup {"done"} /\ "done" \notin Before
  BY <1>2 DEF Places, Before
<1>5. pc'[e] = to /\ \A d \in Lines : d # e => pc'[d] = pc[d]
  BY <1>1, <1>2, <1>4, GotoFacts
<1>6. JobTree(e)
  BY <1>1, <1>3, SameTree
<1>7. e \notin DirAttribs
  BY <1>1, <1>2 DEF Deferred
<1>8. Made'
  <2>1. e \notin Dirs => NameOf[e] \notin DOMAIN node'
    BY <1>1, <1>3, <1>4 DEF Made
  <2>2. e \in Dirs /\ NameOf[e] \in DOMAIN node' => node'[NameOf[e]].owner = 0
    BY <1>1, <1>3 DEF Made
  <2>3. to \notin Writes /\ to # "post"
    BY <1>2 DEF Writes
  <2> QED
    BY <1>1, <1>2, <1>3, <1>4, <1>5, <1>6, <2>1, <2>2, <2>3, MoveMade
<1>9. Syncs'
  BY <1>1, <1>2, <1>3, <1>5, <1>6, MoveSyncs
<1>10. HLinkSyncs' \in [DOMAIN HLinkSyncs' -> SyncRec] /\ DirAttribs' \subseteq Dirs
  BY <1>1, <1>3 DEF Typed
<1> QED
  BY <1>2, <1>3, <1>4, <1>6, <1>7, <1>8, <1>9, <1>10, JobInv

\* A job finds out whether it is the first of its info block.
LEMMA RegisterStep ==
    ASSUME Inv, IsArchive(scene), NEW e \in Lines, Register(e)
    PROVE  Inv'
<1>1. /\ Typed /\ Jobs /\ Made /\ Syncs /\ Deferred /\ Rooted /\ scene \in Scenes
      /\ pc \in [Lines -> Places]
  BY DEF Inv, Typed
<1>2. PICK i : i = FInfoOf[e] /\ i = List[e].finfo
  BY <1>1, SceneFacts
<1>3. /\ scene' = scene /\ chunk' = chunk /\ lock' = lock /\ helpers' = helpers
      /\ node' = node /\ content' = content /\ DirAttribs' = DirAttribs
      /\ main' = main /\ failed' = failed /\ pc[e] = "start"
  BY DEF Register, At
<1>4. PICK to \in {"sync", "make"} :
         /\ Goto(e, to)
         /\ to = "sync" <=> (i # NoFInfo /\ i \in DOMAIN HLinkSyncs)
         /\ HLinkSyncs' = IF to = "sync" \/ i = NoFInfo THEN HLinkSyncs
                          ELSE Put(HLinkSyncs, i, Sync(<<>>, TRUE))
  <2>1. CASE i # NoFInfo /\ i \in DOMAIN HLinkSyncs
    BY <1>2, <2>1 DEF Register
  <2>2. CASE ~(i # NoFInfo /\ i \in DOMAIN HLinkSyncs)
    BY <1>2, <2>2 DEF Register
  <2> QED
    BY <2>1, <2>2
<1>5. to \in Places /\ pc[e] \in Before /\ to \in Before /\ "done" \notin Before
  BY <1>3, <1>4 DEF Places, Before
<1>6. pc'[e] = to /\ \A d \in Lines : d # e => pc'[d] = pc[d]
  BY <1>1, <1>4, <1>5, GotoFacts
<1>7. JobTree(e)
  BY <1>1, <1>3, SameTree
<1>8. e \in scene.wanted /\ main = "read" /\ e \notin DirAttribs
  BY <1>1, <1>3, BusyJob DEF Deferred
<1>9. e \in Dirs => i = NoFInfo
  BY <1>1, <1>2, SceneFacts
<1>10. Made'
  <2>1. e \notin Dirs => NameOf[e] \notin DOMAIN node'
    BY <1>1, <1>3, <1>5 DEF Made
  <2>2. e \in Dirs /\ NameOf[e] \in DOMAIN node' => node'[NameOf[e]].owner = 0
    BY <1>1, <1>3 DEF Made
  <2>3. to \notin Writes /\ to # "post" /\ to # "done"
    BY <1>4 DEF Writes
  <2> QED
    BY <1>1, <1>3, <1>6, <1>7, <2>1, <2>2, <2>3, MoveMade
<1>11. HLinkSyncs \in [DOMAIN HLinkSyncs -> SyncRec]
  BY <1>1 DEF Typed
<1>12. HLinkSyncs' \in [DOMAIN HLinkSyncs' -> SyncRec] /\ Syncs'
  <2>1. CASE i = NoFInfo
    BY <1>1, <1>2, <1>3, <1>4, <1>6, <1>7, <1>11, <2>1, MoveSyncs
  <2>2. CASE i # NoFInfo
    <3>1. /\ Lines' = Lines /\ Dirs' = Dirs /\ NameOf' = NameOf /\ FInfoOf' = FInfoOf
      BY <1>3, SceneStays
    <3>2. PICK fresh \in SyncRec : fresh = Sync(<<>>, TRUE) /\ fresh.busy
      <4>1. <<>> \in Path
        BY EmptySeq DEF Path
      <4>2. Sync(<<>>, TRUE) \in SyncRec /\ Sync(<<>>, TRUE).busy
        BY <4>1 DEF Sync, SyncRec
      <4> QED
        BY <4>2
    <3>3. /\ DOMAIN HLinkSyncs' = DOMAIN HLinkSyncs \cup {i}
          /\ HLinkSyncs' \in [DOMAIN HLinkSyncs' -> SyncRec]
          /\ \A j \in DOMAIN HLinkSyncs : HLinkSyncs'[j] = HLinkSyncs[j]
          /\ to = "make" => i \notin DOMAIN HLinkSyncs /\ HLinkSyncs'[i].busy
      BY <1>4, <1>11, <2>2, <3>2 DEF Put
    <3>4. \A d \in Lines : FInfoOf[d] # NoFInfo /\ d \in scene.wanted
             /\ pc'[d] \notin {"unread", "start"} => FInfoOf[d] \in DOMAIN HLinkSyncs'
      BY <1>1, <1>2, <1>6, <3>3 DEF Syncs
    <3>5. ASSUME NEW j \in DOMAIN HLinkSyncs PROVE \E d \in Lines \ Dirs : FirstOf(d, j)'
      <4>1. PICK d \in Lines \ Dirs : FirstOf(d, j)
        BY <1>1 DEF Syncs
      <4>2. d # e
        BY <1>3, <4>1 DEF FirstOf, Makes, Writes
      <4>3. j = i => to = "sync"
        BY <1>4, <3>3
      <4>4. pc'[e] = "done" \/ pc'[e] \in Makes => j # i
        BY <1>4, <1>6, <4>3 DEF Makes, Writes
      <4>5. FirstOf(d, j)'
        BY <1>2, <1>3, <1>6, <3>1, <3>3, <4>1, <4>2, <4>4 DEF FirstOf
      <4> QED
        BY <3>1, <4>5
    <3>6. ASSUME to = "make" PROVE e \in Lines \ Dirs /\ FirstOf(e, i)'
      <4>1. \A d \in Lines : FInfoOf[d] = i /\ d # e =>
               pc'[d] \notin Makes /\ (pc'[d] = "done" => d \notin scene.wanted)
        <5> TAKE d \in Lines
        <5> HAVE FInfoOf[d] = i /\ d # e
        <5>1. pc'[d] = pc[d] /\ i \notin DOMAIN HLinkSyncs
          BY <1>6, <3>3, <3>6
        <5>2. CASE d \in scene.wanted
          BY <1>1, <2>2, <5>1, <5>2 DEF Syncs, Makes, Writes
        <5>3. CASE d \notin scene.wanted
          BY <1>1, <5>1, <5>3 DEF Jobs, Makes, Writes
        <5> QED
          BY <5>2, <5>3
      <4>2. "make" \in Makes /\ "done" # "make"
        BY DEF Makes
      <4> QED
        BY <1>2, <1>3, <1>6, <1>8, <1>9, <2>2, <3>1, <3>3, <3>6, <4>1, <4>2 DEF FirstOf
    <3>7. \A j \in DOMAIN HLinkSyncs' : j # NoFInfo /\ \E d \in Lines \ Dirs : FirstOf(d, j)'
      <4> TAKE j \in DOMAIN HLinkSyncs'
      <4>1. CASE j \in DOMAIN HLinkSyncs
        BY <1>1, <3>5, <4>1 DEF Syncs
      <4>2. CASE j \notin DOMAIN HLinkSyncs
        <5>1. j = i /\ to = "make"
          BY <1>4, <3>3, <4>2
        <5> QED
          BY <2>2, <3>6, <5>1
      <4> QED
        BY <4>1, <4>2
    <3> QED
      BY <1>3, <3>1, <3>3, <3>4, <3>7 DEF Syncs
  <2> QED
    BY <2>1, <2>2
<1>13. to = "sync" => FInfoOf[e] # NoFInfo
  BY <1>2, <1>4
<1>14. DirAttribs' \subseteq Dirs /\ to \notin {"post", "done", "loop", "attrs"}
  BY <1>1, <1>3, <1>4 DEF Typed
<1>15. e \in Dirs => to \in {"unread", "start", "make", "post", "done"}
  BY <1>4, <1>9
<1> QED
  BY <1>3, <1>4, <1>5, <1>7, <1>8, <1>10, <1>12, <1>13, <1>14, <1>15, JobInv

\* A job that waited links to the file of the first of its info block, which is
\* there and whole.
LEMMA HardLinkStep ==
    ASSUME Inv, IsArchive(scene), NEW e \in Lines, MakeHardLink(e)
    PROVE  Inv'
<1>1. /\ Typed /\ Jobs /\ Made /\ Syncs /\ Deferred /\ Rooted /\ scene \in Scenes
      /\ pc \in [Lines -> Places] /\ pc[e] = "sync"
  BY DEF Inv, Typed, MakeHardLink, At
<1>2. PICK i, p : i = FInfoOf[e] /\ i = List[e].finfo /\ p = NameOf[e] /\ p = Name(e)
  BY <1>1, SceneFacts
<1>3. e \in scene.wanted /\ main = "read" /\ i # NoFInfo /\ e \notin Dirs /\ e \notin DirAttribs
  BY <1>1, <1>2, BusyJob, SceneFacts DEF Jobs, Typed
<1>4. i \in DOMAIN HLinkSyncs /\ ~HLinkSyncs[i].busy /\ p \notin DOMAIN node
  BY <1>1, <1>2, <1>3 DEF Syncs, Made, Before, MakeHardLink
<1>5. PICK target : target = HLinkSyncs[i].name
  OBVIOUS
<1>6. \A d \in Lines \ Dirs : FirstOf(d, i) =>
         /\ pc[d] = "done" /\ target = NameOf[d] /\ node[target].owner = d
         /\ target \in DOMAIN node /\ node[target].mtime = "archived"
  BY <1>1, <1>4, <1>5 DEF FirstOf, Made
<1>7. PICK d \in Lines \ Dirs : FirstOf(d, i)
  BY <1>1, <1>4 DEF Syncs
<1>8. PICK new \in NodeRec : new = node[target] /\ ~new.closed /\ new.mtime = "archived"
  BY <1>1, <1>3, <1>6, <1>7 DEF Typed, Deferred
<1>9. /\ scene' = scene /\ chunk' = chunk /\ lock' = lock /\ helpers' = helpers
      /\ content' = content /\ DirAttribs' = DirAttribs /\ HLinkSyncs' = HLinkSyncs
      /\ main' = main /\ failed' = failed /\ Goto(e, "done")
      /\ node' = With(p, new)
  BY <1>2, <1>4, <1>5, <1>6, <1>7, <1>8 DEF MakeHardLink
<1>10. "done" \in Places /\ pc[e] \in Before /\ "done" \notin Before /\ "done" \notin Writes
  BY <1>1 DEF Places, Before, Writes
<1>11. pc'[e] = "done" /\ \A c \in Lines : c # e => pc'[c] = pc[c]
  BY <1>1, <1>9, <1>10, GotoFacts
<1>12. JobTree(e) /\ p \in DOMAIN node' /\ node'[p] = new
  BY <1>1, <1>2, <1>4, <1>8, <1>9, WithTree
<1>13. Made'
  BY <1>1, <1>2, <1>3, <1>8, <1>9, <1>10, <1>11, <1>12, MoveMade
<1>14. Syncs'
  <2>1. /\ Lines' = Lines /\ Dirs' = Dirs /\ NameOf' = NameOf /\ FInfoOf' = FInfoOf
    BY <1>9, SceneStays
  <2>2. \A c \in Lines : FInfoOf[c] # NoFInfo /\ c \in scene.wanted
           /\ pc'[c] \notin {"unread", "start"} => FInfoOf[c] \in DOMAIN HLinkSyncs
    BY <1>1, <1>2, <1>4, <1>11 DEF Syncs
  <2>3. \A q \in DOMAIN node : node'[q].owner = node[q].owner
    BY <1>12 DEF JobTree
  <2>4. \A c \in Lines \ Dirs : pc[c] = "done" /\ c \in scene.wanted => NameOf[c] \in DOMAIN node
    BY <1>1 DEF Made
  <2>5. ASSUME NEW j \in DOMAIN HLinkSyncs
        PROVE  j # NoFInfo /\ \E c \in Lines \ Dirs : FirstOf(c, j)'
    <3>1. PICK c \in Lines \ Dirs : FirstOf(c, j)
      BY <1>1 DEF Syncs
    <3>2. j # NoFInfo
      BY <1>1 DEF Syncs
    <3>3. c # e /\ pc'[c] = pc[c] /\ c \in scene.wanted /\ FInfoOf[c] = j
      BY <1>1, <1>11, <3>1 DEF FirstOf, Makes, Writes
    <3>4. pc[c] = "done" => HLinkSyncs[j].name = NameOf[c] /\ node'[NameOf[c]].owner = c
      BY <2>3, <2>4, <3>1, <3>3 DEF FirstOf
    <3>5. ASSUME NEW x \in Lines, x # c, FInfoOf[x] = j
          PROVE  /\ pc'[x] \notin Makes
                 /\ pc'[x] = "done" /\ x \in scene.wanted =>
                       pc'[c] = "done" /\ node'[NameOf[x]].owner = c
      <4>1. CASE x = e
        <5>1. j = i /\ pc[c] = "done" /\ node[target].owner = c
          BY <1>2, <1>6, <3>1, <3>5, <4>1
        <5> QED
          BY <1>2, <1>8, <1>10, <1>11, <1>12, <3>3, <4>1, <5>1 DEF Makes
      <4>2. CASE x # e
        <5>1. x \notin Dirs
          BY <1>1, <3>2, <3>5, SceneFacts
        <5> QED
          BY <1>11, <2>3, <2>4, <3>1, <3>3, <3>5, <4>2, <5>1 DEF FirstOf
      <4> QED
        BY <4>1, <4>2
    <3>6. FirstOf(c, j)'
      BY <1>9, <2>1, <3>1, <3>3, <3>4, <3>5 DEF FirstOf
    <3> QED
      BY <3>2, <3>6
  <2> QED
    BY <1>9, <2>1, <2>2, <2>5 DEF Syncs
<1>15. HLinkSyncs' \in [DOMAIN HLinkSyncs' -> SyncRec] /\ DirAttribs' \subseteq Dirs
  BY <1>1, <1>9 DEF Typed
<1> QED
  BY <1>3, <1>9, <1>10, <1>12, <1>13, <1>14, <1>15, JobInv

\* A job makes a directory, or finds it there.
LEMMA MakeDirStep ==
    ASSUME Inv, IsArchive(scene), NEW e \in Lines, MakeDir(e)
    PROVE  Inv'
<1>1. /\ Typed /\ Jobs /\ Made /\ Syncs /\ Deferred /\ Rooted /\ scene \in Scenes
      /\ pc \in [Lines -> Places] /\ pc[e] = "make"
  BY DEF Inv, Typed, MakeDir, At
<1>2. PICK p : p = NameOf[e] /\ p = Name(e)
  BY <1>1, SceneFacts
<1>3. /\ scene' = scene /\ chunk' = chunk /\ lock' = lock /\ helpers' = helpers
      /\ content' = content /\ HLinkSyncs' = HLinkSyncs /\ DirAttribs' = DirAttribs \cup {e}
      /\ main' = main /\ failed' = failed /\ Goto(e, "post") /\ node' = WithDir(p)
  BY <1>2 DEF MakeDir
<1>4. e \in Dirs /\ FInfoOf[e] = NoFInfo /\ e \notin RegFiles
  <2>1. e \in Dirs
    BY DEF MakeDir, Dirs
  <2> QED
    BY <1>1, <2>1, SceneFacts
<1>5. e \in scene.wanted /\ main = "read"
  BY <1>1, BusyJob
<1>6. "post" \in Places /\ pc[e] \in Before
  BY <1>1 DEF Places, Before, Writes
<1>7. pc'[e] = "post" /\ \A c \in Lines : c # e => pc'[c] = pc[c]
  BY <1>1, <1>3, <1>6, GotoFacts
<1>8. JobTree(e) /\ p \in DOMAIN node' /\ node'[p].owner = 0
  <2>1. CASE p \in DOMAIN node
    <3>1. node' = node
      BY <1>3, <2>1 DEF WithDir
    <3> QED
      BY <1>1, <1>2, <1>4, <2>1, <3>1, SameTree DEF Made
  <2>2. CASE p \notin DOMAIN node
    <3>1. NewDir \in NodeRec /\ ~NewDir.closed /\ NewDir.owner = 0
      BY DEF NewDir, Node, NodeRec
    <3>2. node' = With(p, NewDir)
      BY <1>3, <2>2 DEF WithDir
    <3> QED
      BY <1>1, <1>2, <2>2, <3>1, <3>2, WithTree
  <2> QED
    BY <2>1, <2>2
<1>9. Made'
  BY <1>1, <1>2, <1>3, <1>4, <1>7, <1>8, MoveMade
<1>10. Syncs'
  BY <1>1, <1>3, <1>4, <1>7, <1>8, MoveSyncs
<1>11. /\ HLinkSyncs' \in [DOMAIN HLinkSyncs' -> SyncRec] /\ DirAttribs' \subseteq Dirs
       /\ DirAttribs \subseteq DirAttribs' /\ e \in DirAttribs'
       /\ DirAttribs' \subseteq DirAttribs \cup {e}
  BY <1>1, <1>3, <1>4 DEF Typed
<1> QED
  BY <1>3, <1>4, <1>5, <1>6, <1>8, <1>9, <1>10, <1>11, JobInv

\* A job makes its file, or what else is no directory: the name is not there.
LEMMA MakeFileStep ==
    ASSUME Inv, IsArchive(scene), NEW e \in Lines, MakeOther(e) \/ OpenFile(e)
    PROVE  Inv'
<1>1. /\ Typed /\ Jobs /\ Made /\ Syncs /\ Deferred /\ Rooted /\ scene \in Scenes
      /\ pc \in [Lines -> Places] /\ pc[e] = "make"
  BY DEF Inv, Typed, MakeOther, OpenFile, At
<1>2. PICK p : p = NameOf[e] /\ p = Name(e)
  BY <1>1, SceneFacts
<1>3. e \notin Dirs /\ p \notin DOMAIN node
  <2>1. e \notin Dirs
    BY DEF MakeOther, OpenFile, Dirs, Is
  <2> QED
    BY <1>1, <1>2, <2>1 DEF Made, Before
<1>4. PICK new \in NodeRec : new = Node(e, "now", FALSE) /\ ~new.closed /\ new.owner = e
  <2>1. LET n == Node(e, "now", FALSE) IN n \in NodeRec /\ ~n.closed /\ n.owner = e
    BY DEF Node, NodeRec
  <2> QED
    BY <2>1
<1>5. PICK to \in {"attrs", "loop"} :
         Goto(e, to) /\ (to = "attrs" => e \notin RegFiles) /\ (to = "loop" => e \in RegFiles)
  <2>1. CASE MakeOther(e)
    BY <1>2, <1>3, <2>1 DEF MakeOther, RegFiles, Is
  <2>2. CASE OpenFile(e)
    BY <2>2 DEF OpenFile, RegFiles
  <2> QED
    BY <2>1, <2>2
<1>6. /\ scene' = scene /\ chunk' = chunk /\ lock' = lock /\ helpers' = helpers
      /\ content' = content /\ HLinkSyncs' = HLinkSyncs /\ DirAttribs' = DirAttribs
      /\ main' = main /\ failed' = failed /\ node' = With(p, new)
  BY <1>2, <1>3, <1>4 DEF MakeOther, OpenFile
<1>7. e \in scene.wanted /\ main = "read" /\ e \notin DirAttribs
  BY <1>1, <1>3, BusyJob DEF Typed
<1>8. to \in Places /\ pc[e] \in Before /\ to \in Writes /\ to \notin Before
  BY <1>1, <1>5 DEF Places, Before, Writes
<1>9. pc'[e] = to /\ \A c \in Lines : c # e => pc'[c] = pc[c]
  BY <1>1, <1>5, <1>8, GotoFacts
<1>10. JobTree(e) /\ p \in DOMAIN node' /\ node'[p] = new
  BY <1>1, <1>2, <1>3, <1>4, <1>6, WithTree
<1>11. Made'
  BY <1>1, <1>2, <1>3, <1>4, <1>5, <1>6, <1>8, <1>9, <1>10, MoveMade
<1>12. Syncs'
  <2>1. pc[e] \in Makes /\ pc'[e] \in Makes
    BY <1>1, <1>8, <1>9 DEF Makes
  <2> QED
    BY <1>1, <1>6, <1>9, <1>10, <2>1, MoveSyncs
<1>13. HLinkSyncs' \in [DOMAIN HLinkSyncs' -> SyncRec] /\ DirAttribs' \subseteq Dirs
  BY <1>1, <1>6 DEF Typed
<1> QED
  BY <1>3, <1>5, <1>6, <1>7, <1>8, <1>10, <1>11, <1>12, <1>13, JobInv

\* What is no directory gets its times.
LEMMA AttributesStep ==
    ASSUME Inv, IsArchive(scene), NEW e \in Lines, SetAttributes(e)
    PROVE  Inv'
<1>1. /\ Typed /\ Jobs /\ Made /\ Syncs /\ Deferred /\ Rooted /\ scene \in Scenes
      /\ pc \in [Lines -> Places] /\ pc[e] = "attrs"
  BY DEF Inv, Typed, SetAttributes, At
<1>2. PICK p : p = NameOf[e] /\ p = Name(e)
  BY <1>1, SceneFacts
<1>3. e \notin Dirs /\ e \in scene.wanted /\ main = "read" /\ e \notin DirAttribs
  BY <1>1, BusyJob DEF Jobs, Typed
<1>4. pc[e] \in Writes /\ "post" \in Writes /\ "post" \in Places /\ "post" \notin Before
  BY <1>1 DEF Writes, Places, Before
<1>5. p \in DOMAIN node /\ node[p].owner = e
  BY <1>1, <1>2, <1>3, <1>4 DEF Made
<1>6. PICK old \in NodeRec : old = node[p]
  BY <1>1, <1>5 DEF Typed
<1>7. PICK new \in NodeRec : /\ new = [old EXCEPT !.mtime = "archived"] /\ new.mtime = "archived"
                             /\ new.owner = old.owner /\ new.closed = old.closed
  <2>1. LET n == [old EXCEPT !.mtime = "archived"]
        IN  n \in NodeRec /\ n.mtime = "archived" /\ n.owner = old.owner /\ n.closed = old.closed
    BY DEF NodeRec
  <2> QED
    BY <2>1
<1>8. /\ scene' = scene /\ chunk' = chunk /\ lock' = lock /\ helpers' = helpers
      /\ content' = content /\ HLinkSyncs' = HLinkSyncs /\ DirAttribs' = DirAttribs
      /\ main' = main /\ failed' = failed /\ Goto(e, "post")
      /\ node' = [node EXCEPT ![p] = new]
  BY <1>2, <1>6, <1>7 DEF SetAttributes
<1>9. pc'[e] = "post" /\ \A c \in Lines : c # e => pc'[c] = pc[c]
  BY <1>1, <1>4, <1>8, GotoFacts
<1>10. /\ DOMAIN node' = DOMAIN node /\ node' \in [DOMAIN node -> NodeRec] /\ node'[p] = new
       /\ \A q \in DOMAIN node : q # p => node'[q] = node[q]
  BY <1>1, <1>5, <1>8 DEF Typed
<1>11. JobTree(e)
  <2>1. \A d \in Lines : d # e => NameOf[d] # p
    BY <1>1, <1>2, NamesApart
  <2>2. Rooted'
    BY <1>1, <1>10 DEF Rooted
  <2>3. \A q \in DOMAIN node : /\ node'[q].owner = node[q].owner
                               /\ node'[q].closed => node[q].closed
    BY <1>6, <1>7, <1>10
  <2> QED
    BY <1>1, <1>10, <2>1, <2>2, <2>3 DEF JobTree, Typed
<1>12. Made'
  BY <1>1, <1>2, <1>3, <1>4, <1>5, <1>6, <1>7, <1>8, <1>9, <1>10, <1>11, MoveMade
<1>13. Syncs'
  BY <1>1, <1>4, <1>8, <1>9, <1>11, MoveSyncs DEF Makes
<1>14. HLinkSyncs' \in [DOMAIN HLinkSyncs' -> SyncRec] /\ DirAttribs' \subseteq Dirs
  BY <1>1, <1>8 DEF Typed
<1> QED
  BY <1>1, <1>3, <1>4, <1>8, <1>11, <1>12, <1>13, <1>14, JobInv

\* A job is through, and the first of an info block lets the others go on.
LEMMA PostStep ==
    ASSUME Inv, IsArchive(scene), NEW e \in Lines, Post(e)
    PROVE  Inv'
<1>1. /\ Typed /\ Jobs /\ Made /\ Syncs /\ Deferred /\ Rooted /\ scene \in Scenes
      /\ pc \in [Lines -> Places] /\ pc[e] = "post"
  BY DEF Inv, Typed, Post, At
<1>2. PICK i, p : i = FInfoOf[e] /\ i = List[e].finfo /\ p = NameOf[e] /\ p = Name(e)
  BY <1>1, SceneFacts
<1>3. e \in scene.wanted /\ main = "read" /\ (e \in Dirs => e \in DirAttribs)
  BY <1>1, BusyJob DEF Deferred
<1>4. pc[e] \in Writes /\ "done" \notin Writes /\ "done" \in Places /\ "done" \notin Before
  BY <1>1 DEF Writes, Places, Before
<1>5. /\ scene' = scene /\ chunk' = chunk /\ lock' = lock /\ helpers' = helpers
      /\ content' = content /\ node' = node /\ DirAttribs' = DirAttribs
      /\ main' = main /\ failed' = failed /\ Goto(e, "done")
      /\ HLinkSyncs' = IF i = NoFInfo THEN HLinkSyncs ELSE [HLinkSyncs EXCEPT ![i] = Sync(p, FALSE)]
  BY <1>2 DEF Post
<1>6. pc'[e] = "done" /\ \A c \in Lines : c # e => pc'[c] = pc[c]
  BY <1>1, <1>4, <1>5, GotoFacts
<1>7. JobTree(e)
  BY <1>1, <1>5, SameTree
<1>8. /\ e \notin Dirs => p \in DOMAIN node /\ node[p].owner = e /\ node[p].mtime = "archived"
      /\ e \in Dirs => p \in DOMAIN node /\ node[p].owner = 0
  BY <1>1, <1>2, <1>3, <1>4 DEF Made
<1>9. Made'
  BY <1>1, <1>2, <1>3, <1>4, <1>5, <1>6, <1>7, <1>8, MoveMade
<1>10. HLinkSyncs \in [DOMAIN HLinkSyncs -> SyncRec] /\ DirAttribs \subseteq Dirs
  BY <1>1 DEF Typed
<1>11. HLinkSyncs' \in [DOMAIN HLinkSyncs' -> SyncRec] /\ Syncs'
  <2>1. CASE i = NoFInfo
    BY <1>1, <1>2, <1>5, <1>6, <1>7, <1>10, <2>1, MoveSyncs
  <2>2. CASE i # NoFInfo
    <3>1. /\ Lines' = Lines /\ Dirs' = Dirs /\ NameOf' = NameOf /\ FInfoOf' = FInfoOf
      BY <1>5, SceneStays
    <3>2. e \notin Dirs /\ i \in DOMAIN HLinkSyncs
      BY <1>1, <1>2, <1>3, <2>2, SceneFacts DEF Syncs
    <3>3. PICK new \in SyncRec : new = Sync(p, FALSE) /\ ~new.busy /\ new.name = p
      <4>1. p \in Path
        BY <1>1, <1>2, SceneFacts
      <4>2. Sync(p, FALSE) \in SyncRec /\ ~Sync(p, FALSE).busy /\ Sync(p, FALSE).name = p
        BY <4>1 DEF Sync, SyncRec
      <4> QED
        BY <4>2
    <3>4. /\ DOMAIN HLinkSyncs' = DOMAIN HLinkSyncs
          /\ HLinkSyncs' \in [DOMAIN HLinkSyncs' -> SyncRec] /\ HLinkSyncs'[i] = new
          /\ \A j \in DOMAIN HLinkSyncs : j # i => HLinkSyncs'[j] = HLinkSyncs[j]
      BY <1>5, <1>10, <2>2, <3>2, <3>3
    <3>5. FirstOf(e, i)
      <4>1. PICK d \in Lines \ Dirs : FirstOf(d, i)
        BY <1>1, <3>2 DEF Syncs
      <4>2. d = e
        BY <1>2, <1>4, <4>1 DEF FirstOf, Makes
      <4> QED
        BY <4>1, <4>2
    <3>6. FirstOf(e, i)'
      <4>1. \A c \in Lines : c # e /\ FInfoOf[c] = i =>
               pc'[c] \notin Makes /\ (pc'[c] = "done" => c \notin scene.wanted)
        BY <1>1, <1>6, <3>5 DEF FirstOf
      <4> QED
        BY <1>2, <1>3, <1>5, <1>6, <1>8, <3>1, <3>2, <3>3, <3>4, <4>1 DEF FirstOf
    <3>7. ASSUME NEW j \in DOMAIN HLinkSyncs, j # i PROVE \E d \in Lines \ Dirs : FirstOf(d, j)'
      <4>1. PICK d \in Lines \ Dirs : FirstOf(d, j)
        BY <1>1 DEF Syncs
      <4>2. d # e
        BY <1>2, <3>7, <4>1 DEF FirstOf
      <4>3. FirstOf(d, j)'
        BY <1>2, <1>5, <1>6, <3>1, <3>4, <3>7, <4>1, <4>2 DEF FirstOf
      <4> QED
        BY <4>3
    <3>8. \A j \in DOMAIN HLinkSyncs' : j # NoFInfo /\ \E d \in Lines \ Dirs : FirstOf(d, j)'
      BY <1>1, <3>2, <3>4, <3>6, <3>7 DEF Syncs
    <3>9. \A c \in Lines : FInfoOf[c] # NoFInfo /\ c \in scene.wanted
             /\ pc'[c] \notin {"unread", "start"} => FInfoOf[c] \in DOMAIN HLinkSyncs'
      BY <1>1, <1>2, <1>6, <3>2, <3>4 DEF Syncs
    <3> QED
      BY <1>5, <3>1, <3>4, <3>8, <3>9 DEF Syncs
  <2> QED
    BY <2>1, <2>2
<1> QED
  BY <1>1, <1>3, <1>4, <1>5, <1>7, <1>9, <1>10, <1>11, JobInv

\* The jobs are through: the directories get their attributes.
LEMMA WaitIdleStep == ASSUME Inv, WaitIdle PROVE Inv'
<1>1. /\ Typed /\ Jobs /\ InOrder /\ Made /\ Syncs /\ Deferred /\ Rooted
      /\ main = "read" /\ \A e \in Lines : pc[e] = "done"
  BY DEF Inv, WaitIdle
<1>2. /\ scene' = scene /\ pc' = pc /\ chunk' = chunk /\ lock' = lock /\ helpers' = helpers
      /\ content' = content /\ HLinkSyncs' = HLinkSyncs /\ DirAttribs' = DirAttribs
      /\ node' = node /\ main' = "dirs" /\ failed' = failed
  BY DEF WaitIdle
<1>3. /\ Lines' = Lines /\ Dirs' = Dirs /\ RegFiles' = RegFiles /\ NameOf' = NameOf
      /\ Final' = Final /\ FInfoOf' = FInfoOf /\ NodeRec' = NodeRec /\ Dirs \subseteq Lines
  BY <1>2, SceneStays DEF Dirs
<1>4. Typed' /\ Jobs' /\ InOrder' /\ Rooted' /\ Made'
  BY <1>1, <1>2, <1>3 DEF Typed, Jobs, InOrder, Rooted, Made
<1>5. Syncs'
  <2>1. \A d, i : FirstOf(d, i) => FirstOf(d, i)'
    BY <1>2, <1>3 DEF FirstOf
  <2>2. \A i \in DOMAIN HLinkSyncs : i # NoFInfo /\ \E d \in Lines \ Dirs : FirstOf(d, i)'
    BY <1>1, <2>1 DEF Syncs
  <2> QED
    BY <1>1, <1>2, <1>3, <2>2 DEF Syncs
<1>6. Deferred'
  BY <1>1, <1>2, <1>3 DEF Deferred
<1> QED
  BY <1>2, <1>4, <1>5, <1>6 DEF Inv, NeverFails

\* The directories have their attributes.
LEMMA EndStep == ASSUME Inv, End PROVE Inv'
<1>1. /\ Typed /\ Jobs /\ InOrder /\ Made /\ Syncs /\ Deferred /\ Rooted
      /\ main = "dirs" /\ DirAttribs = {}
  BY DEF Inv, End
<1>2. /\ scene' = scene /\ pc' = pc /\ chunk' = chunk /\ lock' = lock /\ helpers' = helpers
      /\ content' = content /\ HLinkSyncs' = HLinkSyncs /\ DirAttribs' = DirAttribs
      /\ node' = node /\ main' = "end" /\ failed' = failed
  BY DEF End
<1>3. /\ Lines' = Lines /\ Dirs' = Dirs /\ RegFiles' = RegFiles /\ NameOf' = NameOf
      /\ Final' = Final /\ FInfoOf' = FInfoOf /\ NodeRec' = NodeRec
  BY <1>2, SceneStays
<1>4. Typed' /\ Jobs' /\ InOrder' /\ Rooted' /\ Made'
  BY <1>1, <1>2, <1>3 DEF Typed, Jobs, InOrder, Rooted, Made
<1>5. Syncs'
  <2>1. \A d, i : FirstOf(d, i) => FirstOf(d, i)'
    BY <1>2, <1>3 DEF FirstOf
  <2>2. \A i \in DOMAIN HLinkSyncs : i # NoFInfo /\ \E d \in Lines \ Dirs : FirstOf(d, i)'
    BY <1>1, <2>1 DEF Syncs
  <2> QED
    BY <1>1, <1>2, <1>3, <2>2 DEF Syncs
<1>6. Deferred'
  BY <1>1, <1>2, <1>3 DEF Deferred
<1> QED
  BY <1>2, <1>4, <1>5, <1>6 DEF Inv, NeverFails

\* A directory gets its attributes, after all that lie in it: no directory above
\* it is closed yet.
LEMMA DirAttributesStep ==
    ASSUME Inv, IsArchive(scene), NEW e \in Lines, SetDirAttributes(e)
    PROVE  Inv'
<1>1. /\ Typed /\ Jobs /\ InOrder /\ Made /\ Syncs /\ Deferred /\ Rooted /\ scene \in Scenes
      /\ main = "dirs" /\ ComesFirst(e) /\ e \in DirAttribs
  BY DEF Inv, Typed, SetDirAttributes, ComesFirst
<1>2. PICK p \in Path : p = NameOf[e] /\ p = Name(e) /\ p # <<>>
  BY <1>1, SceneFacts
<1>3. e \in Dirs /\ pc[e] \in {"post", "done"} /\ e \in scene.wanted /\ p \in DOMAIN node
  <2>1. e \in Dirs /\ pc[e] \in {"post", "done"} /\ e \in scene.wanted
    BY <1>1 DEF Typed, Deferred
  <2> QED
    BY <1>1, <1>2, <2>1 DEF Made
<1>4. \A d \in DirAttribs : ~IsStrictPrefix(NameOf[e], NameOf[d])
  BY <1>1, SceneFacts DEF ComesFirst, Typed
<1>5. ASSUME NEW q \in Prefixes(Front(p)), node[q].closed PROVE FALSE
  <2>1. /\ Front(p) \in Path /\ IsPrefix(Front(p), p) /\ p \notin Prefixes(Front(p))
    BY <1>2, FrontFacts, AboveFacts
  <2>2. q \in DOMAIN node
    BY <1>2, <1>3 DEF Inv, Rooted
  <2>3. PICK d \in Dirs \ DirAttribs : d \in scene.wanted /\ q = NameOf[d]
    BY <1>1, <1>5, <2>2 DEF Deferred
  <2>4. q \in Path /\ IsPrefix(q, Front(p))
    BY <2>1, PrefixesFacts
  <2>5. IsStrictPrefix(q, p)
    BY <1>2, <2>1, <2>4, PrefixOrder DEF IsStrictPrefix
  <2> QED
    BY <1>1, <1>2, <2>3, <2>5 DEF Deferred
<1>6. PICK old \in NodeRec : old = node[p]
  BY <1>1, <1>3 DEF Typed
<1>7. PICK shut \in BOOLEAN : shut = List[e].closed
  <2>1. scene.list \in Seq(Entries) /\ e \in DOMAIN scene.list
    BY <1>1, ScenesAssumption DEF IsScene, Lines
  <2>2. List[e] \in Entries
    <3>1. Len(scene.list) \in Nat /\ e \in 1..Len(scene.list)
      BY <2>1, LenProperties
    <3> QED
      BY <2>1, <3>1, ElementOfSeq DEF List
  <2> QED
    BY <2>2 DEF Entries
<1>8. PICK new \in NodeRec : /\ new = [old EXCEPT !.mtime = "archived", !.closed = shut]
                             /\ new.mtime = "archived" /\ new.owner = old.owner
  <2>1. LET n == [old EXCEPT !.mtime = "archived", !.closed = shut]
        IN  n \in NodeRec /\ n.mtime = "archived" /\ n.owner = old.owner
    BY DEF NodeRec
  <2> QED
    BY <2>1
<1>9. /\ scene' = scene /\ pc' = pc /\ chunk' = chunk /\ lock' = lock /\ helpers' = helpers
      /\ content' = content /\ HLinkSyncs' = HLinkSyncs /\ DirAttribs' = DirAttribs \ {e}
      /\ main' = main /\ failed' = failed /\ node' = [node EXCEPT ![p] = new]
  BY <1>2, <1>5, <1>6, <1>7, <1>8 DEF SetDirAttributes
<1>10. /\ DOMAIN node' = DOMAIN node /\ node' \in [DOMAIN node -> NodeRec] /\ node'[p] = new
       /\ \A q \in DOMAIN node : node'[q].owner = node[q].owner
       /\ \A q \in DOMAIN node : q # p => node'[q] = node[q]
  BY <1>1, <1>3, <1>6, <1>8, <1>9 DEF Typed
<1>11. /\ Lines' = Lines /\ Dirs' = Dirs /\ RegFiles' = RegFiles /\ NameOf' = NameOf
       /\ Final' = Final /\ FInfoOf' = FInfoOf /\ NodeRec' = NodeRec /\ Dirs \subseteq Lines
  BY <1>9, SceneStays DEF Dirs
<1>12. \A d \in Lines : d # e => NameOf[d] # p
  BY <1>1, <1>2, NamesApart
<1>13. Typed' /\ Jobs' /\ InOrder' /\ Rooted'
  BY <1>1, <1>9, <1>10, <1>11 DEF Typed, Jobs, InOrder, Rooted
<1>14. Made'
  <2>1. \A d \in Lines \ Dirs : NameOf[d] \in DOMAIN node => node'[NameOf[d]] = node[NameOf[d]]
    BY <1>3, <1>10, <1>12
  <2> QED
    BY <1>1, <1>9, <1>10, <1>11, <2>1 DEF Made
<1>15. Syncs'
  <2>1. \A c \in Lines \ Dirs : pc[c] = "done" /\ c \in scene.wanted => NameOf[c] \in DOMAIN node
    BY <1>1 DEF Made
  <2>2. \A c \in Dirs : FInfoOf[c] = NoFInfo
    BY <1>1, SceneFacts
  <2>3. ASSUME NEW i \in DOMAIN HLinkSyncs, NEW d \in Lines \ Dirs, FirstOf(d, i), i # NoFInfo
        PROVE  FirstOf(d, i)'
    BY <1>9, <1>10, <1>11, <2>1, <2>2, <2>3 DEF FirstOf
  <2>4. \A i \in DOMAIN HLinkSyncs : i # NoFInfo /\ \E d \in Lines \ Dirs : FirstOf(d, i)'
    BY <1>1, <2>3 DEF Syncs
  <2> QED
    BY <1>1, <1>9, <1>11, <2>4 DEF Syncs
<1>16. Deferred'
  <2>1. ASSUME NEW q \in DOMAIN node, node'[q].closed
        PROVE  \E d \in Dirs \ DirAttribs' : d \in scene.wanted /\ q = NameOf[d]
    <3>1. CASE q = p
      BY <1>2, <1>3, <1>9, <3>1
    <3>2. CASE q # p
      BY <1>1, <1>9, <1>10, <2>1, <3>2 DEF Deferred
    <3> QED
      BY <3>1, <3>2
  <2>2. ASSUME NEW d \in Dirs \ DirAttribs', d \in scene.wanted
        PROVE  /\ node'[NameOf[d]].mtime = "archived"
               /\ \A c \in DirAttribs' : ~IsStrictPrefix(NameOf[d], NameOf[c])
    <3>1. CASE d = e
      BY <1>2, <1>4, <1>8, <1>9, <1>10, <3>1
    <3>2. CASE d # e
      <4>1. d \notin DirAttribs /\ NameOf[d] # p /\ d \in Lines
        BY <1>9, <1>11, <1>12, <2>2, <3>2
      <4>2. NameOf[d] \in DOMAIN node
        BY <1>1, <2>2, <4>1 DEF Jobs, Made
      <4> QED
        BY <1>1, <1>9, <1>10, <2>2, <4>1, <4>2 DEF Deferred
    <3> QED
      BY <3>1, <3>2
  <2>3. /\ DirAttribs' \subseteq scene.wanted
        /\ \A c \in DirAttribs' : pc[c] \in {"post", "done"}
    BY <1>1, <1>9 DEF Deferred
  <2> QED
    BY <1>1, <1>9, <1>10, <1>11, <2>1, <2>2, <2>3 DEF Deferred
<1> QED
  BY <1>9, <1>13, <1>14, <1>15, <1>16 DEF Inv, NeverFails

\* A step that changes nothing keeps the invariant.
LEMMA StutterInv == ASSUME Inv, UNCHANGED vars PROVE Inv'
<1>1. /\ scene' = scene /\ pc' = pc /\ chunk' = chunk /\ lock' = lock /\ helpers' = helpers
      /\ content' = content /\ HLinkSyncs' = HLinkSyncs /\ DirAttribs' = DirAttribs
      /\ node' = node /\ main' = main /\ failed' = failed
  BY DEF vars
<1>2. /\ Lines' = Lines /\ Dirs' = Dirs /\ RegFiles' = RegFiles /\ NameOf' = NameOf
      /\ Final' = Final /\ FInfoOf' = FInfoOf /\ NodeRec' = NodeRec
  BY <1>1, SceneStays
<1>3. Typed' /\ Jobs' /\ InOrder' /\ Rooted' /\ Made' /\ Deferred'
  BY <1>1, <1>2 DEF Inv, Typed, Jobs, InOrder, Rooted, Made, Deferred
<1>4. Syncs'
  <2>1. \A d, i : FirstOf(d, i) => FirstOf(d, i)'
    BY <1>1, <1>2 DEF FirstOf
  <2>2. \A i \in DOMAIN HLinkSyncs : i # NoFInfo /\ \E d \in Lines \ Dirs : FirstOf(d, i)'
    BY <2>1 DEF Inv, Syncs
  <2> QED
    BY <1>1, <1>2, <2>2 DEF Inv, Syncs
<1> QED
  BY <1>1, <1>3, <1>4 DEF Inv, NeverFails

\* Every step keeps the invariant.
LEMMA NextInv == ASSUME Inv, IsArchive(scene), [Next]_vars PROVE Inv'
<1>1. CASE UNCHANGED vars
  BY <1>1, StutterInv
<1>2. ASSUME NEW e \in Lines, Read(e) PROVE Inv'
  BY <1>2, ReadStep
<1>3. ASSUME NEW e \in Lines, SetDirAttributes(e) PROVE Inv'
  BY <1>3, DirAttributesStep
<1>4. CASE WaitIdle
  BY <1>4, WaitIdleStep
<1>5. CASE End
  BY <1>5, EndStep
<1>6. ASSUME NEW e \in Lines, JobStep(e) PROVE Inv'
  <2>1. CASE Register(e)
    BY <2>1, RegisterStep
  <2>2. CASE MakeHardLink(e)
    BY <2>2, HardLinkStep
  <2>3. CASE MakeDir(e)
    BY <2>3, MakeDirStep
  <2>4. CASE MakeOther(e) \/ OpenFile(e)
    BY <2>4, MakeFileStep
  <2>5. CASE StartChunk(e) \/ NextChunk(e) \/ EndLoop(e) \/ DeleteLock(e) \/ CloseFile(e)
    BY <2>5, LoopSteps
  <2>6. CASE SetAttributes(e)
    BY <2>6, AttributesStep
  <2>7. CASE Post(e)
    BY <2>7, PostStep
  <2> QED
    BY <1>6, <2>1, <2>2, <2>3, <2>4, <2>5, <2>6, <2>7 DEF JobStep
<1>7. ASSUME NEW e \in Lines, NEW k \in Chunks(e), ChunkStep(e, k) PROVE Inv'
  BY <1>7, ChunkSteps DEF ChunkStep
<1> QED
  BY <1>1, <1>2, <1>3, <1>4, <1>5, <1>6, <1>7 DEF Next, Main

\* The inductive invariant of the jobs, their chunks, the tree, the info blocks
\* and the directories that wait.
THEOREM Invariant ==
    ASSUME \A s \in Scenes : IsArchive(s)
    PROVE  Spec => []Inv
<1>1. Init => Inv
  BY InitInv
<1>2. Inv /\ [Next]_vars => Inv'
  BY NextInv DEF Inv, Typed
<1> QED
  BY <1>1, <1>2, PTL DEF Spec

-----------------------------------------------------------------------------
(* What follows from the invariant. *)

\* A sequence that counts up is a prefix of the numbers.
LEMMA CountsUp ==
    ASSUME NEW n \in Nat, NEW s \in Seq(Nat), Len(s) <= n, \A k \in 1..Len(s) : s[k] = k
    PROVE  IsPrefix(s, UpTo(n)) /\ s \in Seq(1..n)
<1>1. PICK l \in Nat : l = Len(s)
  BY LenProperties
<1>2. PICK t : t = UpTo(n)
  OBVIOUS
<1>3. t \in [1..n -> Nat] /\ \A k \in 1..n : t[k] = k
  BY <1>2 DEF UpTo
<1>4. t \in Seq(Nat) /\ Len(t) = n
  <2>1. t \in Seq(Nat)
    BY <1>3, SeqDef
  <2>2. DOMAIN t = 1..n /\ Len(t) \in Nat /\ DOMAIN t = 1..Len(t)
    BY <1>3, <2>1, LenProperties
  <2> QED
    BY <2>1, <2>2
<1>5. /\ SubSeq(t, 1, l) \in Seq(Nat) /\ Len(SubSeq(t, 1, l)) = l
      /\ \A k \in 1..l : SubSeq(t, 1, l)[k] = t[k]
  <2>1. \A k \in 1..l : t[k] \in Nat
    BY <1>1, <1>3
  <2>2. SubSeq(t, 1, l) \in Seq(Nat) /\ Len(SubSeq(t, 1, l)) = l
    BY <2>1, SubSeqProperties
  <2>3. \A k \in 1..l : SubSeq(t, 1, l)[k] = t[k]
    BY <1>1, <1>3, <1>4, SubSeqProperties
  <2> QED
    BY <2>2, <2>3
<1>6. SubSeq(t, 1, l) = s
  <2>1. \A k \in 1..l : SubSeq(t, 1, l)[k] = s[k]
    BY <1>1, <1>3, <1>5
  <2> QED
    BY <1>1, <1>5, <2>1, SeqEqual
<1>7. SubSeq(s, 1, l) = s
  BY <1>1, SubSeqFull
<1>8. s \in Seq(1..n)
  <2>1. DOMAIN s = 1..l /\ s \in [1..l -> Nat]
    BY <1>1, LenProperties
  <2>2. s \in [1..l -> 1..n]
    BY <1>1, <2>1
  <2> QED
    BY <2>2, SeqDef
<1> QED
  BY <1>1, <1>2, <1>4, <1>6, <1>7, <1>8 DEF IsPrefix

\* What the invariant says of one line.
LEMMA LineFacts ==
    ASSUME Inv, NEW e \in Lines
    PROVE  /\ Final[e] \in Nat /\ List[e].chunks = Final[e] /\ Chunks(e) = 1..Final[e]
           /\ pc[e] \in Places
           /\ ChunksOk(Final[e], pc[e], content[e], chunk[e], lock[e], helpers[e])
BY SceneFacts DEF Inv, Typed, InOrder

\* The variables have their types.
THEOREM TypeCorrect ==
    ASSUME \A s \in Scenes : IsArchive(s)
    PROVE  Spec => []TypeOK
<1>1. Inv => TypeOK
  <2> SUFFICES ASSUME Inv PROVE TypeOK
    OBVIOUS
  <2>1. ASSUME NEW e \in Lines
        PROVE  /\ content[e] \in Seq(Chunks(e))
               /\ chunk[e] \in 1..List[e].chunks + 1
               /\ lock[e] \in [Chunks(e) -> {"none", "busy", "idle", "deleted"}]
               /\ DOMAIN helpers[e] \subseteq Chunks(e)
    <3>1. PICK n \in Nat : n = Final[e]
      BY LineFacts
    <3>2. /\ List[e].chunks = n /\ Chunks(e) = 1..n
          /\ ChunksOk(n, pc[e], content[e], chunk[e], lock[e], helpers[e])
      BY <3>1, LineFacts
    <3>3. content[e] \in Seq(1..n)
      BY <3>2, CountsUp DEF ChunksOk
    <3> QED
      BY <3>2, <3>3 DEF ChunksOk, Locks
  <2>2. \A p \in DOMAIN node : node[p].owner \in Lines \cup {0}
    BY DEF Inv, Typed, NodeRec
  <2>3. DirAttribs \subseteq {e \in Lines : Is(e, "dir")}
    BY DEF Inv, Typed, Dirs
  <2> QED
    BY <2>1, <2>2, <2>3 DEF TypeOK
<1>2. Spec => []Inv
  BY Invariant
<1> QED
  BY <1>1, <1>2, PTL

\* The chunks of a file are written in their order, whatever the number of helpers
\* and the order they get to it, and a file that is closed has them all
\* (LiveFile.cpp:47-69 and 105-145).
THEOREM ChunksInOrder ==
    ASSUME \A s \in Scenes : IsArchive(s)
    PROVE  Spec => []WrittenInOrder
<1>1. Inv => WrittenInOrder
  <2> SUFFICES ASSUME Inv, NEW e \in Lines
               PROVE  /\ IsPrefix(content[e], UpTo(List[e].chunks))
                      /\ Is(e, "file") /\ pc[e] \in {"attrs", "post"} =>
                            Len(content[e]) = List[e].chunks
    BY DEF WrittenInOrder
  <2>1. PICK n \in Nat : n = Final[e] /\ List[e].chunks = n
    BY LineFacts
  <2>2. ChunksOk(n, pc[e], content[e], chunk[e], lock[e], helpers[e])
    BY <2>1, LineFacts
  <2>3. IsPrefix(content[e], UpTo(n))
    BY <2>2, CountsUp DEF ChunksOk
  <2> QED
    BY <2>1, <2>3 DEF Inv, InOrder, RegFiles
<1>2. Spec => []Inv
  BY Invariant
<1> QED
  BY <1>1, <1>2, PTL

\* No helper is to wait for a lock that its job has deleted (LiveFile.cpp:137-140).
THEOREM LocksOutlive ==
    ASSUME \A s \in Scenes : IsArchive(s)
    PROVE  Spec => []NoDeletedLock
<1>1. Inv => NoDeletedLock
  <2> SUFFICES ASSUME Inv, NEW e \in Lines, NEW k \in Chunks(e), Writing(e, k), k > 1
               PROVE  lock[e][k - 1] # "deleted"
    BY DEF NoDeletedLock
  <2>1. PICK n \in Nat : n = Final[e] /\ Chunks(e) = 1..n
    BY LineFacts
  <2>2. PICK at, locks, jobs : /\ at \in Places /\ at = pc[e]
                               /\ locks = lock[e] /\ jobs = helpers[e]
    BY LineFacts
  <2>3. ChunksOk(n, at, content[e], chunk[e], locks, jobs)
    BY <2>1, <2>2, LineFacts
  <2>4. k \in 1..n /\ k - 1 \in 1..n /\ k \in DOMAIN jobs /\ jobs[k] = "write"
    BY <2>1, <2>2 DEF Writing
  <2>5. locks[k] = "busy" /\ ~(k <= Len(content[e]))
    BY <2>3, <2>4 DEF ChunksOk
  <2>6. at \in {"loop", "inplace"}
    BY <2>2, <2>3, <2>4, <2>5 DEF ChunksOk, Places, Writes, Before
  <2> QED
    BY <2>2, <2>3, <2>4, <2>6 DEF ChunksOk
<1>2. Spec => []Inv
  BY Invariant
<1> QED
  BY <1>1, <1>2, PTL

\* Who made what a name is in the end.
LEMMA OwnerFacts ==
    ASSUME Inv, main = "end", NEW e \in scene.wanted
    PROVE  /\ e \in Lines /\ pc[e] = "done" /\ NameOf[e] \in DOMAIN node
           /\ node[NameOf[e]].mtime = "archived"
           /\ e \in Dirs => node[NameOf[e]].owner = 0
           /\ e \notin Dirs => node[NameOf[e]].owner \in Lines
           /\ e \notin Dirs /\ FInfoOf[e] = NoFInfo => node[NameOf[e]].owner = e
           /\ FInfoOf[e] # NoFInfo =>
                 /\ FInfoOf[node[NameOf[e]].owner] = FInfoOf[e] /\ e \notin Dirs
                 /\ \A d \in scene.wanted : FInfoOf[d] = FInfoOf[e] =>
                       node[NameOf[d]].owner = node[NameOf[e]].owner
<1>1. /\ Typed /\ Jobs /\ Made /\ Syncs /\ Deferred /\ scene \in Scenes
      /\ scene.wanted \subseteq Lines
  BY SceneFacts DEF Inv, Typed
<1>2. \A d \in scene.wanted : d \in Lines /\ pc[d] = "done"
  BY <1>1 DEF Jobs
<1>3. NameOf[e] \in DOMAIN node /\ node[NameOf[e]].mtime = "archived"
  BY <1>1, <1>2 DEF Made, Deferred
<1>4. e \in Dirs => node[NameOf[e]].owner = 0 /\ FInfoOf[e] = NoFInfo
  BY <1>1, <1>3, SceneFacts DEF Made
<1>5. e \notin Dirs /\ FInfoOf[e] = NoFInfo => node[NameOf[e]].owner = e
  BY <1>1, <1>2 DEF Made
<1>6. ASSUME FInfoOf[e] # NoFInfo
      PROVE  \E c \in Lines : /\ FInfoOf[c] = FInfoOf[e]
                              /\ \A d \in scene.wanted : FInfoOf[d] = FInfoOf[e] =>
                                    node[NameOf[d]].owner = c
  <2>1. FInfoOf[e] \in DOMAIN HLinkSyncs
    BY <1>1, <1>2, <1>6 DEF Syncs
  <2>2. PICK c \in Lines \ Dirs : FirstOf(c, FInfoOf[e])
    BY <1>1, <2>1 DEF Syncs
  <2>3. FInfoOf[c] = FInfoOf[e] /\ node[NameOf[c]].owner = c
    BY <1>2, <2>2 DEF FirstOf
  <2>4. \A d \in scene.wanted : FInfoOf[d] = FInfoOf[e] => node[NameOf[d]].owner = c
    BY <1>2, <2>2, <2>3 DEF FirstOf
  <2> QED
    BY <2>3, <2>4
<1> QED
  BY <1>2, <1>3, <1>4, <1>5, <1>6

\* The extracted names of an info block are one file in the end, and no others are,
\* in whatever order their jobs came to it (LiveFile.cpp:84-103 and 175-179).
THEOREM HardLinksAreOne ==
    ASSUME \A s \in Scenes : IsArchive(s)
    PROVE  Spec => []HardLinksRestored
<1>1. Inv => HardLinksRestored
  <2> SUFFICES ASSUME Inv, main = "end", NEW d \in scene.wanted, NEW e \in scene.wanted, d # e
               PROVE  node[Name(d)].owner = node[Name(e)].owner /\ ~Is(d, "dir") <=>
                         List[d].finfo = List[e].finfo /\ List[d].finfo # NoFInfo
    BY DEF HardLinksRestored
  <2>1. d \in Lines /\ e \in Lines
    BY OwnerFacts
  <2>2. /\ Name(d) = NameOf[d] /\ Name(e) = NameOf[e] /\ (Is(d, "dir") <=> d \in Dirs)
        /\ List[d].finfo = FInfoOf[d] /\ List[e].finfo = FInfoOf[e] /\ 0 \notin Lines
    BY <2>1, SceneFacts DEF Inv, Typed
  <2>3. ASSUME FInfoOf[d] = FInfoOf[e], FInfoOf[d] # NoFInfo
        PROVE  node[NameOf[d]].owner = node[NameOf[e]].owner /\ d \notin Dirs
    BY <2>3, OwnerFacts
  <2>4. ASSUME node[NameOf[d]].owner = node[NameOf[e]].owner, d \notin Dirs
        PROVE  FInfoOf[d] = FInfoOf[e] /\ FInfoOf[d] # NoFInfo
    <3>1. e \notin Dirs
      BY <2>2, <2>4, OwnerFacts
    <3> QED
      BY <2>4, <3>1, OwnerFacts
  <2> QED
    BY <2>2, <2>3, <2>4
<1>2. Spec => []Inv
  BY Invariant
<1> QED
  BY <1>1, <1>2, PTL

\* All that was asked for is there in the end with its archived times: nothing is
\* made in a directory after its own were set (Archive.cpp:219-238).
THEOREM TimesAreRestored ==
    ASSUME \A s \in Scenes : IsArchive(s)
    PROVE  Spec => []TimesRestored
<1>1. Inv => TimesRestored
  <2> SUFFICES ASSUME Inv, main = "end", NEW e \in scene.wanted
               PROVE  Name(e) \in DOMAIN node /\ node[Name(e)].mtime = "archived"
    BY DEF TimesRestored
  <2>1. Name(e) = NameOf[e]
    BY OwnerFacts, SceneFacts DEF Inv, Typed
  <2> QED
    BY <2>1, OwnerFacts
<1>2. Spec => []Inv
  BY Invariant
<1> QED
  BY <1>1, <1>2, PTL

\* No job fails: the file of a hard link is there when it is made and its own name
\* is not, and no directory is closed to the program before all that lie in it have
\* their attributes.
THEOREM ExtractSucceeds ==
    ASSUME \A s \in Scenes : IsArchive(s)
    PROVE  Spec => []NeverFails
<1>1. Inv => NeverFails
  BY DEF Inv
<1>2. Spec => []Inv
  BY Invariant
<1> QED
  BY <1>1, <1>2, PTL

=============================================================================
