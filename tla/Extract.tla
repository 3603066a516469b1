------------------------------- MODULE Extract -------------------------------
(***************************************************************************)
(* The extract command: DoExtract reads the list and hands out a job per   *)
(* line (src/Archive.cpp:158-241), and each job makes its file, directory  *)
(* or hard link (src/LiveFile.cpp:47-180), with a helper per chunk.  Jobs  *)
(* and helpers are tasks of the thread pool and interleave freely.  The    *)
(* blocks can be read (CreateFile.tla, Restorable), so of a chunk only its *)
(* place in the file is kept.                                              *)
(***************************************************************************)
EXTENDS Integers, FiniteSets, SequencesExt, FilePaths

CONSTANTS Scenes    \* the archives to extract, and the command's options

NoFInfo == -99      \* INT64_MIN: the entry has no info block

\* What the list says of an entry.
Entries == [name : Path \ {<<>>}, kind : STRING, finfo : Int, chunks : Nat, closed : BOOLEAN]

\* A scene has the list of the archive (the path of each entry, its kind,
\* FInfoIdx, number of chunks and mode), the entries the command asks for, and
\* whether chunks get helpers (-T above 1).  Directories have no info block.
IsScene(s) ==
    /\ s.list \in Seq(Entries) /\ s.wanted \subseteq DOMAIN s.list /\ s.helpers \in BOOLEAN
    /\ \A e \in DOMAIN s.list : s.list[e].kind = "dir" => s.list[e].finfo = NoFInfo

ASSUME ScenesAssumption == \A s \in Scenes : IsScene(s)

VARIABLES
    scene,
    pc,             \* where DoExtractJob is for each line
    HLinkSyncs,     \* of each info block met: the first file's Name, its Lock
    chunk,          \* the chunk a job has come to, making or waiting
    lock,           \* the locks of the chunks of a file
    helpers,        \* the chunks of a file whose ExtractChunkJob goes on
    node,           \* the extracted tree: path -> file, times, mode
    content,        \* what the file of each line holds
    DirAttribs,     \* the lines whose directory waits for its attributes
    main,           \* where DoExtract is: the line to read, or what follows
    failed          \* an exception ended the program

vars == <<scene, pc, HLinkSyncs, chunk, lock, helpers, node, content, DirAttribs, main, failed>>

List  == scene.list
Lines == DOMAIN scene.list
Is(e, kind) == List[e].kind = kind
Name(e) == List[e].name
Chunks(e) == 1..List[e].chunks

Sync(name, busy) == [name |-> name, busy |-> busy]
Node(owner, mtime, closed) == [owner |-> owner, mtime |-> mtime, closed |-> closed]
NewDir == Node(0, "now", FALSE)

\* The map f with v for k.
Put(f, k, v) == [x \in DOMAIN f \cup {k} |-> IF x = k THEN v ELSE f[x]]

Init ==
    /\ scene \in Scenes
    /\ pc = [e \in Lines |-> "unread"]
    /\ HLinkSyncs = <<>>
    /\ chunk = [e \in Lines |-> 1]
    /\ lock = [e \in Lines |-> [k \in Chunks(e) |-> "none"]]
    /\ helpers = [e \in Lines |-> <<>>]
    /\ node = [p \in {<<>>} |-> NewDir]
    /\ content = [e \in Lines |-> <<>>]
    /\ DirAttribs = {}
    /\ main = "read"
    /\ failed = FALSE

At(e, where) == ~failed /\ pc[e] = where
Goto(e, where) == pc' = [pc EXCEPT ![e] = where]

Throw ==
    /\ failed' = TRUE
    /\ UNCHANGED <<scene, pc, HLinkSyncs, chunk, lock, helpers, node, content, DirAttribs, main>>
-----------------------------------------------------------------------------
(* The extracted tree. *)

\* The tree with the directories above p (CreateDir of the parent): making one
\* sets the time of the directory it is made in.
WithParents(p) ==
    LET above   == Prefixes(Front(p))
        missing == above \ DOMAIN node
    IN  [q \in DOMAIN node \cup missing |->
            CASE q \in missing -> NewDir
              [] q \notin missing /\ \E m \in missing : Front(m) = q ->
                    [node[q] EXCEPT !.mtime = "now"]
              [] OTHER -> node[q]]

\* The tree with new at p, and the directories above it.
With(p, new) ==
    Put([WithParents(p) EXCEPT ![Front(p)].mtime = "now"], p, new)

\* The tree with a directory at p, which may be there already.
WithDir(p) == IF p \in DOMAIN node THEN node ELSE With(p, NewDir)
-----------------------------------------------------------------------------
(* DoExtract hands out the jobs, and a job finds out what it is for. *)

Read(e) ==
    /\ At(e, "unread")
    /\ main = "read" /\ \A d \in Lines : d < e => pc[d] # "unread"
    /\ Goto(e, IF e \in scene.wanted THEN "start" ELSE "done")
    /\ UNCHANGED <<scene, HLinkSyncs, chunk, lock, helpers, node, content, DirAttribs, main, failed>>

\* Variant that does not look whether another job has the info block.
FirstAlways(e) ==
    /\ At(e, "start")
    /\ HLinkSyncs' = Put(HLinkSyncs, List[e].finfo, Sync(<<>>, TRUE))
    /\ Goto(e, "make")
    /\ UNCHANGED <<scene, chunk, lock, helpers, node, content, DirAttribs, main, failed>>

\* Under the mutex of HLinkSyncs: the first job of an info block makes the file,
\* the others wait for it.
Register(e) ==
    /\ At(e, "start")
    /\ LET i == List[e].finfo
       IN  IF i # NoFInfo /\ i \in DOMAIN HLinkSyncs
           THEN Goto(e, "sync") /\ UNCHANGED HLinkSyncs
           ELSE /\ Goto(e, "make")
                /\ HLinkSyncs' = IF i = NoFInfo THEN HLinkSyncs
                                 ELSE Put(HLinkSyncs, i, Sync(<<>>, TRUE))
    /\ UNCHANGED <<scene, chunk, lock, helpers, node, content, DirAttribs, main, failed>>

\* The wait, then MakeHardLink, which fails if the name exists.
MakeHardLink(e) ==
    /\ At(e, "sync")
    /\ ~HLinkSyncs[List[e].finfo].busy
    /\ LET target == HLinkSyncs[List[e].finfo].name
       IN  IF target \in DOMAIN node /\ Name(e) \notin DOMAIN node
           THEN /\ node' = With(Name(e), node[target])
                /\ Goto(e, "done")
                /\ UNCHANGED <<scene, HLinkSyncs, chunk, lock, helpers, content, DirAttribs, main, failed>>
           ELSE Throw

MakeDir(e) ==
    /\ At(e, "make") /\ Is(e, "dir")
    /\ node' = WithDir(Name(e))
    /\ DirAttribs' = DirAttribs \cup {e}
    /\ Goto(e, "post")
    /\ UNCHANGED <<scene, HLinkSyncs, chunk, lock, helpers, content, main, failed>>

\* A symbolic link, a fifo or a socket: an error if the name exists.
MakeOther(e) ==
    /\ At(e, "make") /\ List[e].kind \notin {"dir", "file"}
    /\ IF Name(e) \in DOMAIN node THEN Throw
       ELSE /\ node' = With(Name(e), Node(e, "now", FALSE))
            /\ Goto(e, "attrs")
            /\ UNCHANGED <<scene, HLinkSyncs, chunk, lock, helpers, content, DirAttribs, main, failed>>

\* OpenWriteBin, which empties a file of that name.
OpenFile(e) ==
    /\ At(e, "make") /\ Is(e, "file")
    /\ IF Name(e) \in DOMAIN node
       THEN content' = [content EXCEPT ![node[Name(e)].owner] = <<>>] /\ UNCHANGED node
       ELSE node' = With(Name(e), Node(e, "now", FALSE)) /\ UNCHANGED content
    /\ Goto(e, "loop")
    /\ UNCHANGED <<scene, HLinkSyncs, chunk, lock, helpers, DirAttribs, main, failed>>
-----------------------------------------------------------------------------
(* The loop over the chunks, ExtractChunkJob, and the wait for the helpers. *)

\* Variant that gives the final chunk a helper as well.
HelpedAll(e) == scene.helpers

\* Whether the chunk gets help: not the final one.
Helped(e) == scene.helpers /\ chunk[e] < List[e].chunks

\* Variant that goes one chunk too far.
StartChunkOffByOne(e) ==
    /\ At(e, "loop") /\ chunk[e] <= List[e].chunks + 1
    /\ lock' = [lock EXCEPT ![e] = Put(@, chunk[e], "busy")]
    /\ helpers' = [helpers EXCEPT ![e] = Put(@, chunk[e], "write")]
    /\ IF Helped(e)
       THEN chunk' = [chunk EXCEPT ![e] = @ + 1] /\ UNCHANGED pc
       ELSE Goto(e, "inplace") /\ UNCHANGED chunk
    /\ UNCHANGED <<scene, HLinkSyncs, node, content, DirAttribs, main, failed>>

\* A new lock, and its ExtractChunkJob: in a helper, or in place, and then the
\* loop goes on when it is through.
StartChunk(e) ==
    /\ At(e, "loop") /\ chunk[e] <= List[e].chunks
    /\ lock' = [lock EXCEPT ![e][chunk[e]] = "busy"]
    /\ helpers' = [helpers EXCEPT ![e] = Put(@, chunk[e], "write")]
    /\ IF Helped(e)
       THEN chunk' = [chunk EXCEPT ![e] = @ + 1] /\ UNCHANGED pc
       ELSE Goto(e, "inplace") /\ UNCHANGED chunk
    /\ UNCHANGED <<scene, HLinkSyncs, node, content, DirAttribs, main, failed>>

NextChunk(e) ==
    /\ At(e, "inplace") /\ chunk[e] \notin DOMAIN helpers[e]
    /\ chunk' = [chunk EXCEPT ![e] = @ + 1]
    /\ Goto(e, "loop")
    /\ UNCHANGED <<scene, HLinkSyncs, lock, helpers, node, content, DirAttribs, main, failed>>

Writing(e, k) == ~failed /\ k \in DOMAIN helpers[e] /\ helpers[e][k] = "write"

\* The file a job writes to.
File(e) == node[Name(e)].owner

\* Variant that does not wait for the chunk before.
WriteOutOfTurn(e, k) ==
    /\ Writing(e, k)
    /\ content' = [content EXCEPT ![File(e)] = Append(@, k)]
    /\ helpers' = [helpers EXCEPT ![e][k] = "post"]
    /\ UNCHANGED <<scene, pc, HLinkSyncs, chunk, lock, node, DirAttribs, main, failed>>

\* ExtractChunkJob: wait for the chunk before, write.
WriteChunk(e, k) ==
    /\ Writing(e, k)
    /\ k > 1 => lock[e][k - 1] = "idle"
    /\ content' = [content EXCEPT ![File(e)] = Append(@, k)]
    /\ helpers' = [helpers EXCEPT ![e][k] = "post"]
    /\ UNCHANGED <<scene, pc, HLinkSyncs, chunk, lock, node, DirAttribs, main, failed>>

\* Variant that ends without its PostIdle.
EndSilently(e, k) ==
    /\ ~failed /\ k \in DOMAIN helpers[e] /\ helpers[e][k] = "post"
    /\ helpers' = [helpers EXCEPT ![e] = [j \in DOMAIN @ \ {k} |-> @[j]]]
    /\ UNCHANGED <<scene, pc, HLinkSyncs, chunk, lock, node, content, DirAttribs, main, failed>>

\* Then Lock->PostIdle.
EndChunk(e, k) ==
    /\ ~failed /\ k \in DOMAIN helpers[e] /\ helpers[e][k] = "post"
    /\ lock' = [lock EXCEPT ![e][k] = "idle"]
    /\ helpers' = [helpers EXCEPT ![e] = [j \in DOMAIN @ \ {k} |-> @[j]]]
    /\ UNCHANGED <<scene, pc, HLinkSyncs, chunk, node, content, DirAttribs, main, failed>>

EndLoop(e) ==
    /\ At(e, "loop") /\ chunk[e] > List[e].chunks
    /\ chunk' = [chunk EXCEPT ![e] = 1]
    /\ Goto(e, "collect")
    /\ UNCHANGED <<scene, HLinkSyncs, lock, helpers, node, content, DirAttribs, main, failed>>

\* Lock->WaitIdle, delete.
DeleteLock(e) ==
    /\ At(e, "collect") /\ chunk[e] <= List[e].chunks
    /\ lock[e][chunk[e]] = "idle"
    /\ lock' = [lock EXCEPT ![e][chunk[e]] = "deleted"]
    /\ chunk' = [chunk EXCEPT ![e] = @ + 1]
    /\ UNCHANGED <<scene, pc, HLinkSyncs, helpers, node, content, DirAttribs, main, failed>>

CloseFile(e) ==
    /\ At(e, "collect") /\ chunk[e] > List[e].chunks
    /\ Goto(e, "attrs")
    /\ UNCHANGED <<scene, HLinkSyncs, chunk, lock, helpers, node, content, DirAttribs, main, failed>>
-----------------------------------------------------------------------------
(* The end of a job. *)

SetAttributes(e) ==
    /\ At(e, "attrs")
    /\ node' = [node EXCEPT ![Name(e)].mtime = "archived"]
    /\ Goto(e, "post")
    /\ UNCHANGED <<scene, HLinkSyncs, chunk, lock, helpers, content, DirAttribs, main, failed>>

\* The first file of an info block lets the others link to it.
Post(e) ==
    /\ At(e, "post")
    /\ HLinkSyncs' = IF List[e].finfo = NoFInfo THEN HLinkSyncs
                     ELSE [HLinkSyncs EXCEPT ![List[e].finfo] = Sync(Name(e), FALSE)]
    /\ Goto(e, "done")
    /\ UNCHANGED <<scene, chunk, lock, helpers, node, content, DirAttribs, main, failed>>
-----------------------------------------------------------------------------
(* DoExtract after its jobs: the directories, the longest names first. *)

AllRead == \A e \in Lines : pc[e] # "unread"

\* Variant without ThreadPool.WaitIdle.
WaitNot ==
    /\ ~failed /\ main = "read" /\ AllRead
    /\ main' = "dirs"
    /\ UNCHANGED <<scene, pc, HLinkSyncs, chunk, lock, helpers, node, content, DirAttribs, failed>>

WaitIdle ==
    /\ ~failed /\ main = "read"
    /\ \A e \in Lines : pc[e] = "done" /\ DOMAIN helpers[e] = {}
    /\ main' = "dirs"
    /\ UNCHANGED <<scene, pc, HLinkSyncs, chunk, lock, helpers, node, content, DirAttribs, failed>>

\* Variant without the sort.
ComesFirstAlways(e) == e \in DirAttribs

\* Sorted by the length of the names, a directory comes after all that lie in it
\* (and otherwise in any order: the lengths of unrelated names are anything).
ComesFirst(e) ==
    /\ e \in DirAttribs
    /\ \A d \in DirAttribs : ~IsStrictPrefix(Name(e), Name(d))

\* SetMode and SetModTime, which throws if a directory above cannot be searched.
SetDirAttributes(e) ==
    /\ ~failed /\ main = "dirs"
    /\ ComesFirst(e)
    /\ IF \E p \in Prefixes(Front(Name(e))) : node[p].closed
       THEN Throw
       ELSE /\ node' = [node EXCEPT ![Name(e)] =
                            [@ EXCEPT !.mtime = "archived", !.closed = List[e].closed]]
            /\ DirAttribs' = DirAttribs \ {e}
            /\ UNCHANGED <<scene, pc, HLinkSyncs, chunk, lock, helpers, content, main, failed>>

End ==
    /\ ~failed /\ main = "dirs" /\ DirAttribs = {}
    /\ main' = "end"
    /\ UNCHANGED <<scene, pc, HLinkSyncs, chunk, lock, helpers, node, content, DirAttribs, failed>>
-----------------------------------------------------------------------------
Main == (\E e \in Lines : Read(e) \/ SetDirAttributes(e)) \/ WaitIdle \/ End

JobStep(e) ==
    \/ Register(e) \/ MakeHardLink(e) \/ MakeDir(e) \/ MakeOther(e) \/ OpenFile(e)
    \/ StartChunk(e) \/ NextChunk(e) \/ EndLoop(e) \/ DeleteLock(e) \/ CloseFile(e)
    \/ SetAttributes(e) \/ Post(e)

ChunkStep(e, k) == WriteChunk(e, k) \/ EndChunk(e, k)

Next ==
    \/ Main
    \/ \E e \in Lines : JobStep(e) \/ \E k \in Chunks(e) : ChunkStep(e, k)

\* The pool runs every task it is given.  It does not when as many jobs wait for
\* a hard link as there are workers: ThreadPool.tla has that case.
Fairness ==
    /\ WF_vars(Main)
    /\ \A e \in 1..5 : WF_vars(e \in Lines /\ JobStep(e))
    /\ \A e \in 1..5 : WF_vars(e \in Lines /\ \E k \in Chunks(e) : ChunkStep(e, k))

Spec == Init /\ [][Next]_vars /\ Fairness
-----------------------------------------------------------------------------
\* No name is listed twice, and what names lie under is a directory: so it is
\* when the archive was made of arguments that are apart (CreateWalk.tla).
IsArchive(s) ==
    \A d, e \in DOMAIN s.list :
        /\ s.list[d].name = s.list[e].name => d = e
        /\ IsStrictPrefix(s.list[d].name, s.list[e].name) => s.list[d].kind = "dir"

\* Type invariant.
TypeOK ==
    /\ \A e \in Lines :
          /\ content[e] \in Seq(Chunks(e))
          /\ chunk[e] \in 1..List[e].chunks + 1
          /\ lock[e] \in [Chunks(e) -> {"none", "busy", "idle", "deleted"}]
          /\ DOMAIN helpers[e] \subseteq Chunks(e)
    /\ \A p \in DOMAIN node : node[p].owner \in Lines \cup {0}
    /\ DirAttribs \subseteq {e \in Lines : Is(e, "dir")}

UpTo(n) == [k \in 1..n |-> k]

\* The chunks are written in the order of the file, in whatever order the
\* helpers get to it, and a closed file has them all.
WrittenInOrder ==
    \A e \in Lines :
        /\ IsPrefix(content[e], UpTo(List[e].chunks))
        /\ Is(e, "file") /\ pc[e] \in {"attrs", "post"} => Len(content[e]) = List[e].chunks

\* A helper that is to wait for the chunk before finds its lock: the job deletes
\* the locks one by one while helpers may still hold them (LiveFile.cpp:137-140),
\* and that is safe because the final chunk is written in place.
NoDeletedLock ==
    \A e \in Lines : \A k \in Chunks(e) :
        Writing(e, k) /\ k > 1 => lock[e][k - 1] # "deleted"

\* The extracted names of an info block are one file, which is whole, and other
\* names are not ("Hard-link state is restored", PhatBak.1:24).
HardLinksRestored ==
    main = "end" =>
        \A d, e \in scene.wanted :
            d # e => (node[Name(d)].owner = node[Name(e)].owner /\ ~Is(d, "dir") <=>
                        List[d].finfo = List[e].finfo /\ List[d].finfo # NoFInfo)

\* The directories have their archived times in the end: nothing is made in one
\* after its time was set ("must defer directory attributes setting until all
\* files have been extracted", LiveFile.cpp:147-148).
TimesRestored ==
    main = "end" =>
        \A e \in scene.wanted :
            Name(e) \in DOMAIN node /\ node[Name(e)].mtime = "archived"

\* No job throws and no directory shuts the program out of another: no hard link
\* is made to what is not there, no name is made twice.
NeverFails == ~failed

\* The command comes to its end.
ExtractionEnds == <>(main = "end" \/ failed)
=============================================================================
