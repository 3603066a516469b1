---------------------------- MODULE MCThreadPool ----------------------------
(* The pool under what the commands make of it. *)
EXTENDS ThreadPool, TLC

\* DoCreate: a file of two chunks and one of none; Create waits for the chunk
\* jobs in order (Archive.cpp:719-768), and nothing waits for a worker.
CreateLoad ==
    "main" :> <<Exec("f1", FALSE), Exec("f2", FALSE), PoolIdle>> @@
    "f1" :> <<Exec("c1", FALSE), Exec("c2", FALSE), WaitLock("c1"), WaitLock("c2")>> @@
    "f2" :> <<>> @@
    "c1" :> <<PostLock("c1")>> @@ "c2" :> <<PostLock("c2")>>

\* DoTest: three files submit their chunks, and every Execute waits for a worker
\* (Archive.cpp:323, 340): without its escape all three workers could wait.
TestLoad ==
    "main" :> <<Exec("f1", TRUE), Exec("f2", TRUE), Exec("f3", TRUE), PoolIdle>> @@
    "f1" :> <<Exec("c1", TRUE)>> @@ "f2" :> <<Exec("c2", TRUE)>> @@
    "f3" :> <<Exec("c3", TRUE)>> @@
    "c1" :> <<>> @@ "c2" :> <<>> @@ "c3" :> <<>>

\* DoExtract of two files, one of three chunks whose writers queue on each
\* other's locks, the last chunk in place (LiveFile.cpp:110-141).
ExtractLoad ==
    "main" :> <<Exec("x1", TRUE), Exec("x2", TRUE), PoolIdle>> @@
    "x1" :> <<Exec("c1", TRUE), Exec("c2", TRUE), WaitLock("c2"), PostLock("c3"),
              WaitLock("c1"), WaitLock("c2"), WaitLock("c3")>> @@
    "x2" :> <<>> @@
    "c1" :> <<PostLock("c1")>> @@ "c2" :> <<WaitLock("c1"), PostLock("c2")>>

\* DoExtract of three names of one file of two chunks: the jobs of the other
\* names wait until the first has made the file (Archive.cpp:194-209).
HardLinkLoad ==
    "main" :> <<Exec("x1", TRUE), Exec("x2", TRUE), Exec("x3", TRUE), PoolIdle>> @@
    "x1" :> <<Exec("c1", TRUE), WaitLock("c1"), PostLock("c2"), WaitLock("c1"),
              WaitLock("c2"), PostLock("link")>> @@
    "x2" :> <<WaitLock("link")>> @@ "x3" :> <<WaitLock("link")>> @@
    "c1" :> <<PostLock("c1")>>

\* Commands in which a chunk job throws while others wait for its lock, and a
\* DoCreate in which main () throws with the tasks of a file at work.
ChunkThrows  == [CreateLoad EXCEPT !["c1"] = <<ThrowError>>]
WriterThrows == [ExtractLoad EXCEPT !["c1"] = <<ThrowError>>]
MainThrows   == [CreateLoad EXCEPT !["main"] = <<Exec("f1", FALSE), ThrowError>>]

\* Listing an archive submits nothing: the pool is stopped as it starts.
ListLoad == "main" :> <<>>

MCWorkloads == {CreateLoad, TestLoad, ExtractLoad, ChunkThrows, WriterThrows, MainThrows}
MCList == {ListLoad}
MCHardLinks == {HardLinkLoad}
=============================================================================
