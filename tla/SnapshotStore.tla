--------------------------- MODULE SnapshotStore ---------------------------
(***************************************************************************)
(* What a repository promises: archives that appear whole, each a snapshot *)
(* of the files there are, and that stay what they are until the user      *)
(* deletes them, whatever happens to the others.  Repo.tla, the commands   *)
(* with their steps in the file system, implements it.                     *)
(***************************************************************************)
CONSTANTS Names, Files, Versions

VARIABLES live,     \* the version of each file that exists
          store     \* the archives, each a version of each file it holds

\* The contents there can be: a version of each of some files.
Contents == UNION {[S -> Versions] : S \in SUBSET Files}

Init == live \in Contents /\ store = <<>>

Change ==
    /\ live' \in Contents
    /\ UNCHANGED store

Commit(n) ==
    /\ n \notin DOMAIN store
    /\ store' = [m \in DOMAIN store \cup {n} |-> IF m = n THEN live ELSE store[m]]
    /\ UNCHANGED live

Delete(n) ==
    /\ n \in DOMAIN store
    /\ store' = [m \in DOMAIN store \ {n} |-> store[m]]
    /\ UNCHANGED live

Next == Change \/ \E n \in Names : Commit(n) \/ Delete(n)

Spec == Init /\ [][Next]_<<live, store>>
=============================================================================
