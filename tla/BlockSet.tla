------------------------------ MODULE BlockSet ------------------------------
(***************************************************************************)
(* What a block list promises its callers (the operations BlockList.h      *)
(* declares): a set of allocated indexes, an allocation that returns the   *)
(* lowest free index, and calls that change nothing when they fail.        *)
(* BlockList.tla, the list of ranges of BlockList.cpp, implements it.      *)
(***************************************************************************)
EXTENDS Integers

CONSTANT MaxIdx     \* bound: the largest index a call is made with

VARIABLES allocated,    \* the indexes in use
          last          \* the last call and what it returned

Index == 0..MaxIdx

\* The lowest index that S leaves free.
LowestFree(S) == CHOOSE i \in Index \ S : \A j \in Index \ S : i <= j

Call(op, idx, res) == [op |-> op, idx |-> idx, res |-> res]

\* The memory error of Free ends the process (see BlockList.tla).
Running == last.res # "crash"

Init == allocated = {} /\ last = Call("new", 0, "ok")

Alloc ==
    /\ Running
    /\ Index \ allocated # {}
    /\ allocated' = allocated \cup {LowestFree(allocated)}
    /\ last' = Call("Alloc", LowestFree(allocated), "ok")

Free(idx) ==
    /\ Running
    /\ allocated' = allocated \ {idx}
    /\ \E res \in IF idx \in allocated THEN {"ok"} ELSE {"throw", "crash"} :
          last' = Call("Free", idx, res)

MarkAllocated(idx) ==
    /\ Running
    /\ allocated' = allocated \cup {idx}
    /\ last' = Call("MarkAllocated", idx,
                    IF idx \in allocated THEN "throw" ELSE "ok")

IsAllocated(idx) ==
    /\ Running
    /\ last' = Call("IsAllocated", idx,
                    IF idx \in allocated THEN "true" ELSE "false")
    /\ UNCHANGED allocated

Next ==
    \/ Alloc
    \/ \E idx \in Index : Free(idx) \/ MarkAllocated(idx) \/ IsAllocated(idx)

Spec == Init /\ [][Next]_<<allocated, last>>
=============================================================================
