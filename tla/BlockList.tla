------------------------------ MODULE BlockList ------------------------------
(***************************************************************************)
(* The block allocator of src/BlockList.cpp: the allocated indexes as a    *)
(* sorted vector of disjoint ranges that never touch.  Every operation of  *)
(* the class runs under its mutex, so each is one action.                  *)
(***************************************************************************)
EXTENDS RangeList

CONSTANT MaxIdx     \* bound: the largest index a call is made with

ASSUME MaxIdxAssumption == MaxIdx \in Nat

VARIABLES Ranges,   \* vector <BlockRangeTuple> Ranges
          last      \* the last call and how it ended

vars == <<Ranges, last>>

Index == 0..MaxIdx

Call(op, idx, res) == [op |-> op, idx |-> idx, res |-> res]

\* A call ends normally, throws a PB_Exception, finds the ranges corrupted,
\* fails an assert, or (Free) reads outside the vector and crashes.
Outcomes == {"ok", "throw", "true", "false", "corrupted", "assert", "crash"}

\* The indexes the ranges of R stand for.
Allocated(R) == {i \in Index : \E k \in DOMAIN R : R[k].min <= i /\ i <= R[k].max}

\* Variant that forgets that a range holds both its ends.
CountOffByOne(R) ==
    LET count[k \in 0..Len(R)] ==
            IF k = 0 THEN 0 ELSE count[k - 1] + (R[k].max - R[k].min)
    IN  count[Len(R)]

\* The loop of CountAllocated, over the length of each range.
CountAllocated(R) ==
    LET count[k \in 0..Len(R)] ==
            IF k = 0 THEN 0 ELSE count[k - 1] + (R[k].max - R[k].min + 1)
    IN  count[Len(R)]

\* A failed assert and a crash end the process.
Running == last.res \notin {"assert", "crash"}

Init == Ranges = <<>> /\ last = Call("new", 0, "ok")
-----------------------------------------------------------------------------
(* Alloc: index 0, or the index after the first range. *)

AllocNewFirst ==
    /\ Running
    /\ Ranges # <<>> => Ranges[1].min > 1
    /\ Ranges' = InsertAt(Ranges, 1, Range_(0, 0))
    /\ last' = Call("Alloc", 0, "ok")

AllocLowEnd ==
    /\ Running
    /\ Ranges # <<>> /\ Ranges[1].min = 1
    /\ Ranges' = [Ranges EXCEPT ![1].min = 0]
    /\ last' = Call("Alloc", 0, "ok")

AllocHighEnd ==
    /\ Running
    /\ Ranges # <<>> /\ Ranges[1].min < 1
    /\ Ranges[1].max < MaxIdx
    /\ LET idx   == Ranges[1].max + 1
           grown == [Ranges EXCEPT ![1].max = idx]
       IN  IF Len(Ranges) > 1 /\ idx >= Ranges[2].min
           THEN Ranges' = grown /\ last' = Call("Alloc", idx, "corrupted")
           ELSE /\ last' = Call("Alloc", idx, "ok")
                /\ Ranges' = IF Len(Ranges) > 1 /\ idx = Ranges[2].min - 1
                             THEN RemoveAt([Ranges EXCEPT ![1].max = Ranges[2].max], 2)
                             ELSE grown

Alloc == AllocNewFirst \/ AllocLowEnd \/ AllocHighEnd
-----------------------------------------------------------------------------
(* Free: shrink the range that holds idx, split it, or erase it. *)

\* Variant without the erasure of an emptied range (BlockList.cpp:91-92).
ShrinkKeepsEmpty(R, k, idx) ==
    IF R[k].min = idx THEN [R EXCEPT ![k].min = idx + 1]
    ELSE IF R[k].max = idx THEN [R EXCEPT ![k].max = idx - 1]
    ELSE InsertAt([R EXCEPT ![k].max = idx - 1], k + 1, Range_(idx + 1, R[k].max))

\* Variant whose split starts the upper half one too low.
ShrinkOffByOne(R, k, idx) ==
    CASE R[k].min = idx /\ R[k].max = idx -> RemoveAt(R, k)
      [] R[k].min = idx /\ R[k].max # idx -> [R EXCEPT ![k].min = idx + 1]
      [] R[k].min # idx /\ R[k].max = idx -> [R EXCEPT ![k].max = idx - 1]
      [] OTHER -> InsertAt([R EXCEPT ![k].max = idx - 1], k + 1, Range_(idx, R[k].max))

\* R without idx, which its range k holds.
Shrink(R, k, idx) ==
    CASE R[k].min = idx /\ R[k].max = idx -> RemoveAt(R, k)
      [] R[k].min = idx /\ R[k].max # idx -> [R EXCEPT ![k].min = idx + 1]
      [] R[k].min # idx /\ R[k].max = idx -> [R EXCEPT ![k].max = idx - 1]
      [] OTHER -> InsertAt([R EXCEPT ![k].max = idx - 1], k + 1, Range_(idx + 1, R[k].max))

FreeAllocated(idx) ==
    /\ Running
    /\ Search(Ranges, idx) > 0 /\ idx <= Ranges[Search(Ranges, idx)].max
    /\ Ranges' = Shrink(Ranges, Search(Ranges, idx), idx)
    /\ last' = Call("Free", idx, "ok")

\* A range starts at or below idx and does not reach it: the exception.
FreeInGap(idx) ==
    /\ Running
    /\ Search(Ranges, idx) > 0 /\ Ranges[Search(Ranges, idx)].max < idx
    /\ last' = Call("Free", idx, "throw")
    /\ UNCHANGED Ranges

\* No range starts at or below idx: the code copies Ranges[-1] before it tests
\* the index, an undefined read that may or may not survive to the exception.
FreeBelowAll(idx) ==
    /\ Running
    /\ Search(Ranges, idx) = 0
    /\ \E res \in {"throw", "crash"} : last' = Call("Free", idx, res)
    /\ UNCHANGED Ranges

Free(idx) == FreeAllocated(idx) \/ FreeInGap(idx) \/ FreeBelowAll(idx)
-----------------------------------------------------------------------------
(* MarkAllocated: extend a range or insert one, then merge with the next. *)

\* Variant without the merge.
MergeNextNever(R, k) == R

\* The merge at the end of MarkAllocated, with R[k] the range just extended or
\* inserted.  The code writes R[k] back last.
MergeNext(R, k) ==
    IF k < Len(R) /\ R[k + 1].min = R[k].max + 1
    THEN RemoveAt([R EXCEPT ![k].max = R[k + 1].max], k + 1)
    ELSE R

Overlap(R, k) == k < Len(R) /\ R[k + 1].min <= R[k].max

MarkExtend(idx) ==
    /\ Running
    /\ Search(Ranges, idx) > 0 /\ idx = Ranges[Search(Ranges, idx)].max + 1
    /\ LET k == Search(Ranges, idx)
           R == [Ranges EXCEPT ![k].max = idx]
       IN  /\ Ranges' = MergeNext(R, k)
           /\ last' = Call("MarkAllocated", idx, IF Overlap(R, k) THEN "assert" ELSE "ok")

MarkInsert(idx) ==
    /\ Running
    /\ LET k == Search(Ranges, idx)
           R == InsertAt(Ranges, k + 1, Range_(idx, idx))
       IN  /\ k > 0 => idx > Ranges[k].max + 1
           /\ Ranges' = MergeNext(R, k + 1)
           /\ last' = Call("MarkAllocated", idx, IF Overlap(R, k + 1) THEN "assert" ELSE "ok")

MarkAgain(idx) ==
    /\ Running
    /\ Search(Ranges, idx) > 0 /\ idx <= Ranges[Search(Ranges, idx)].max
    /\ last' = Call("MarkAllocated", idx, "throw")
    /\ UNCHANGED Ranges

MarkAllocated(idx) == MarkExtend(idx) \/ MarkInsert(idx) \/ MarkAgain(idx)
-----------------------------------------------------------------------------
IsAllocated(idx) ==
    /\ Running
    /\ LET k == Search(Ranges, idx)
       IN  last' = Call("IsAllocated", idx,
                        IF k > 0 /\ idx <= Ranges[k].max THEN "true" ELSE "false")
    /\ UNCHANGED Ranges

Next ==
    \/ Alloc
    \/ \E idx \in Index : Free(idx) \/ MarkAllocated(idx) \/ IsAllocated(idx)

Spec == Init /\ [][Next]_vars
-----------------------------------------------------------------------------
\* Type invariant: the fields of BlockListRange stay indexes of the bound, and
\* a call ends in one of the known ways.
TypeOK ==
    /\ Ranges \in Seq([min : Index, max : Index])
    /\ last \in [op  : {"new", "Alloc", "Free", "MarkAllocated", "IsAllocated"},
                 idx : Index,
                 res : Outcomes]

\* The ranges stay ascending and apart, what every operation relies on to find
\* an index with one search and to merge with one neighbour (the asserts of
\* CountAllocated, BlockList.cpp:192-193).
Normalized == Normal(Ranges)

\* No sequence of calls reaches the exception "Block Allocation list corrupted"
\* of Alloc (BlockList.cpp:48-49) or fails the assert of MarkAllocated (146).
NeverCorrupted == last.res \notin {"corrupted", "assert"}

\* CountAllocated is the number of allocated indexes, however the ranges were
\* split and merged: what TestBLockList.cpp's DoTestSize compares with.
CountAgrees == CountAllocated(Ranges) = Cardinality(Allocated(Ranges))

\* The ranges implement a set of indexes: Alloc returns the lowest free index
\* (the comment at BlockList.cpp:21), Free and MarkAllocated change that one
\* index, a call that throws changes nothing, IsAllocated answers membership.
Set == INSTANCE BlockSet WITH allocated <- Allocated(Ranges)

ImplementsSet == Set!Spec
=============================================================================
