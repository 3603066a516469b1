------------------------------ MODULE RangeList ------------------------------
(***************************************************************************)
(* The vector of index ranges of src/BlockList.h, and what its search is   *)
(* for.  BlockList.tla and BlockSearch.tla both speak of such lists.       *)
(***************************************************************************)
EXTENDS Integers, FiniteSets, SequencesExt

Range_(lo, hi) == [min |-> lo, max |-> hi]

\* The ranges are not empty, ascend, and two of them never touch.
Normal(R) ==
    /\ \A k \in DOMAIN R : R[k].min <= R[k].max
    /\ \A j, k \in DOMAIN R : j < k => R[j].max + 1 < R[k].min

\* Search: the last range that starts at or below idx, 0 for the code's -1.
\* BlockSearch.tla shows that the binary search computes it.
Search(R, idx) ==
    IF \E k \in DOMAIN R : R[k].min <= idx
    THEN CHOOSE k \in DOMAIN R :
            /\ R[k].min <= idx
            /\ \A j \in DOMAIN R : R[j].min <= idx => j <= k
    ELSE 0
=============================================================================
