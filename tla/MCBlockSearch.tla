--------------------------- MODULE MCBlockSearch ---------------------------
(* Every normal list of at most four ranges over the indexes 0..MaxIdx, and *)
(* every index to look for.                                                 *)
EXTENDS BlockSearch

CONSTANT MaxIdx

MCIndexes == 0..MaxIdx

\* A list of ranges is determined by the set of indexes it stands for.
ListOf(S) ==
    LET lows == {i \in S : i - 1 \notin S}
        high(i) == CHOOSE j \in S : j >= i /\ i..j \subseteq S /\ j + 1 \notin S
    IN  SetToSortSeq({Range_(i, high(i)) : i \in lows}, LAMBDA a, b : a.min < b.min)

MCLists == {ListOf(S) : S \in SUBSET MCIndexes}
=============================================================================
