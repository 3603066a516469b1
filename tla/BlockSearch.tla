----------------------------- MODULE BlockSearch -----------------------------
(***************************************************************************)
(* One call of BlockList::Search (src/BlockList.cpp:157-185) on any list   *)
(* of ranges the allocator can hold: the recursion on (Start, End), one    *)
(* action per level.  Positions count from 1 here and from 0 in the code,  *)
(* so that the code's middle position (Start + End) / 2 is the same one.   *)
(***************************************************************************)
EXTENDS RangeList

CONSTANTS Lists,    \* the lists of ranges to search in
          Indexes   \* the indexes to search for

ASSUME ListsAssumption ==
    /\ \A R \in Lists : R \in Seq([min : Int, max : Int]) /\ Normal(R)
    /\ Indexes \subseteq Int

VARIABLES Ranges, Idx,  \* what the call works on
          Start, End,   \* the part still to search
          result        \* -1 while the recursion goes on, else what it returns

vars == <<Ranges, Idx, Start, End, result>>

Searching == result = -1

Mid == (Start + End) \div 2

Init ==
    /\ Ranges \in Lists
    /\ Idx \in Indexes
    /\ Start = 1
    /\ End = Len(Ranges)
    /\ result = -1

NothingLeft ==
    /\ Searching
    /\ Start > End
    /\ result' = 0
    /\ UNCHANGED <<Ranges, Idx, Start, End>>

\* Variant that takes the middle range without a look at the one after it.
FoundTooSoon == Idx >= Ranges[Mid].min

\* The middle range is the last that starts at or below Idx.
Found ==
    /\ Idx >= Ranges[Mid].min
    /\ Mid + 1 <= Len(Ranges) => Idx < Ranges[Mid + 1].min

ReturnMid ==
    /\ Searching
    /\ Start <= End
    /\ Found
    /\ result' = Mid
    /\ UNCHANGED <<Ranges, Idx, Start, End>>

LowerHalf ==
    /\ Searching
    /\ Start <= End
    /\ ~Found
    /\ Idx < Ranges[Mid].min
    /\ End' = Mid - 1
    /\ UNCHANGED <<Ranges, Idx, Start, result>>

\* Variant that keeps the middle range in the upper half.
UpperHalfKeepsMid ==
    /\ Searching
    /\ Start <= End
    /\ ~Found
    /\ Idx >= Ranges[Mid].min
    /\ Start' = Mid
    /\ UNCHANGED <<Ranges, Idx, End, result>>

UpperHalf ==
    /\ Searching
    /\ Start <= End
    /\ ~Found
    /\ Idx >= Ranges[Mid].min
    /\ Start' = Mid + 1
    /\ UNCHANGED <<Ranges, Idx, End, result>>

Next == NothingLeft \/ ReturnMid \/ LowerHalf \/ UpperHalf

Spec == Init /\ [][Next]_vars /\ WF_vars(Next)
-----------------------------------------------------------------------------
\* The call returns the last range that starts at or below Idx, which is what
\* every operation of the allocator assumes of it.  (The comment above the code
\* speaks of the range's max value; the code and its callers use min.)
SearchCorrect == ~Searching => result = Search(Ranges, Idx)

\* The recursion ends: each level leaves a smaller part.
Terminates == <>(~Searching)
=============================================================================
