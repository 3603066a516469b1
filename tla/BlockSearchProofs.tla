-------------------------- MODULE BlockSearchProofs --------------------------
(* The binary search of src/BlockList.cpp is correct on every list of ranges *)
(* that is normal, of whatever length.                                       *)
EXTENDS BlockSearch, TLAPS

Rng == [min : Int, max : Int]

\* The lower ends of a normal list ascend.
LEMMA MinsAscend ==
    ASSUME NEW R \in Seq(Rng), Normal(R),
           NEW j \in 1..Len(R), NEW k \in 1..Len(R), j <= k
    PROVE  R[j].min <= R[k].min
<1>1. /\ R[j].min \in Int /\ R[j].max \in Int
      /\ R[k].min \in Int /\ R[k].max \in Int
  <2>1. R[j] \in Rng /\ R[k] \in Rng
    OBVIOUS
  <2> QED
    BY <2>1 DEF Rng
<1>2. CASE j = k
  BY <1>1, <1>2
<1>3. CASE j < k
  <2>1. R[j].max + 1 < R[k].min /\ R[j].min <= R[j].max
    BY <1>3 DEF Normal
  <2> QED
    BY <1>1, <2>1
<1> QED
  BY <1>2, <1>3

\* A position is what Search names when it starts at or below idx and none
\* above it does.
LEMMA SearchIs ==
    ASSUME NEW R \in Seq(Rng), NEW idx \in Int,
           NEW m \in 1..Len(R), R[m].min <= idx,
           \A j \in 1..Len(R) : m < j => idx < R[j].min
    PROVE  Search(R, idx) = m
<1> DEFINE P(k) == /\ R[k].min <= idx
                   /\ \A j \in DOMAIN R : R[j].min <= idx => j <= k
<1>1. \A j \in 1..Len(R) : R[j].min \in Int
  <2>1. \A j \in 1..Len(R) : R[j] \in Rng
    OBVIOUS
  <2> QED
    BY <2>1 DEF Rng
<1>2. m \in DOMAIN R /\ P(m)
  <2>1. ASSUME NEW j \in 1..Len(R), R[j].min <= idx
        PROVE  j <= m
    BY <1>1, <2>1
  <2> QED
    BY <2>1
<1>3. \A k \in DOMAIN R : P(k) => k = m
  BY <1>2
<1> DEFINE c == CHOOSE k \in DOMAIN R : P(k)
<1>4. c \in DOMAIN R /\ P(c)
  <2> HIDE DEF P
  <2> QED BY <1>2, Zenon
<1>5. c = m
  <2> HIDE DEF c, P
  <2> QED BY <1>3, <1>4
<1>6. Search(R, idx) = c
  BY <1>2 DEF Search
<1> QED
  BY <1>5, <1>6

\* What the recursion keeps: Start is 1 or starts at or below Idx, and every
\* range after End starts above it.  SearchCorrect is not inductive without it.
Inv ==
    /\ Ranges \in Lists /\ Idx \in Indexes
    /\ Start \in Nat \ {0} /\ End \in 0..Len(Ranges) /\ result \in Int
    /\ Start > 1 => Start <= Len(Ranges) /\ Ranges[Start].min <= Idx
    /\ \A k \in 1..Len(Ranges) : End < k => Idx < Ranges[k].min
    /\ SearchCorrect

\* The constants give every list its type.
LEMMA Typed ==
    ASSUME Ranges \in Lists, Idx \in Indexes
    PROVE  /\ Ranges \in Seq(Rng) /\ Normal(Ranges)
           /\ Idx \in Int /\ Len(Ranges) \in Nat
           /\ \A k \in 1..Len(Ranges) : Ranges[k].min \in Int
<1>1. Ranges \in Seq(Rng) /\ Normal(Ranges) /\ Idx \in Int
  BY ListsAssumption DEF Rng
<1>2. \A k \in 1..Len(Ranges) : Ranges[k] \in Rng
  BY <1>1
<1> QED
  BY <1>1, <1>2 DEF Rng

\* One level of the recursion keeps the invariant.
LEMMA Step == Inv /\ [Next]_vars => Inv'
<1> SUFFICES ASSUME Inv, [Next]_vars PROVE Inv'
  OBVIOUS
<1>t. /\ Ranges \in Seq(Rng) /\ Normal(Ranges)
      /\ Idx \in Int /\ Len(Ranges) \in Nat
      /\ \A k \in 1..Len(Ranges) : Ranges[k].min \in Int
  BY Typed DEF Inv
<1>i. /\ Ranges \in Lists /\ Idx \in Indexes
      /\ Start \in Nat \ {0} /\ End \in 0..Len(Ranges) /\ result \in Int
      /\ Start > 1 => Start <= Len(Ranges) /\ Ranges[Start].min <= Idx
      /\ \A k \in 1..Len(Ranges) : End < k => Idx < Ranges[k].min
      /\ SearchCorrect
  BY DEF Inv
<1>m. ASSUME Start <= End
      PROVE  Mid \in Start..End /\ Mid \in 1..Len(Ranges)
  BY <1>m, <1>i, <1>t DEF Mid
<1>1. CASE NothingLeft
  <2>1. Start > End /\ result' = 0 /\ UNCHANGED <<Ranges, Idx, Start, End>>
    BY <1>1 DEF NothingLeft
  <2>2. Start = 1
    BY <2>1, <1>i, <1>t
  <2>3. \A k \in 1..Len(Ranges) : Idx < Ranges[k].min
    BY <2>1, <2>2, <1>i, <1>t
  <2>4. ~ \E k \in DOMAIN Ranges : Ranges[k].min <= Idx
    BY <2>3, <1>t
  <2>5. Search(Ranges, Idx) = 0
    BY <2>4 DEF Search
  <2> QED
    BY <2>1, <2>5, <1>i DEF Inv, SearchCorrect, Searching
<1>2. CASE ReturnMid
  <2>1. Start <= End /\ Found /\ result' = Mid /\ UNCHANGED <<Ranges, Idx, Start, End>>
    BY <1>2 DEF ReturnMid
  <2>2. Mid \in 1..Len(Ranges)
    BY <1>m, <2>1
  <2>3. ASSUME NEW j \in 1..Len(Ranges), Mid < j
        PROVE  Idx < Ranges[j].min
    <3>1. Mid + 1 \in 1..Len(Ranges) /\ Mid + 1 <= j
      BY <2>2, <2>3
    <3>2. Ranges[Mid + 1].min <= Ranges[j].min
      BY <3>1, <1>t, MinsAscend
    <3>3. Idx < Ranges[Mid + 1].min
      BY <3>1, <2>1 DEF Found
    <3>4. Ranges[Mid + 1].min \in Int /\ Ranges[j].min \in Int /\ Idx \in Int
      BY <3>1, <1>t
    <3> QED
      BY <3>2, <3>3, <3>4
  <2>4. Ranges[Mid].min <= Idx
    BY <2>1, <2>2, <1>t DEF Found
  <2>5. Search(Ranges, Idx) = Mid
    BY <2>2, <2>3, <2>4, <1>t, SearchIs
  <2> QED
    BY <2>1, <2>2, <2>5, <1>i DEF Inv, SearchCorrect, Searching
<1>3. CASE LowerHalf
  <2>1. /\ Start <= End /\ Idx < Ranges[Mid].min /\ End' = Mid - 1
        /\ UNCHANGED <<Ranges, Idx, Start, result>>
    BY <1>3 DEF LowerHalf
  <2>2. Mid \in 1..Len(Ranges)
    BY <1>m, <2>1
  <2>3. ASSUME NEW k \in 1..Len(Ranges), Mid - 1 < k
        PROVE  Idx < Ranges[k].min
    <3>1. Ranges[Mid].min <= Ranges[k].min
      BY <2>2, <2>3, <1>t, MinsAscend
    <3>2. Ranges[Mid].min \in Int /\ Ranges[k].min \in Int /\ Idx \in Int
      BY <2>2, <1>t
    <3> QED
      BY <3>1, <3>2, <2>1
  <2>4. Mid - 1 \in 0..Len(Ranges)
    BY <2>2
  <2> QED
    BY <2>1, <2>3, <2>4, <1>i DEF Inv, SearchCorrect, Searching
<1>4. CASE UpperHalf
  <2>1. /\ Start <= End /\ ~Found /\ Idx >= Ranges[Mid].min /\ Start' = Mid + 1
        /\ UNCHANGED <<Ranges, Idx, End, result>>
    BY <1>4 DEF UpperHalf
  <2>2. Mid \in 1..Len(Ranges)
    BY <1>m, <2>1
  <2>3. Mid + 1 <= Len(Ranges) /\ Ranges[Mid + 1].min <= Idx
    BY <2>1, <2>2, <1>t DEF Found
  <2> QED
    BY <2>1, <2>2, <2>3, <1>i DEF Inv, SearchCorrect, Searching
<1>5. CASE UNCHANGED vars
  BY <1>5, <1>i DEF vars, Inv, SearchCorrect, Searching
<1> QED
  BY <1>1, <1>2, <1>3, <1>4, <1>5 DEF Next

\* Search returns the last range that starts at or below the index, whatever
\* the normal list and the index (BlockList.cpp:163-185).
THEOREM SearchCorrectTheorem == Spec => []SearchCorrect
<1>1. Init => Inv
  <2> SUFFICES ASSUME Init PROVE Inv
    OBVIOUS
  <2>1. /\ Ranges \in Lists /\ Idx \in Indexes /\ Start = 1
        /\ End = Len(Ranges) /\ result = -1
    BY DEF Init
  <2>2. Len(Ranges) \in Nat
    BY <2>1, Typed
  <2> QED
    BY <2>1, <2>2 DEF Inv, SearchCorrect, Searching
<1>2. Inv /\ [Next]_vars => Inv'
  BY Step
<1>3. Inv => SearchCorrect
  BY DEF Inv
<1> QED
  BY <1>1, <1>2, <1>3, PTL DEF Spec
=============================================================================
