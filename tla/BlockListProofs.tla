--------------------------- MODULE BlockListProofs ---------------------------
(***************************************************************************)
(* Theorems about BlockList.tla, for every bound MaxIdx.                   *)
(***************************************************************************)
EXTENDS BlockList, TLAPS, SequenceTheorems, FiniteSetTheorems, WellFoundedInduction

\* I is R with e before its place k, so that what was there is one place up.
IsInsert(I, R, k, e) ==
    /\ Len(I) = Len(R) + 1
    /\ \A i \in 1..(Len(R) + 1) :
          I[i] = IF i < k THEN R[i] ELSE IF i = k THEN e ELSE R[i - 1]

\* Inserting an element moves those behind it one place up.
LEMMA InsertAtLemma ==
    ASSUME NEW S, NEW R \in Seq(S), NEW k \in 1..(Len(R) + 1), NEW e \in S
    PROVE  InsertAt(R, k, e) \in Seq(S) /\ IsInsert(InsertAt(R, k, e), R, k, e)
<1> DEFINE A == SubSeq(R, 1, k - 1)
           B == SubSeq(R, k, Len(R))
           C == A \o <<e>>
           T == C \o B
<1>1. /\ A \in Seq(S) /\ Len(A) = k - 1
      /\ \A i \in 1..(k - 1) : A[i] = R[i]
  <2>1. \A i \in 1..(k - 1) : R[i] \in S
    OBVIOUS
  <2>2. /\ A \in Seq(S)
        /\ Len(A) = IF 1 <= k - 1 THEN (k - 1) - 1 + 1 ELSE 0
        /\ \A i \in 1..((k - 1) - 1 + 1) : A[i] = R[1 + i - 1]
    BY <2>1, SubSeqProperties
  <2> QED
    BY <2>2
<1>2. /\ B \in Seq(S) /\ Len(B) = Len(R) - k + 1
      /\ \A i \in 1..(Len(R) - k + 1) : B[i] = R[k + i - 1]
  <2>1. \A i \in k..Len(R) : R[i] \in S
    OBVIOUS
  <2>2. /\ B \in Seq(S)
        /\ Len(B) = IF k <= Len(R) THEN Len(R) - k + 1 ELSE 0
        /\ \A i \in 1..(Len(R) - k + 1) : B[i] = R[k + i - 1]
    BY <2>1, SubSeqProperties
  <2> QED
    BY <2>2
<1>3. <<e>> \in Seq(S) /\ Len(<<e>>) = 1 /\ <<e>>[1] = e
  OBVIOUS
<1> HIDE DEF A, B
<1>4. /\ C \in Seq(S) /\ Len(C) = k
      /\ \A i \in 1..k : C[i] = IF i < k THEN R[i] ELSE e
  <2>1. /\ C \in Seq(S)
        /\ Len(C) = Len(A) + Len(<<e>>)
        /\ \A i \in 1..(Len(A) + Len(<<e>>)) :
              C[i] = IF i <= Len(A) THEN A[i] ELSE <<e>>[i - Len(A)]
    BY <1>1, <1>3, ConcatProperties
  <2> QED
    BY <2>1, <1>1, <1>3
<1>5. InsertAt(R, k, e) = T
  BY DEF InsertAt, A, B
<1> HIDE DEF C
<1>6. /\ T \in Seq(S)
      /\ Len(T) = Len(C) + Len(B)
      /\ \A i \in 1..(Len(C) + Len(B)) :
            T[i] = IF i <= Len(C) THEN C[i] ELSE B[i - Len(C)]
  BY <1>2, <1>4, ConcatProperties
<1> HIDE DEF T
<1>7. Len(C) + Len(B) = Len(R) + 1
  BY <1>2, <1>4
<1>8. ASSUME NEW i \in 1..(Len(R) + 1)
      PROVE  T[i] = IF i < k THEN R[i] ELSE IF i = k THEN e ELSE R[i - 1]
  <2>1. CASE i <= k
    BY <2>1, <1>4, <1>6, <1>7
  <2>2. CASE i > k
    <3>1. T[i] = B[i - k]
      BY <2>2, <1>4, <1>6, <1>7
    <3>2. i - k \in 1..(Len(R) - k + 1) /\ k + (i - k) - 1 = i - 1
      BY <2>2
    <3>3. B[i - k] = R[k + (i - k) - 1]
      BY <3>2, <1>2
    <3>4. B[i - k] = R[i - 1]
      BY <3>2, <3>3
    <3> QED
      BY <2>2, <3>1, <3>4
  <2> QED
    BY <2>1, <2>2
<1>9. IsInsert(T, R, k, e)
  BY <1>6, <1>7, <1>8 DEF IsInsert
<1> QED
  BY <1>5, <1>6, <1>9

\* I is R without its place k, so that what was behind it is one place down.
IsRemove(I, R, k) ==
    /\ Len(I) = Len(R) - 1
    /\ \A i \in 1..(Len(R) - 1) : I[i] = IF i < k THEN R[i] ELSE R[i + 1]

\* Removing an element moves those behind it one place down.
LEMMA RemoveAtLemma ==
    ASSUME NEW S, NEW R \in Seq(S), NEW k \in 1..Len(R)
    PROVE  RemoveAt(R, k) \in Seq(S) /\ IsRemove(RemoveAt(R, k), R, k)
<1> DEFINE A == SubSeq(R, 1, k - 1)
           B == SubSeq(R, k + 1, Len(R))
           T == A \o B
<1>1. /\ A \in Seq(S) /\ Len(A) = k - 1
      /\ \A i \in 1..(k - 1) : A[i] = R[i]
  <2>1. \A i \in 1..(k - 1) : R[i] \in S
    OBVIOUS
  <2>2. /\ A \in Seq(S)
        /\ Len(A) = IF 1 <= k - 1 THEN (k - 1) - 1 + 1 ELSE 0
        /\ \A i \in 1..((k - 1) - 1 + 1) : A[i] = R[1 + i - 1]
    BY <2>1, SubSeqProperties
  <2> QED
    BY <2>2
<1>2. /\ B \in Seq(S) /\ Len(B) = Len(R) - k
      /\ \A i \in 1..(Len(R) - k) : B[i] = R[k + i]
  <2>1. \A i \in (k + 1)..Len(R) : R[i] \in S
    OBVIOUS
  <2>2. /\ B \in Seq(S)
        /\ Len(B) = IF k + 1 <= Len(R) THEN Len(R) - (k + 1) + 1 ELSE 0
        /\ \A i \in 1..(Len(R) - (k + 1) + 1) : B[i] = R[(k + 1) + i - 1]
    BY <2>1, SubSeqProperties
  <2> QED
    BY <2>2
<1>3. RemoveAt(R, k) = T
  BY DEF RemoveAt
<1> HIDE DEF A, B
<1>4. /\ T \in Seq(S)
      /\ Len(T) = Len(A) + Len(B)
      /\ \A i \in 1..(Len(A) + Len(B)) :
            T[i] = IF i <= Len(A) THEN A[i] ELSE B[i - Len(A)]
  BY <1>1, <1>2, ConcatProperties
<1> HIDE DEF T
<1>5. Len(A) + Len(B) = Len(R) - 1
  BY <1>1, <1>2
<1>6. ASSUME NEW i \in 1..(Len(R) - 1)
      PROVE  T[i] = IF i < k THEN R[i] ELSE R[i + 1]
  <2>1. CASE i < k
    BY <2>1, <1>1, <1>4, <1>5
  <2>2. CASE i >= k
    <3>1. T[i] = B[i - (k - 1)]
      BY <2>2, <1>1, <1>4, <1>5
    <3>2. i - (k - 1) \in 1..(Len(R) - k) /\ k + (i - (k - 1)) = i + 1
      BY <2>2
    <3>3. B[i - (k - 1)] = R[k + (i - (k - 1))]
      BY <3>2, <1>2
    <3>4. B[i - (k - 1)] = R[i + 1]
      BY <3>2, <3>3
    <3> QED
      BY <2>2, <3>1, <3>4
  <2> QED
    BY <2>1, <2>2
<1>7. IsRemove(T, R, k)
  BY <1>4, <1>5, <1>6 DEF IsRemove
<1> QED
  BY <1>3, <1>4, <1>7

\* The ranges: what a vector of ranges holds.
Rng == [min : Index, max : Index]

\* Overwriting an element and removing the one behind it commute.
LEMMA OverwriteRemoveLemma ==
    ASSUME NEW R \in Seq(Rng), NEW k \in 1..(Len(R) - 1), NEW g \in Rng
    PROVE  RemoveAt([R EXCEPT ![k] = g], k + 1) = [RemoveAt(R, k + 1) EXCEPT ![k] = g]
<1>1. PICK G : G = [R EXCEPT ![k] = g]
  OBVIOUS
<1>2. /\ G \in Seq(Rng) /\ Len(G) = Len(R)
      /\ \A i \in 1..Len(R) : G[i] = IF i = k THEN g ELSE R[i]
  BY <1>1
<1>k. k + 1 \in 1..Len(R)
  OBVIOUS
<1>3. PICK M : M = RemoveAt(R, k + 1)
  OBVIOUS
<1>4. /\ M \in Seq(Rng) /\ Len(M) = Len(R) - 1
      /\ \A i \in 1..(Len(R) - 1) : M[i] = IF i < k + 1 THEN R[i] ELSE R[i + 1]
  <2>1. RemoveAt(R, k + 1) \in Seq(Rng) /\ IsRemove(RemoveAt(R, k + 1), R, k + 1)
    BY <1>k, RemoveAtLemma, Zenon
  <2> QED
    BY <1>3, <2>1, Zenon DEF IsRemove
<1>5. PICK H : H = RemoveAt(G, k + 1)
  OBVIOUS
<1>6. /\ H \in Seq(Rng) /\ Len(H) = Len(G) - 1
      /\ \A i \in 1..(Len(G) - 1) : H[i] = IF i < k + 1 THEN G[i] ELSE G[i + 1]
  <2>1. G \in Seq(Rng) /\ k + 1 \in 1..Len(G)
    BY <1>2, <1>k
  <2>2. RemoveAt(G, k + 1) \in Seq(Rng) /\ IsRemove(RemoveAt(G, k + 1), G, k + 1)
    BY <2>1, RemoveAtLemma, Zenon
  <2> QED
    BY <1>5, <2>2, Zenon DEF IsRemove
<1>7. PICK N : N = [M EXCEPT ![k] = g]
  OBVIOUS
<1>8. /\ N \in Seq(Rng) /\ Len(N) = Len(M)
      /\ \A i \in 1..Len(M) : N[i] = IF i = k THEN g ELSE M[i]
  BY <1>4, <1>7
<1>9. ASSUME NEW i \in 1..(Len(R) - 1)
      PROVE  H[i] = N[i]
  <2>0. i \in 1..Len(R) /\ i + 1 \in 1..Len(R)
    OBVIOUS
  <2>1. H[i] = IF i < k + 1 THEN G[i] ELSE G[i + 1]
    BY <1>2, <1>6
  <2>2. N[i] = IF i = k THEN g ELSE M[i]
    BY <1>4, <1>8
  <2>3. M[i] = IF i < k + 1 THEN R[i] ELSE R[i + 1]
    BY <1>4
  <2>4. /\ G[i] = IF i = k THEN g ELSE R[i]
        /\ G[i + 1] = IF i + 1 = k THEN g ELSE R[i + 1]
    BY <1>2, <2>0
  <2> QED
    BY <2>1, <2>2, <2>3, <2>4
<1>10. Len(H) = Len(N) /\ \A i \in 1..Len(H) : H[i] = N[i]
  BY <1>2, <1>4, <1>6, <1>8, <1>9
<1>11. H = N
  BY <1>6, <1>8, <1>10, SeqEqual
<1> QED
  BY <1>1, <1>3, <1>5, <1>7, <1>11

\* Removing an element that was just inserted one place earlier, after
\* overwriting the inserted one, is overwriting in the old sequence.
LEMMA InsertRemoveLemma ==
    ASSUME NEW S, NEW R \in Seq(S), NEW k \in 1..Len(R), NEW e \in S, NEW g \in S
    PROVE  RemoveAt([InsertAt(R, k, e) EXCEPT ![k] = g], k + 1) = [R EXCEPT ![k] = g]
<1>1. PICK I : I = InsertAt(R, k, e)
  OBVIOUS
<1>k. k \in 1..(Len(R) + 1)
  OBVIOUS
<1>2. /\ I \in Seq(S) /\ Len(I) = Len(R) + 1
      /\ \A i \in 1..(Len(R) + 1) :
            I[i] = IF i < k THEN R[i] ELSE IF i = k THEN e ELSE R[i - 1]
  <2>1. InsertAt(R, k, e) \in Seq(S) /\ IsInsert(InsertAt(R, k, e), R, k, e)
    BY <1>k, InsertAtLemma, Zenon
  <2> QED
    BY <1>1, <2>1, Zenon DEF IsInsert
<1>3. PICK G : G = [I EXCEPT ![k] = g]
  OBVIOUS
<1>4. /\ G \in Seq(S) /\ Len(G) = Len(I)
      /\ \A i \in 1..Len(I) : G[i] = IF i = k THEN g ELSE I[i]
  BY <1>2, <1>3
<1>5. PICK H : H = RemoveAt(G, k + 1)
  OBVIOUS
<1>6. /\ H \in Seq(S) /\ Len(H) = Len(G) - 1
      /\ \A i \in 1..(Len(G) - 1) : H[i] = IF i < k + 1 THEN G[i] ELSE G[i + 1]
  <2>1. G \in Seq(S) /\ k + 1 \in 1..Len(G)
    BY <1>2, <1>4
  <2>2. RemoveAt(G, k + 1) \in Seq(S) /\ IsRemove(RemoveAt(G, k + 1), G, k + 1)
    BY <2>1, RemoveAtLemma, Zenon
  <2> QED
    BY <1>5, <2>2, Zenon DEF IsRemove
<1>7. PICK N : N = [R EXCEPT ![k] = g]
  OBVIOUS
<1>8. /\ N \in Seq(S) /\ Len(N) = Len(R)
      /\ \A i \in 1..Len(R) : N[i] = IF i = k THEN g ELSE R[i]
  BY <1>7
<1>9. ASSUME NEW i \in 1..Len(R)
      PROVE  H[i] = N[i]
  <2>0. i \in 1..(Len(R) + 1) /\ i + 1 \in 1..(Len(R) + 1) /\ (i + 1) - 1 = i
    OBVIOUS
  <2>1. H[i] = IF i < k + 1 THEN G[i] ELSE G[i + 1]
    BY <1>2, <1>4, <1>6
  <2>2. N[i] = IF i = k THEN g ELSE R[i]
    BY <1>8
  <2>3. /\ G[i] = IF i = k THEN g ELSE I[i]
        /\ G[i + 1] = IF i + 1 = k THEN g ELSE I[i + 1]
    BY <1>2, <1>4, <2>0
  <2>4. i < k => I[i] = R[i]
    BY <1>2, <2>0
  <2>5. i + 1 > k => I[i + 1] = R[(i + 1) - 1]
    BY <1>2, <2>0
  <2>6. i + 1 > k => I[i + 1] = R[i]
    BY <2>0, <2>5
  <2> QED
    BY <2>1, <2>2, <2>3, <2>4, <2>6
<1>10. Len(H) = Len(N) /\ \A i \in 1..Len(H) : H[i] = N[i]
  BY <1>2, <1>4, <1>6, <1>8, <1>9
<1>11. H = N
  BY <1>6, <1>8, <1>10, SeqEqual
<1> QED
  BY <1>1, <1>3, <1>5, <1>7, <1>11
-----------------------------------------------------------------------------
\* A nonempty set of naturals has a least element.
LEMMA LeastNat ==
    ASSUME NEW T, T \subseteq Nat, T # {}
    PROVE  \E x \in T : \A y \in T : x <= y
<1>1. PICK x \in T : \A y \in T : <<y, x>> \notin OpToRel(<, Nat)
  BY NatLessThanWellFounded, WFMin
<1>2. \A y \in T : ~ (y < x)
  BY <1>1, Zenon DEF OpToRel
<1> QED
  BY <1>2

\* Search finds the last range that starts at or below idx, or none does.
LEMMA SearchLemma ==
    ASSUME NEW R \in Seq(Rng), NEW idx \in Index
    PROVE  /\ Search(R, idx) \in 0..Len(R)
           /\ Search(R, idx) > 0 => R[Search(R, idx)].min <= idx
           /\ \A j \in 1..Len(R) : j > Search(R, idx) => idx < R[j].min
<1>1. \A j \in 1..Len(R) : R[j].min \in Int
  <2>1. \A j \in 1..Len(R) : R[j] \in Rng
    OBVIOUS
  <2> QED
    BY <2>1, MaxIdxAssumption DEF Rng, Index
<1>i. idx \in Int
  BY MaxIdxAssumption DEF Index
<1>2. CASE \E k \in DOMAIN R : R[k].min <= idx
  <2> DEFINE T == {Len(R) - k : k \in {i \in 1..Len(R) : R[i].min <= idx}}
  <2>1. T \subseteq Nat /\ T # {}
    BY <1>2
  <2>2. PICK x \in T : \A y \in T : x <= y
    <3> HIDE DEF T
    <3> QED BY <2>1, LeastNat
  <2>3. PICK k \in 1..Len(R) : x = Len(R) - k /\ R[k].min <= idx
    BY <2>2
  <2>4. \A j \in DOMAIN R : R[j].min <= idx => j <= k
    <3> SUFFICES ASSUME NEW j \in 1..Len(R), R[j].min <= idx
                 PROVE  j <= k
      OBVIOUS
    <3>1. Len(R) - j \in T
      OBVIOUS
    <3>2. Len(R) - k <= Len(R) - j
      <4> HIDE DEF T
      <4> QED BY <3>1, <2>2, <2>3
    <3> QED
      BY <3>2
  <2> DEFINE s == CHOOSE i \in DOMAIN R :
                     /\ R[i].min <= idx
                     /\ \A j \in DOMAIN R : R[j].min <= idx => j <= i
  <2>5. /\ s \in DOMAIN R /\ R[s].min <= idx
        /\ \A j \in DOMAIN R : R[j].min <= idx => j <= s
    <3> DEFINE P(i) == /\ i \in DOMAIN R /\ R[i].min <= idx
                       /\ \A j \in DOMAIN R : R[j].min <= idx => j <= i
    <3>1. \E i \in DOMAIN R : P(i)
      BY <2>3, <2>4
    <3> QED
      BY <3>1, Zenon
  <2>6. Search(R, idx) = s
    BY <1>2 DEF Search
  <2> HIDE DEF s
  <2>7. /\ Search(R, idx) \in 1..Len(R) /\ R[Search(R, idx)].min <= idx
        /\ \A j \in 1..Len(R) : R[j].min <= idx => j <= Search(R, idx)
    BY <2>5, <2>6
  <2> QED
    BY <1>1, <1>i, <2>7
<1>3. CASE ~ \E k \in DOMAIN R : R[k].min <= idx
  BY <1>1, <1>i, <1>3 DEF Search
<1> QED
  BY <1>2, <1>3
-----------------------------------------------------------------------------
(* How the three edits of the vector change the set the ranges stand for. *)

In(r, i) == r.min <= i /\ i <= r.max

\* The ends of a range are indexes, so integers.
LEMMA RngLemma ==
    ASSUME NEW r \in Rng
    PROVE  r.min \in Index /\ r.max \in Index /\ r.min \in Int /\ r.max \in Int
  BY MaxIdxAssumption DEF Rng, Index

\* A range made of two indexes has them as its ends.
LEMMA Range_Lemma ==
    ASSUME NEW lo \in Index, NEW hi \in Index
    PROVE  Range_(lo, hi) \in Rng /\ Range_(lo, hi).min = lo /\ Range_(lo, hi).max = hi
  BY DEF Range_, Rng

\* Writing one end of a range.
LEMMA FieldLemma ==
    ASSUME NEW r \in Rng, NEW v
    PROVE  /\ [r EXCEPT !.min = v] = Range_(v, r.max)
           /\ [r EXCEPT !.max = v] = Range_(r.min, v)
  BY DEF Range_, Rng

\* An index is allocated when some range holds it.
LEMMA AllocatedLemma ==
    ASSUME NEW R \in Seq(Rng), NEW i
    PROVE  i \in Allocated(R) <=> i \in Index /\ \E k \in 1..Len(R) : In(R[k], i)
  BY DEF Allocated, In

\* A range may be replaced by one that stays clear of the others.
LEMMA ReplaceLemma ==
    ASSUME NEW R \in Seq(Rng), Normal(R), NEW k \in 1..Len(R),
           NEW e \in Rng, e.min <= e.max,
           \A j \in 1..Len(R) : j < k => R[j].max + 1 < e.min,
           \A j \in 1..Len(R) : k < j => e.max + 1 < R[j].min
    PROVE  /\ [R EXCEPT ![k] = e] \in Seq(Rng)
           /\ Normal([R EXCEPT ![k] = e])
           /\ \A i \in Index : i \in Allocated([R EXCEPT ![k] = e]) <=>
                 In(e, i) \/ (i \in Allocated(R) /\ ~ In(R[k], i))
<1>0. PICK Q : Q = [R EXCEPT ![k] = e]
  OBVIOUS
<1>1. /\ Q \in Seq(Rng) /\ Len(Q) = Len(R)
      /\ \A j \in 1..Len(R) : Q[j] = IF j = k THEN e ELSE R[j]
  BY <1>0
<1>n. /\ \A j \in 1..Len(R) : R[j].min <= R[j].max
      /\ \A i, j \in 1..Len(R) : i < j => R[i].max + 1 < R[j].min
  BY DEF Normal
<1>2. \A j \in 1..Len(R) : R[j] \in Rng
  OBVIOUS
<1>3. Normal(Q)
  <2>1. \A j \in 1..Len(R) : Q[j].min <= Q[j].max
    BY <1>1, <1>n
  <2>2. \A i, j \in 1..Len(R) : i < j => Q[i].max + 1 < Q[j].min
    BY <1>1, <1>n
  <2>3. DOMAIN Q = 1..Len(R)
    BY <1>1
  <2> QED
    BY <2>1, <2>2, <2>3, Zenon DEF Normal
<1>4. ASSUME NEW i \in Index
      PROVE  i \in Allocated(Q) <=> In(e, i) \/ (i \in Allocated(R) /\ ~ In(R[k], i))
  <2>1. i \in Allocated(Q) <=> \E j \in 1..Len(R) : In(Q[j], i)
    BY <1>1, AllocatedLemma
  <2>2. i \in Allocated(R) <=> \E j \in 1..Len(R) : In(R[j], i)
    BY AllocatedLemma
  <2>3. \A j \in 1..Len(R) : j # k /\ In(R[j], i) => ~ In(R[k], i)
    <3> SUFFICES ASSUME NEW j \in 1..Len(R), j # k, In(R[j], i), In(R[k], i)
                 PROVE  FALSE
      OBVIOUS
    <3>1. R[j].max + 1 < R[k].min \/ R[k].max + 1 < R[j].min
      BY <1>2 DEF Normal
    <3>2. i \in Int
      BY MaxIdxAssumption DEF Index
    <3> QED
      BY <3>1, <3>2, <1>2, RngLemma DEF In
  <2>4. (\E j \in 1..Len(R) : In(Q[j], i)) <=>
           In(e, i) \/ \E j \in 1..Len(R) : j # k /\ In(R[j], i)
    BY <1>1
  <2> QED
    BY <2>1, <2>2, <2>3, <2>4
<1> QED
  BY <1>0, <1>1, <1>3, <1>4

\* A range may be inserted between its neighbours.
LEMMA InsertLemma ==
    ASSUME NEW R \in Seq(Rng), Normal(R), NEW k \in 1..(Len(R) + 1),
           NEW e \in Rng, e.min <= e.max,
           \A j \in 1..Len(R) : j < k => R[j].max + 1 < e.min,
           \A j \in 1..Len(R) : k <= j => e.max + 1 < R[j].min
    PROVE  /\ InsertAt(R, k, e) \in Seq(Rng)
           /\ Normal(InsertAt(R, k, e))
           /\ \A i \in Index : i \in Allocated(InsertAt(R, k, e)) <=>
                 In(e, i) \/ i \in Allocated(R)
<1>0. PICK Q : Q = InsertAt(R, k, e)
  OBVIOUS
<1>1. /\ Q \in Seq(Rng) /\ Len(Q) = Len(R) + 1
      /\ \A i \in 1..(Len(R) + 1) :
            Q[i] = IF i < k THEN R[i] ELSE IF i = k THEN e ELSE R[i - 1]
  <2>1. InsertAt(R, k, e) \in Seq(Rng) /\ IsInsert(InsertAt(R, k, e), R, k, e)
    BY InsertAtLemma, Zenon
  <2> QED
    BY <1>0, <2>1, Zenon DEF IsInsert
<1>l. \A i \in 1..(Len(R) + 1) : i < k => Q[i] = R[i]
  BY <1>1
<1>m. Q[k] = e
  BY <1>1
<1>h. \A i \in 1..(Len(R) + 1) : i > k => Q[i] = R[i - 1]
  BY <1>1
<1>n. /\ \A j \in 1..Len(R) : R[j].min <= R[j].max
      /\ \A i, j \in 1..Len(R) : i < j => R[i].max + 1 < R[j].min
  BY DEF Normal
<1>2. \A j \in 1..Len(R) : R[j] \in Rng
  OBVIOUS
<1>3. \A j \in 1..(Len(R) + 1) : Q[j].min <= Q[j].max
  <2> SUFFICES ASSUME NEW j \in 1..(Len(R) + 1)
               PROVE  Q[j].min <= Q[j].max
    OBVIOUS
  <2>1. CASE j < k
    BY <1>l, <1>n, <2>1
  <2>2. CASE j = k
    BY <1>m, <2>2
  <2>3. CASE j > k
    <3>1. j - 1 \in 1..Len(R) /\ Q[j] = R[j - 1]
      BY <1>h, <2>3
    <3> QED
      BY <1>n, <3>1
  <2> QED
    BY <2>1, <2>2, <2>3
<1>4. ASSUME NEW i \in 1..(Len(R) + 1), NEW j \in 1..(Len(R) + 1), i < j
      PROVE  Q[i].max + 1 < Q[j].min
  <2>1. CASE i < k /\ j < k
    <3>1. Q[i] = R[i] /\ Q[j] = R[j] /\ i \in 1..Len(R) /\ j \in 1..Len(R)
      BY <1>l, <2>1
    <3> QED
      BY <1>n, <1>4, <3>1
  <2>2. CASE i < k /\ j = k
    BY <1>l, <1>m, <1>4, <2>2
  <2>3. CASE i < k /\ j > k
    <3>1. j - 1 \in 1..Len(R) /\ i \in 1..Len(R) /\ i < j - 1
      BY <2>3
    <3>2. Q[i] = R[i] /\ Q[j] = R[j - 1]
      BY <1>l, <1>h, <2>3
    <3> QED
      BY <1>n, <3>1, <3>2
  <2>4. CASE i = k /\ j > k
    <3>1. j - 1 \in 1..Len(R) /\ k <= j - 1
      BY <2>4
    <3>2. Q[i] = e /\ Q[j] = R[j - 1]
      BY <1>m, <1>h, <2>4
    <3> QED
      BY <3>1, <3>2
  <2>5. CASE i > k /\ j > k
    <3>1. j - 1 \in 1..Len(R) /\ i - 1 \in 1..Len(R) /\ i - 1 < j - 1
      BY <1>4, <2>5
    <3>2. Q[i] = R[i - 1] /\ Q[j] = R[j - 1]
      BY <1>h, <2>5
    <3> QED
      BY <1>n, <3>1, <3>2
  <2> QED
    BY <1>4, <2>1, <2>2, <2>3, <2>4, <2>5
<1>5. Normal(Q)
  BY <1>1, <1>3, <1>4 DEF Normal
<1>6. ASSUME NEW i \in Index
      PROVE  i \in Allocated(Q) <=> In(e, i) \/ i \in Allocated(R)
  <2>1. i \in Allocated(Q) <=> \E j \in 1..(Len(R) + 1) : In(Q[j], i)
    BY <1>1, AllocatedLemma
  <2>2. i \in Allocated(R) <=> \E j \in 1..Len(R) : In(R[j], i)
    BY AllocatedLemma
  <2>3. ASSUME NEW j \in 1..(Len(R) + 1), In(Q[j], i)
        PROVE  In(e, i) \/ \E h \in 1..Len(R) : In(R[h], i)
    <3>1. CASE j < k
      BY <1>l, <2>3, <3>1
    <3>2. CASE j = k
      BY <1>m, <2>3, <3>2
    <3>3. CASE j > k
      <4>1. j - 1 \in 1..Len(R) /\ Q[j] = R[j - 1]
        BY <1>h, <3>3
      <4> QED
        BY <2>3, <4>1
    <3> QED
      BY <3>1, <3>2, <3>3
  <2>4. ASSUME NEW j \in 1..Len(R), In(R[j], i)
        PROVE  \E h \in 1..(Len(R) + 1) : In(Q[h], i)
    <3>1. CASE j < k
      BY <1>l, <2>4, <3>1
    <3>2. CASE j >= k
      <4>1. j + 1 \in 1..(Len(R) + 1) /\ (j + 1) - 1 = j
        OBVIOUS
      <4>2. Q[j + 1] = R[j]
        BY <1>h, <3>2, <4>1
      <4> QED
        BY <2>4, <4>1, <4>2
    <3> QED
      BY <3>1, <3>2
  <2>5. In(Q[k], i) <=> In(e, i)
    BY <1>m
  <2> QED
    BY <2>1, <2>2, <2>3, <2>4, <2>5
<1> QED
  BY <1>0, <1>1, <1>5, <1>6

\* Removing a range frees its indexes and no other.
LEMMA RemoveLemma ==
    ASSUME NEW R \in Seq(Rng), Normal(R), NEW k \in 1..Len(R)
    PROVE  /\ RemoveAt(R, k) \in Seq(Rng)
           /\ Normal(RemoveAt(R, k))
           /\ \A i \in Index : i \in Allocated(RemoveAt(R, k)) <=>
                 i \in Allocated(R) /\ ~ In(R[k], i)
<1>0. PICK Q : Q = RemoveAt(R, k)
  OBVIOUS
<1>1. /\ Q \in Seq(Rng) /\ Len(Q) = Len(R) - 1
      /\ \A i \in 1..(Len(R) - 1) : Q[i] = IF i < k THEN R[i] ELSE R[i + 1]
  <2>1. RemoveAt(R, k) \in Seq(Rng) /\ IsRemove(RemoveAt(R, k), R, k)
    BY RemoveAtLemma, Zenon
  <2> QED
    BY <1>0, <2>1, Zenon DEF IsRemove
<1>l. \A i \in 1..(Len(R) - 1) : i < k => Q[i] = R[i]
  BY <1>1
<1>h. \A i \in 1..(Len(R) - 1) : i >= k => Q[i] = R[i + 1]
  BY <1>1
<1>n. /\ \A j \in 1..Len(R) : R[j].min <= R[j].max
      /\ \A i, j \in 1..Len(R) : i < j => R[i].max + 1 < R[j].min
  BY DEF Normal
<1>2. \A j \in 1..Len(R) : R[j] \in Rng
  OBVIOUS
<1>3. \A j \in 1..(Len(R) - 1) : j \in 1..Len(R) /\ j + 1 \in 1..Len(R)
  OBVIOUS
<1>4. Normal(Q)
  <2>1. ASSUME NEW j \in 1..(Len(R) - 1)
        PROVE  Q[j].min <= Q[j].max
    <3>1. Q[j] = R[j] \/ Q[j] = R[j + 1]
      BY <1>l, <1>h
    <3> QED
      BY <1>3, <1>n, <3>1
  <2>2. ASSUME NEW i \in 1..(Len(R) - 1), NEW j \in 1..(Len(R) - 1), i < j
        PROVE  Q[i].max + 1 < Q[j].min
    <3>1. CASE j < k
      <4>1. Q[i] = R[i] /\ Q[j] = R[j]
        BY <1>l, <2>2, <3>1
      <4> QED
        BY <1>3, <1>n, <2>2, <4>1
    <3>2. CASE i < k /\ j >= k
      <4>1. Q[i] = R[i] /\ Q[j] = R[j + 1] /\ i < j + 1
        BY <1>l, <1>h, <2>2, <3>2
      <4> QED
        BY <1>3, <1>n, <4>1
    <3>3. CASE i >= k
      <4>1. Q[i] = R[i + 1] /\ Q[j] = R[j + 1] /\ i + 1 < j + 1
        BY <1>h, <2>2, <3>3
      <4> QED
        BY <1>3, <1>n, <4>1
    <3> QED
      BY <3>1, <3>2, <3>3
  <2>3. DOMAIN Q = 1..(Len(R) - 1)
    BY <1>1
  <2> QED
    BY <2>1, <2>2, <2>3, Zenon DEF Normal
<1>5. ASSUME NEW i \in Index
      PROVE  i \in Allocated(Q) <=> i \in Allocated(R) /\ ~ In(R[k], i)
  <2>1. i \in Allocated(Q) <=> \E j \in 1..(Len(R) - 1) : In(Q[j], i)
    BY <1>1, AllocatedLemma
  <2>2. i \in Allocated(R) <=> \E j \in 1..Len(R) : In(R[j], i)
    BY AllocatedLemma
  <2>3. \A j \in 1..Len(R) : j # k /\ In(R[j], i) => ~ In(R[k], i)
    <3> SUFFICES ASSUME NEW j \in 1..Len(R), j # k, In(R[j], i), In(R[k], i)
                 PROVE  FALSE
      OBVIOUS
    <3>1. R[j].max + 1 < R[k].min \/ R[k].max + 1 < R[j].min
      BY <1>2 DEF Normal
    <3>2. i \in Int
      BY MaxIdxAssumption DEF Index
    <3> QED
      BY <3>1, <3>2, <1>2, RngLemma DEF In
  <2>4. ASSUME NEW j \in 1..(Len(R) - 1), In(Q[j], i)
        PROVE  \E h \in 1..Len(R) : h # k /\ In(R[h], i)
    <3>1. CASE j < k
      BY <1>l, <1>3, <2>4, <3>1
    <3>2. CASE j >= k
      BY <1>h, <1>3, <2>4, <3>2
    <3> QED
      BY <3>1, <3>2
  <2>5. ASSUME NEW j \in 1..Len(R), j # k, In(R[j], i)
        PROVE  \E h \in 1..(Len(R) - 1) : In(Q[h], i)
    <3>1. CASE j < k
      BY <1>l, <2>5, <3>1
    <3>2. CASE j > k
      <4>1. j - 1 \in 1..(Len(R) - 1) /\ (j - 1) + 1 = j /\ ~ (j - 1 < k)
        BY <3>2
      <4>2. Q[j - 1] = R[(j - 1) + 1]
        BY <1>h, <4>1
      <4>3. Q[j - 1] = R[j]
        BY <4>1, <4>2
      <4> QED
        BY <2>5, <4>1, <4>3
    <3> QED
      BY <2>5, <3>1, <3>2
  <2> QED
    BY <2>1, <2>2, <2>3, <2>4, <2>5
<1> QED
  BY <1>0, <1>1, <1>4, <1>5
-----------------------------------------------------------------------------
(* What Free, MarkAllocated and Alloc do to the vector. *)

\* Free takes its index out of the range that holds it, and nothing else.
LEMMA ShrinkLemma ==
    ASSUME NEW R \in Seq(Rng), Normal(R), NEW k \in 1..Len(R),
           NEW idx \in Index, In(R[k], idx)
    PROVE  /\ Shrink(R, k, idx) \in Seq(Rng)
           /\ Normal(Shrink(R, k, idx))
           /\ \A i \in Index : i \in Allocated(Shrink(R, k, idx)) <=>
                 i \in Allocated(R) /\ i # idx
<1>n. /\ \A j \in 1..Len(R) : R[j].min <= R[j].max
      /\ \A i, j \in 1..Len(R) : i < j => R[i].max + 1 < R[j].min
  BY DEF Normal
<1>1. \A j \in 1..Len(R) : /\ R[j] \in Rng
                           /\ R[j].min \in Index /\ R[j].max \in Index
                           /\ R[j].min \in Int /\ R[j].max \in Int
  BY RngLemma
<1>2. Index \subseteq Int /\ \A i \in Index : 0 <= i /\ i <= MaxIdx
  BY MaxIdxAssumption DEF Index
<1>3. R[k].min <= idx /\ idx <= R[k].max
  BY DEF In
<1>a. \A i \in Index : In(R[k], i) => i \in Allocated(R)
  BY AllocatedLemma
<1>4. CASE R[k].min = idx /\ R[k].max = idx
  <2>1. Shrink(R, k, idx) = RemoveAt(R, k)
    BY <1>4 DEF Shrink
  <2>2. \A i \in Index : In(R[k], i) <=> i = idx
    BY <1>2, <1>4 DEF In
  <2> QED
    BY <2>1, <2>2, RemoveLemma
<1>5. CASE R[k].min = idx /\ R[k].max # idx
  <2> DEFINE e == Range_(idx + 1, R[k].max)
  <2>1. idx + 1 \in Index /\ idx + 1 <= R[k].max
    BY <1>1, <1>2, <1>3, <1>5, MaxIdxAssumption DEF Index
  <2>2. e \in Rng /\ e.min = idx + 1 /\ e.max = R[k].max
    BY <2>1, <1>1, Range_Lemma
  <2>3. [R EXCEPT ![k].min = idx + 1] = [R EXCEPT ![k] = e]
    <3>1. [R[k] EXCEPT !.min = idx + 1] = e
      BY <1>1, FieldLemma
    <3> QED
      BY <3>1
  <2>4. Shrink(R, k, idx) = [R EXCEPT ![k] = e]
    BY <1>5, <2>3 DEF Shrink
  <2> HIDE DEF e
  <2>5. /\ \A j \in 1..Len(R) : j < k => R[j].max + 1 < e.min
        /\ \A j \in 1..Len(R) : k < j => e.max + 1 < R[j].min
    BY <1>n, <1>1, <1>2, <1>5, <2>2
  <2>6. \A i \in Index : In(R[k], i) /\ ~ In(e, i) <=> i = idx
    BY <1>1, <1>2, <1>3, <1>5, <2>2 DEF In
  <2>7. \A i \in Index : In(e, i) => In(R[k], i)
    BY <1>1, <1>2, <1>5, <2>2 DEF In
  <2>8. e.min <= e.max
    BY <2>1, <2>2
  <2>9. /\ [R EXCEPT ![k] = e] \in Seq(Rng)
        /\ Normal([R EXCEPT ![k] = e])
        /\ \A i \in Index : i \in Allocated([R EXCEPT ![k] = e]) <=>
              In(e, i) \/ (i \in Allocated(R) /\ ~ In(R[k], i))
    BY <2>2, <2>5, <2>8, ReplaceLemma
  <2> QED
    BY <2>4, <2>6, <2>7, <2>9, <1>a
<1>6. CASE R[k].min # idx /\ R[k].max = idx
  <2> DEFINE e == Range_(R[k].min, idx - 1)
  <2>1. idx - 1 \in Index /\ R[k].min <= idx - 1
    BY <1>1, <1>2, <1>3, <1>6, MaxIdxAssumption DEF Index
  <2>2. e \in Rng /\ e.min = R[k].min /\ e.max = idx - 1
    BY <2>1, <1>1, Range_Lemma
  <2>3. [R EXCEPT ![k].max = idx - 1] = [R EXCEPT ![k] = e]
    <3>1. [R[k] EXCEPT !.max = idx - 1] = e
      BY <1>1, FieldLemma
    <3> QED
      BY <3>1
  <2>4. Shrink(R, k, idx) = [R EXCEPT ![k] = e]
    BY <1>6, <2>3 DEF Shrink
  <2> HIDE DEF e
  <2>5. /\ \A j \in 1..Len(R) : j < k => R[j].max + 1 < e.min
        /\ \A j \in 1..Len(R) : k < j => e.max + 1 < R[j].min
    BY <1>n, <1>1, <1>2, <1>6, <2>2
  <2>6. \A i \in Index : In(R[k], i) /\ ~ In(e, i) <=> i = idx
    BY <1>1, <1>2, <1>3, <1>6, <2>2 DEF In
  <2>7. \A i \in Index : In(e, i) => In(R[k], i)
    BY <1>1, <1>2, <1>6, <2>2 DEF In
  <2>8. e.min <= e.max
    BY <2>1, <2>2
  <2>9. /\ [R EXCEPT ![k] = e] \in Seq(Rng)
        /\ Normal([R EXCEPT ![k] = e])
        /\ \A i \in Index : i \in Allocated([R EXCEPT ![k] = e]) <=>
              In(e, i) \/ (i \in Allocated(R) /\ ~ In(R[k], i))
    BY <2>2, <2>5, <2>8, ReplaceLemma
  <2> QED
    BY <2>4, <2>6, <2>7, <2>9, <1>a
<1>7. CASE R[k].min # idx /\ R[k].max # idx
  <2> DEFINE e == Range_(R[k].min, idx - 1)
             f == Range_(idx + 1, R[k].max)
             L == [R EXCEPT ![k] = e]
  <2>1. /\ idx - 1 \in Index /\ R[k].min <= idx - 1
        /\ idx + 1 \in Index /\ idx + 1 <= R[k].max
    BY <1>1, <1>2, <1>3, <1>7, MaxIdxAssumption DEF Index
  <2>2. /\ e \in Rng /\ e.min = R[k].min /\ e.max = idx - 1
        /\ f \in Rng /\ f.min = idx + 1 /\ f.max = R[k].max
    BY <2>1, <1>1, Range_Lemma
  <2>3. [R EXCEPT ![k].max = idx - 1] = L
    <3>1. [R[k] EXCEPT !.max = idx - 1] = e
      BY <1>1, FieldLemma
    <3> QED
      BY <3>1
  <2>4. Shrink(R, k, idx) = InsertAt(L, k + 1, f)
    BY <1>7, <2>3 DEF Shrink
  <2> HIDE DEF e, f
  <2>5. /\ \A j \in 1..Len(R) : j < k => R[j].max + 1 < e.min
        /\ \A j \in 1..Len(R) : k < j => e.max + 1 < R[j].min
    BY <1>n, <1>1, <1>2, <1>3, <2>1, <2>2
  <2>8. e.min <= e.max /\ f.min <= f.max
    BY <2>1, <2>2
  <2>9. /\ L \in Seq(Rng)
        /\ Normal(L)
        /\ \A i \in Index : i \in Allocated(L) <=>
              In(e, i) \/ (i \in Allocated(R) /\ ~ In(R[k], i))
    BY <2>2, <2>5, <2>8, ReplaceLemma
  <2>10. /\ Len(L) = Len(R) /\ k + 1 \in 1..(Len(L) + 1)
         /\ \A j \in 1..Len(R) : L[j] = IF j = k THEN e ELSE R[j]
    OBVIOUS
  <2> HIDE DEF L
  <2>11. ASSUME NEW j \in 1..Len(L)
         PROVE  /\ j < k + 1 => L[j].max + 1 < f.min
                /\ k + 1 <= j => f.max + 1 < L[j].min
    <3>1. CASE j < k
      <4>1. L[j] = R[j] /\ R[j].max + 1 < R[k].min
        BY <1>n, <2>10, <3>1
      <4> QED
        BY <1>1, <1>2, <1>3, <2>2, <2>10, <3>1, <4>1
    <3>2. CASE j = k
      BY <1>1, <1>2, <2>1, <2>2, <2>10, <3>2
    <3>3. CASE j > k
      <4>1. L[j] = R[j] /\ R[k].max + 1 < R[j].min
        BY <1>n, <2>10, <3>3
      <4> QED
        BY <2>2, <2>10, <3>3, <4>1
    <3> QED
      BY <2>10, <3>1, <3>2, <3>3
  <2>12. /\ InsertAt(L, k + 1, f) \in Seq(Rng)
         /\ Normal(InsertAt(L, k + 1, f))
         /\ \A i \in Index : i \in Allocated(InsertAt(L, k + 1, f)) <=>
               In(f, i) \/ i \in Allocated(L)
    BY <2>2, <2>8, <2>9, <2>10, <2>11, InsertLemma
  <2>6. \A i \in Index : In(R[k], i) /\ ~ In(e, i) /\ ~ In(f, i) <=> i = idx
    BY <1>1, <1>2, <1>3, <2>2 DEF In
  <2>7. \A i \in Index : (In(e, i) => In(R[k], i)) /\ (In(f, i) => In(R[k], i))
    <3> SUFFICES ASSUME NEW i \in Index
                 PROVE  (In(e, i) => In(R[k], i)) /\ (In(f, i) => In(R[k], i))
      OBVIOUS
    <3>1. i \in Int /\ idx \in Int /\ R[k].min \in Int /\ R[k].max \in Int
      BY <1>1, <1>2
    <3> QED
      BY <1>3, <2>2, <3>1 DEF In
  <2> QED
    BY <2>4, <2>6, <2>7, <2>9, <2>12, <1>a
<1> QED
  BY <1>4, <1>5, <1>6, <1>7

\* Stretching range k over range k + 1 and removing that one fills the gap
\* between them.
LEMMA AbsorbLemma ==
    ASSUME NEW R \in Seq(Rng), Normal(R), NEW k \in 1..(Len(R) - 1),
           NEW g \in Rng, g.min = R[k].min, g.max = R[k + 1].max
    PROVE  LET H == RemoveAt([R EXCEPT ![k] = g], k + 1)
           IN  /\ H \in Seq(Rng) /\ Normal(H)
               /\ \A i \in Index : i \in Allocated(H) <=>
                     i \in Allocated(R) \/ (R[k].max < i /\ i < R[k + 1].min)
<1>0. PICK M : M = RemoveAt(R, k + 1)
  OBVIOUS
<1>k. k \in 1..Len(R) /\ k + 1 \in 1..Len(R)
  OBVIOUS
<1>n. /\ \A j \in 1..Len(R) : R[j].min <= R[j].max
      /\ \A i, j \in 1..Len(R) : i < j => R[i].max + 1 < R[j].min
  BY DEF Normal
<1>1. \A j \in 1..Len(R) : /\ R[j] \in Rng
                           /\ R[j].min \in Int /\ R[j].max \in Int
  BY RngLemma
<1>2. Index \subseteq Int
  BY MaxIdxAssumption DEF Index
<1>3. /\ M \in Seq(Rng) /\ Len(M) = Len(R) - 1 /\ Normal(M)
      /\ \A i \in 1..(Len(R) - 1) : M[i] = IF i < k + 1 THEN R[i] ELSE R[i + 1]
      /\ \A i \in Index : i \in Allocated(M) <=> i \in Allocated(R) /\ ~ In(R[k + 1], i)
  <2>1. /\ Len(M) = Len(R) - 1
        /\ \A i \in 1..(Len(R) - 1) : M[i] = IF i < k + 1 THEN R[i] ELSE R[i + 1]
    <3>1. RemoveAt(R, k + 1) \in Seq(Rng) /\ IsRemove(RemoveAt(R, k + 1), R, k + 1)
      BY <1>k, RemoveAtLemma, Zenon
    <3> QED
      BY <1>0, <3>1, Zenon DEF IsRemove
  <2>2. /\ M \in Seq(Rng) /\ Normal(M)
        /\ \A i \in Index : i \in Allocated(M) <=> i \in Allocated(R) /\ ~ In(R[k + 1], i)
    <3>1. /\ RemoveAt(R, k + 1) \in Seq(Rng) /\ Normal(RemoveAt(R, k + 1))
          /\ \A i \in Index : i \in Allocated(RemoveAt(R, k + 1)) <=>
                i \in Allocated(R) /\ ~ In(R[k + 1], i)
      BY <1>k, RemoveLemma, Zenon
    <3> QED
      BY <1>0, <3>1, Zenon
  <2> QED
    BY <2>1, <2>2
<1>4. RemoveAt([R EXCEPT ![k] = g], k + 1) = [M EXCEPT ![k] = g]
  BY <1>0, OverwriteRemoveLemma
<1>5. k \in 1..Len(M) /\ M[k] = R[k]
  BY <1>3
<1>6. g.min <= g.max
  BY <1>n, <1>1, <1>k
<1>7. ASSUME NEW j \in 1..Len(M)
      PROVE  /\ j < k => M[j].max + 1 < g.min
             /\ k < j => g.max + 1 < M[j].min
  <2>1. CASE j < k
    <3>1. M[j] = R[j]
      BY <1>3, <2>1
    <3> QED
      BY <1>n, <1>k, <1>3, <2>1, <3>1
  <2>2. CASE j > k
    <3>1. M[j] = R[j + 1] /\ j + 1 \in 1..Len(R) /\ k + 1 < j + 1
      BY <1>3, <2>2
    <3> QED
      BY <1>n, <1>k, <2>2, <3>1
  <2> QED
    BY <2>1, <2>2
<1>8. /\ [M EXCEPT ![k] = g] \in Seq(Rng)
      /\ Normal([M EXCEPT ![k] = g])
      /\ \A i \in Index : i \in Allocated([M EXCEPT ![k] = g]) <=>
            In(g, i) \/ (i \in Allocated(M) /\ ~ In(M[k], i))
  BY <1>3, <1>5, <1>6, <1>7, ReplaceLemma
<1>9. \A i \in Index : In(g, i) <=> \/ In(R[k], i) \/ In(R[k + 1], i)
                                    \/ (R[k].max < i /\ i < R[k + 1].min)
  BY <1>n, <1>1, <1>2, <1>k DEF In
<1>10. \A i \in Index : In(R[k], i) \/ In(R[k + 1], i) => i \in Allocated(R)
  BY <1>k, AllocatedLemma
<1>11. \A i \in Index : i \in Allocated([M EXCEPT ![k] = g]) <=>
          i \in Allocated(R) \/ (R[k].max < i /\ i < R[k + 1].min)
  BY <1>3, <1>5, <1>8, <1>9, <1>10
<1> QED
  BY <1>4, <1>8, <1>11

\* What it is for a list to be normal.
LEMMA NormalLemma ==
    ASSUME NEW R \in Seq(Rng), Normal(R)
    PROVE  /\ \A j \in 1..Len(R) : R[j].min <= R[j].max
           /\ \A i, j \in 1..Len(R) : i < j => R[i].max + 1 < R[j].min
  BY DEF Normal

\* Two gaps in a row.
LEMMA GapLemma ==
    ASSUME NEW x \in Int, NEW y \in Int, NEW z \in Int, x < y, y + 1 < z
    PROVE  x + 1 < z
  OBVIOUS

\* Extending range k by its next index and merging with range k + 1 adds
\* that index: MarkAllocated after a range, Alloc at the end of the first.
LEMMA ExtendLemma ==
    ASSUME NEW R \in Seq(Rng), Normal(R), NEW k \in 1..Len(R),
           NEW idx \in Index, idx = R[k].max + 1,
           NEW E \in Seq(Rng), Len(E) = Len(R), E[k] = Range_(R[k].min, idx),
           \A j \in 1..Len(R) : j # k => E[j] = R[j]
    PROVE  /\ MergeNext(E, k) \in Seq(Rng)
           /\ Normal(MergeNext(E, k))
           /\ \A i \in Index : i \in Allocated(MergeNext(E, k)) <=>
                 i \in Allocated(R) \/ i = idx
           /\ ~ Overlap(E, k)
<1> DEFINE e == Range_(R[k].min, idx)
<1>n. /\ \A j \in 1..Len(R) : R[j].min <= R[j].max
      /\ \A i, j \in 1..Len(R) : i < j => R[i].max + 1 < R[j].min
  BY NormalLemma
<1>1. \A j \in 1..Len(R) : /\ R[j] \in Rng
                           /\ R[j].min \in Index /\ R[j].max \in Index
                           /\ R[j].min \in Int /\ R[j].max \in Int
  <2>1. \A j \in 1..Len(R) : R[j] \in Rng
    OBVIOUS
  <2> QED
    BY <2>1, RngLemma
<1>2. Index \subseteq Int
  BY MaxIdxAssumption DEF Index
<1>3. e \in Rng /\ e.min = R[k].min /\ e.max = idx
  BY <1>1, Range_Lemma
<1>5. /\ Len(E) = Len(R) /\ E[k] = e
      /\ \A j \in 1..Len(R) : j # k => E[j] = R[j]
  OBVIOUS
<1> HIDE DEF e
<1>4. E = [R EXCEPT ![k] = e]
  <2>1. PICK D : D = [R EXCEPT ![k] = e]
    OBVIOUS
  <2>2. /\ D \in Seq(Rng) /\ Len(D) = Len(R)
        /\ \A j \in 1..Len(R) : D[j] = IF j = k THEN e ELSE R[j]
    BY <1>3, <2>1
  <2>3. Len(E) = Len(D) /\ \A j \in 1..Len(E) : E[j] = D[j]
    BY <1>5, <2>2
  <2>4. E = D
    BY <2>2, <2>3, SeqEqual
  <2> QED
    BY <2>1, <2>4
<1>a. \A i \in Index : In(R[k], i) => i \in Allocated(R)
  BY AllocatedLemma
<1>6. ~ Overlap(E, k)
  <2>1. k < Len(R) => E[k + 1] = R[k + 1] /\ idx < R[k + 1].min
    BY <1>n, <1>1, <1>5
  <2> QED
    BY <1>2, <1>1, <1>3, <1>5, <2>1 DEF Overlap
<1>7. CASE k < Len(R) /\ R[k + 1].min = idx + 1
  <2>g. PICK g : g = Range_(R[k].min, R[k + 1].max)
    OBVIOUS
  <2>k. k \in 1..(Len(R) - 1) /\ k + 1 \in 1..Len(R)
    BY <1>7
  <2>1. g \in Rng /\ g.min = R[k].min /\ g.max = R[k + 1].max
    BY <1>1, <2>k, <2>g, Range_Lemma
  <2>2. MergeNext(E, k) = RemoveAt([R EXCEPT ![k] = g], k + 1)
    <3>1. E[k + 1] = R[k + 1] /\ k < Len(E) /\ E[k + 1].min = E[k].max + 1
      BY <1>3, <1>5, <1>7
    <3>2. MergeNext(E, k) = RemoveAt([E EXCEPT ![k].max = R[k + 1].max], k + 1)
      BY <3>1 DEF MergeNext
    <3>3. [e EXCEPT !.max = R[k + 1].max] = g
      <4>1. [e EXCEPT !.max = R[k + 1].max] = Range_(e.min, R[k + 1].max)
        BY <1>3, FieldLemma
      <4> QED
        BY <1>3, <2>g, <4>1
    <3>4. [E EXCEPT ![k].max = R[k + 1].max] = [R EXCEPT ![k] = g]
      BY <1>4, <1>5, <3>3
    <3> QED
      BY <3>2, <3>4
  <2>3. PICK H : H = RemoveAt([R EXCEPT ![k] = g], k + 1)
    OBVIOUS
  <2>4. /\ H \in Seq(Rng) /\ Normal(H)
        /\ \A i \in Index : i \in Allocated(H) <=>
              i \in Allocated(R) \/ (R[k].max < i /\ i < R[k + 1].min)
    BY <2>k, <2>1, <2>3, AbsorbLemma
  <2>5. \A i \in Index : (R[k].max < i /\ i < R[k + 1].min) <=> i = idx
    BY <1>1, <1>2, <1>7, <2>k
  <2> QED
    BY <1>6, <2>2, <2>3, <2>4, <2>5
<1>8. CASE ~ (k < Len(R) /\ R[k + 1].min = idx + 1)
  <2>1. MergeNext(E, k) = E
    <3>1. k < Len(R) => E[k + 1] = R[k + 1]
      BY <1>5
    <3> QED
      BY <1>3, <1>5, <1>8, <3>1 DEF MergeNext
  <2>2. e.min <= e.max
    BY <1>n, <1>1, <1>3
  <2>3. ASSUME NEW j \in 1..Len(R)
        PROVE  /\ j < k => R[j].max + 1 < e.min
               /\ k < j => e.max + 1 < R[j].min
    <3>1. CASE j < k
      BY <1>n, <1>3, <3>1
    <3>2. CASE j = k + 1
      <4>1. R[k].max + 1 < R[j].min
        BY <1>n, <3>2
      <4> QED
        BY <1>1, <1>2, <1>3, <1>8, <3>2, <4>1
    <3>3. CASE k + 1 < j
      <4>1. k + 1 \in 1..Len(R)
        BY <3>3
      <4>2. /\ R[k].max + 1 < R[k + 1].min /\ R[k + 1].min <= R[k + 1].max
            /\ R[k + 1].max + 1 < R[j].min
        BY <1>n, <3>3, <4>1
      <4> QED
        <5>1. /\ R[k].max \in Int /\ R[k + 1].min \in Int
              /\ R[k + 1].max \in Int /\ R[j].min \in Int
          BY <1>1, <4>1
        <5>2. e.max < R[k + 1].min
          BY <1>3, <4>2
        <5>3. R[k + 1].min + 1 < R[j].min
          BY <4>2, <5>1
        <5>4. e.max \in Int
          BY <1>3, <5>1
        <5>5. e.max + 1 < R[j].min
          BY <5>1, <5>2, <5>3, <5>4, GapLemma
        <5> QED
          BY <3>3, <5>5
    <3> QED
      BY <3>1, <3>2, <3>3
  <2>4. /\ [R EXCEPT ![k] = e] \in Seq(Rng)
        /\ Normal([R EXCEPT ![k] = e])
        /\ \A i \in Index : i \in Allocated([R EXCEPT ![k] = e]) <=>
              In(e, i) \/ (i \in Allocated(R) /\ ~ In(R[k], i))
    BY <1>3, <2>2, <2>3, ReplaceLemma
  <2>5. \A i \in Index : In(e, i) <=> In(R[k], i) \/ i = idx
    BY <1>n, <1>1, <1>2, <1>3 DEF In
  <2> QED
    BY <1>4, <1>6, <2>1, <2>4, <2>5, <1>a
<1> QED
  BY <1>7, <1>8

\* Inserting idx as a range of its own and merging with the range that
\* follows adds idx: MarkAllocated away from the range below.
LEMMA MarkInsertLemma ==
    ASSUME NEW R \in Seq(Rng), Normal(R), NEW k \in 0..Len(R), NEW idx \in Index,
           k > 0 => R[k].max + 1 < idx,
           \A j \in 1..Len(R) : k < j => idx < R[j].min
    PROVE  LET E == InsertAt(R, k + 1, Range_(idx, idx))
           IN  /\ MergeNext(E, k + 1) \in Seq(Rng)
               /\ Normal(MergeNext(E, k + 1))
               /\ \A i \in Index : i \in Allocated(MergeNext(E, k + 1)) <=>
                     i \in Allocated(R) \/ i = idx
               /\ ~ Overlap(E, k + 1)
<1>e. PICK e : e = Range_(idx, idx)
  OBVIOUS
<1>m. PICK m : m = k + 1
  OBVIOUS
<1>0. PICK E : E = InsertAt(R, m, e)
  OBVIOUS
<1>n. /\ \A j \in 1..Len(R) : R[j].min <= R[j].max
      /\ \A i, j \in 1..Len(R) : i < j => R[i].max + 1 < R[j].min
  BY DEF Normal
<1>1. \A j \in 1..Len(R) : /\ R[j] \in Rng
                           /\ R[j].min \in Index /\ R[j].max \in Index
                           /\ R[j].min \in Int /\ R[j].max \in Int
  BY RngLemma
<1>2. Index \subseteq Int
  BY MaxIdxAssumption DEF Index
<1>3. e \in Rng /\ e.min = idx /\ e.max = idx
  BY <1>e, Range_Lemma
<1>k. k + 1 \in 1..(Len(R) + 1)
  OBVIOUS
<1>4. /\ E \in Seq(Rng) /\ Len(E) = Len(R) + 1
      /\ \A i \in 1..(Len(R) + 1) :
            E[i] = IF i < k + 1 THEN R[i] ELSE IF i = k + 1 THEN e ELSE R[i - 1]
  <2>1. m \in 1..(Len(R) + 1)
    BY <1>k, <1>m
  <2>a. e \in Rng
    BY <1>3
  <2>b. InsertAt(R, m, e) \in Seq(Rng) /\ IsInsert(InsertAt(R, m, e), R, m, e)
    BY <2>1, <2>a, InsertAtLemma, Zenon
  <2>2. /\ E \in Seq(Rng) /\ Len(E) = Len(R) + 1
        /\ \A i \in 1..(Len(R) + 1) :
              E[i] = IF i < m THEN R[i] ELSE IF i = m THEN e ELSE R[i - 1]
    BY <1>0, <2>b, Zenon DEF IsInsert
  <2> QED
    BY <1>m, <2>2
<1>5. E[k + 1] = e
  BY <1>4, <1>k
<1>6. k < Len(R) => k + 1 < Len(E) /\ E[(k + 1) + 1] = R[k + 1] /\ k + 1 \in 1..Len(R)
  <2> SUFFICES ASSUME k < Len(R)
               PROVE  k + 1 < Len(E) /\ E[(k + 1) + 1] = R[k + 1] /\ k + 1 \in 1..Len(R)
    OBVIOUS
  <2>1. (k + 1) + 1 \in 1..(Len(R) + 1) /\ ((k + 1) + 1) - 1 = k + 1
    OBVIOUS
  <2>2. E[(k + 1) + 1] = R[((k + 1) + 1) - 1]
    BY <1>4, <2>1
  <2> QED
    BY <1>4, <2>1, <2>2
<1>7. k + 1 < Len(E) => k < Len(R)
  BY <1>4
<1>8. ~ Overlap(E, k + 1)
  <2>1. k + 1 < Len(E) => idx < E[(k + 1) + 1].min
    BY <1>6, <1>7
  <2>2. k + 1 < Len(E) => E[(k + 1) + 1].min \in Int
    BY <1>1, <1>6, <1>7
  <2> QED
    BY <1>2, <1>3, <1>5, <2>1, <2>2 DEF Overlap
<1>9. \A j \in 1..Len(R) : j < k + 1 => R[j].max + 1 < idx
  <2> SUFFICES ASSUME NEW j \in 1..Len(R), j <= k
               PROVE  R[j].max + 1 < idx
    OBVIOUS
  <2>1. CASE j = k
    BY <2>1
  <2>2. CASE j < k
    <3>1. /\ k \in 1..Len(R) /\ R[j].max + 1 < R[k].min /\ R[k].min <= R[k].max
          /\ R[k].max + 1 < idx
      BY <1>n, <2>2
    <3> QED
      BY <1>1, <1>2, <3>1
  <2> QED
    BY <2>1, <2>2
<1>10. CASE k < Len(R) /\ R[k + 1].min = idx + 1
  <2> DEFINE g == Range_(idx, R[k + 1].max)
  <2>k. k + 1 \in 1..Len(R)
    BY <1>10
  <2>1. g \in Rng /\ g.min = idx /\ g.max = R[k + 1].max
    BY <1>1, <2>k, Range_Lemma
  <2>2. MergeNext(E, k + 1) = RemoveAt([E EXCEPT ![k + 1] = g], (k + 1) + 1)
    <3>1. k + 1 < Len(E) /\ E[(k + 1) + 1].min = E[k + 1].max + 1
      BY <1>3, <1>5, <1>6, <1>10
    <3>2. MergeNext(E, k + 1) =
             RemoveAt([E EXCEPT ![k + 1].max = E[(k + 1) + 1].max], (k + 1) + 1)
      BY <3>1 DEF MergeNext
    <3>3. [E[k + 1] EXCEPT !.max = E[(k + 1) + 1].max] = g
      <4>1. [e EXCEPT !.max = R[k + 1].max] = Range_(e.min, R[k + 1].max)
        BY <1>3, FieldLemma
      <4> QED
        BY <1>3, <1>5, <1>6, <1>10, <4>1
    <3>4. [E EXCEPT ![k + 1].max = E[(k + 1) + 1].max] = [E EXCEPT ![k + 1] = g]
      BY <3>3
    <3> QED
      BY <3>2, <3>4
  <2> HIDE DEF g
  <2>3. MergeNext(E, k + 1) = [R EXCEPT ![k + 1] = g]
    BY <1>0, <1>m, <1>3, <2>k, <2>1, <2>2, InsertRemoveLemma
  <2>4. g.min <= g.max
    BY <1>n, <1>1, <1>2, <1>10, <2>k, <2>1
  <2>5. ASSUME NEW j \in 1..Len(R)
        PROVE  /\ j < k + 1 => R[j].max + 1 < g.min
               /\ k + 1 < j => g.max + 1 < R[j].min
    BY <1>n, <1>9, <2>k, <2>1
  <2>6. /\ [R EXCEPT ![k + 1] = g] \in Seq(Rng)
        /\ Normal([R EXCEPT ![k + 1] = g])
        /\ \A i \in Index : i \in Allocated([R EXCEPT ![k + 1] = g]) <=>
              In(g, i) \/ (i \in Allocated(R) /\ ~ In(R[k + 1], i))
    BY <2>k, <2>1, <2>4, <2>5, ReplaceLemma
  <2>7. \A i \in Index : In(g, i) <=> In(R[k + 1], i) \/ i = idx
    BY <1>n, <1>1, <1>2, <1>10, <2>k, <2>1 DEF In
  <2>8. \A i \in Index : In(R[k + 1], i) => i \in Allocated(R)
    BY <2>k, AllocatedLemma
  <2> QED
    BY <1>e, <1>m, <1>0, <1>8, <2>3, <2>6, <2>7, <2>8
<1>11. CASE ~ (k < Len(R) /\ R[k + 1].min = idx + 1)
  <2>1. MergeNext(E, k + 1) = E
    BY <1>3, <1>5, <1>6, <1>7, <1>11 DEF MergeNext
  <2>2. ASSUME NEW j \in 1..Len(R), k + 1 <= j
        PROVE  e.max + 1 < R[j].min
    <3>k. k + 1 \in 1..Len(R)
      BY <2>2
    <3>1. idx + 1 < R[k + 1].min
      BY <1>1, <1>2, <1>11, <3>k
    <3>2. CASE j = k + 1
      BY <1>3, <3>1, <3>2
    <3>3. CASE j > k + 1
      <4>1. R[k + 1].max + 1 < R[j].min /\ R[k + 1].min <= R[k + 1].max
        BY <1>n, <3>k, <3>3
      <4> QED
        BY <1>1, <1>2, <1>3, <3>k, <3>1, <4>1
    <3> QED
      BY <2>2, <3>2, <3>3
  <2>3. e.min <= e.max
    BY <1>2, <1>3
  <2>a. \A j \in 1..Len(R) : j < m => R[j].max + 1 < e.min
    BY <1>m, <1>3, <1>9
  <2>b. \A j \in 1..Len(R) : m <= j => e.max + 1 < R[j].min
    BY <1>m, <2>2
  <2>c. m \in 1..(Len(R) + 1) /\ e \in Rng
    BY <1>m, <1>k, <1>3
  <2>d. /\ InsertAt(R, m, e) \in Seq(Rng) /\ Normal(InsertAt(R, m, e))
        /\ \A i \in Index : i \in Allocated(InsertAt(R, m, e)) <=>
              In(e, i) \/ i \in Allocated(R)
    BY <2>3, <2>a, <2>b, <2>c, InsertLemma, Zenon
  <2>4. /\ E \in Seq(Rng) /\ Normal(E)
        /\ \A i \in Index : i \in Allocated(E) <=> In(e, i) \/ i \in Allocated(R)
    BY <1>0, <2>d, Zenon
  <2>5. \A i \in Index : In(e, i) <=> i = idx
    BY <1>2, <1>3 DEF In
  <2> QED
    BY <1>e, <1>m, <1>0, <1>8, <2>1, <2>4, <2>5
<1> QED
  BY <1>10, <1>11
-----------------------------------------------------------------------------
(* The theorems: the invariant, and the refinement of BlockSet. *)

Ops == {"new", "Alloc", "Free", "MarkAllocated", "IsAllocated"}

\* The record of a call has its type, and is the one BlockSet makes.
LEMMA CallLemma ==
    ASSUME NEW op \in Ops, NEW idx \in Index, NEW res \in Outcomes
    PROVE  /\ Call(op, idx, res) \in [op : Ops, idx : Index, res : Outcomes]
           /\ Call(op, idx, res).res = res
           /\ Call(op, idx, res) = Set!Call(op, idx, res)
  BY DEF Call, Set!Call

\* The type invariant, in the terms of the lemmas above.
LEMMA TypeLemma ==
    TypeOK <=> Ranges \in Seq(Rng) /\ last \in [op : Ops, idx : Index, res : Outcomes]
  BY DEF TypeOK, Rng, Ops

\* The list and the set speak of the same indexes.
LEMMA IndexLemma == Set!Index = Index
  BY DEF Set!Index, Index

\* A free index below which nothing is free is the one Alloc promises.
LEMMA LowestFreeLemma ==
    ASSUME NEW A \in SUBSET Index, NEW idx \in Index, idx \notin A,
           \A i \in Index : i < idx => i \in A
    PROVE  Set!LowestFree(A) = idx
<1>1. \A i \in Index : i \in Int
  BY MaxIdxAssumption DEF Index
<1>2. idx \in Index \ A /\ \A j \in Index \ A : idx <= j
  BY <1>1
<1>3. \A i \in Index \ A : (\A j \in Index \ A : i <= j) => i = idx
  BY <1>1, <1>2
<1> DEFINE c == CHOOSE i \in Index \ A : \A j \in Index \ A : i <= j
<1>4. c \in Index \ A /\ \A j \in Index \ A : c <= j
  BY <1>2
<1>5. c = idx
  <2> HIDE DEF c
  <2> QED BY <1>3, <1>4
<1> QED
  BY <1>5, IndexLemma DEF Set!LowestFree

\* What a step of the list is for the set: the call it records, the set after
\* it, and a vector that is still normal.
Effect(S) ==
    /\ Ranges' \in Seq(Rng) /\ Normal(Ranges')
    /\ Allocated(Ranges') = S

\* Alloc adds the lowest free index, in each of its three branches
\* (BlockList.cpp:26-57).
LEMMA AllocStep ==
    ASSUME TypeOK, Normalized, Alloc
    PROVE  /\ \E i \in Index : last' = Call("Alloc", i, "ok")
           /\ Effect(Allocated(Ranges) \cup {last'.idx})
           /\ last'.idx \notin Allocated(Ranges)
           /\ \A i \in Index : i < last'.idx => i \in Allocated(Ranges)
<1> DEFINE A == Allocated(Ranges)
<1>1. Ranges \in Seq(Rng) /\ Normal(Ranges)
  BY TypeLemma DEF Normalized
<1>2. Index \subseteq Int /\ 0 \in Index /\ (\A i \in Index : 0 <= i /\ i <= MaxIdx)
  BY MaxIdxAssumption DEF Index
<1>3. \A j \in 1..Len(Ranges) : /\ Ranges[j] \in Rng
                                /\ Ranges[j].min \in Index /\ Ranges[j].max \in Index
                                /\ Ranges[j].min \in Int /\ Ranges[j].max \in Int
  BY <1>1, RngLemma
<1>n. /\ \A j \in 1..Len(Ranges) : Ranges[j].min <= Ranges[j].max
      /\ \A i, j \in 1..Len(Ranges) : i < j => Ranges[i].max + 1 < Ranges[j].min
  BY <1>1 DEF Normal
<1>a. \A i \in Index : i \in A <=> \E j \in 1..Len(Ranges) : In(Ranges[j], i)
  BY <1>1, AllocatedLemma
<1>b. \A i, n \in Index : Call("Alloc", n, "ok").idx = n
  BY DEF Call
<1>s. A \subseteq Index /\ Allocated(Ranges') \subseteq Index
  BY DEF Allocated
<1>e. Ranges # <<>> => 1 \in 1..Len(Ranges)
  BY <1>1
<1>f. \A j \in 1..Len(Ranges) : j # 1 => Ranges[1].max + 1 < Ranges[j].min
  BY <1>n
<1>4. CASE AllocNewFirst
  <2> DEFINE r == Range_(0, 0)
  <2>1. r \in Rng /\ r.min = 0 /\ r.max = 0
    BY <1>2, Range_Lemma
  <2>2. Ranges' = InsertAt(Ranges, 1, r) /\ last' = Call("Alloc", 0, "ok")
    BY <1>4 DEF AllocNewFirst
  <2>3. \A j \in 1..Len(Ranges) : 1 < Ranges[j].min
    <3> SUFFICES ASSUME NEW j \in 1..Len(Ranges)
                 PROVE  1 < Ranges[j].min
      OBVIOUS
    <3>1. Ranges # <<>> /\ 1 \in 1..Len(Ranges)
      BY <1>1
    <3>2. 1 < Ranges[1].min
      BY <1>3, <1>4, <3>1 DEF AllocNewFirst
    <3> QED
      BY <1>3, <1>n, <1>f, <3>1, <3>2
  <2> HIDE DEF r
  <2>4. /\ InsertAt(Ranges, 1, r) \in Seq(Rng) /\ Normal(InsertAt(Ranges, 1, r))
        /\ \A i \in Index : i \in Allocated(InsertAt(Ranges, 1, r)) <=> In(r, i) \/ i \in A
    <3>1. 1 \in 1..(Len(Ranges) + 1)
      BY <1>1
    <3>2. r.min <= r.max
      BY <2>1
    <3>3. \A j \in 1..Len(Ranges) : /\ j < 1 => Ranges[j].max + 1 < r.min
                                    /\ 1 <= j => r.max + 1 < Ranges[j].min
      BY <2>1, <2>3
    <3> QED
      BY <1>1, <2>1, <3>1, <3>2, <3>3, InsertLemma
  <2>5. \A i \in Index : In(r, i) <=> i = 0
    BY <1>2, <2>1 DEF In
  <2>6. 0 \notin A
    BY <1>2, <1>3, <1>a, <2>3 DEF In
  <2>7. last'.idx = 0
    BY <1>2, <1>b, <2>2
  <2>8. Allocated(Ranges') = A \cup {0}
    BY <1>2, <1>s, <2>2, <2>4, <2>5
  <2>9. Effect(A \cup {0})
    BY <2>2, <2>4, <2>8 DEF Effect
  <2>10. \A i \in Index : ~ (i < 0)
    BY <1>2
  <2> QED
    BY <1>2, <2>2, <2>6, <2>7, <2>9, <2>10
<1>5. CASE AllocLowEnd
  <2> DEFINE r == Range_(0, Ranges[1].max)
  <2>0. 1 \in 1..Len(Ranges) /\ Ranges[1].min = 1
    BY <1>e, <1>5 DEF AllocLowEnd
  <2>1. r \in Rng /\ r.min = 0 /\ r.max = Ranges[1].max
    BY <1>2, <1>3, <2>0, Range_Lemma
  <2>2. Ranges' = [Ranges EXCEPT ![1] = r] /\ last' = Call("Alloc", 0, "ok")
    <3>1. Ranges' = [Ranges EXCEPT ![1].min = 0] /\ last' = Call("Alloc", 0, "ok")
      BY <1>5 DEF AllocLowEnd
    <3>2. [Ranges[1] EXCEPT !.min = 0] = r
      BY <1>3, <2>0, FieldLemma
    <3> QED
      BY <3>1, <3>2
  <2> HIDE DEF r
  <2>4. /\ [Ranges EXCEPT ![1] = r] \in Seq(Rng) /\ Normal([Ranges EXCEPT ![1] = r])
        /\ \A i \in Index : i \in Allocated([Ranges EXCEPT ![1] = r]) <=>
              In(r, i) \/ (i \in A /\ ~ In(Ranges[1], i))
    <3>1. r.min <= r.max
      BY <1>2, <1>3, <2>0, <2>1
    <3>2. \A j \in 1..Len(Ranges) : /\ j < 1 => Ranges[j].max + 1 < r.min
                                    /\ 1 < j => r.max + 1 < Ranges[j].min
      BY <1>f, <2>1
    <3> QED
      BY <1>1, <2>0, <2>1, <3>1, <3>2, ReplaceLemma
  <2>5. \A i \in Index : In(r, i) <=> In(Ranges[1], i) \/ i = 0
    BY <1>2, <1>3, <2>0, <2>1 DEF In
  <2>6. 0 \notin A
    <3>1. \A j \in 1..Len(Ranges) : 0 < Ranges[j].min
      BY <1>2, <1>3, <1>f, <2>0
    <3> QED
      BY <1>2, <1>3, <1>a, <3>1 DEF In
  <2>7. last'.idx = 0
    BY <1>2, <1>b, <2>2
  <2>8. Allocated(Ranges') = A \cup {0}
    <3>1. \A i \in Index : In(Ranges[1], i) => i \in A
      BY <1>a, <2>0
    <3> QED
      BY <1>2, <1>s, <2>2, <2>4, <2>5, <3>1
  <2>9. Effect(A \cup {0})
    BY <2>2, <2>4, <2>8 DEF Effect
  <2>10. \A i \in Index : ~ (i < 0)
    BY <1>2
  <2> QED
    BY <1>2, <2>2, <2>6, <2>7, <2>9, <2>10
<1>6. CASE AllocHighEnd
  <2>x. PICK x : x = Ranges[1].max + 1
    OBVIOUS
  <2>f. PICK F : F = [Ranges EXCEPT ![1].max = x]
    OBVIOUS
  <2>0. 1 \in 1..Len(Ranges) /\ Ranges[1].min < 1 /\ Ranges[1].max < MaxIdx
    BY <1>e, <1>6 DEF AllocHighEnd
  <2>1. x \in Index
    BY <2>x, <1>2, <1>3, <2>0, MaxIdxAssumption DEF Index
  <2>2. /\ F \in Seq(Rng) /\ Len(F) = Len(Ranges) /\ F[1] = Range_(Ranges[1].min, x)
        /\ \A j \in 1..Len(Ranges) : j # 1 => F[j] = Ranges[j]
    <3>1. [Ranges[1] EXCEPT !.max = x] = Range_(Ranges[1].min, x)
      BY <1>3, <2>0, FieldLemma
    <3>2. Range_(Ranges[1].min, x) \in Rng
      BY <1>3, <2>0, <2>1, Range_Lemma
    <3> QED
      BY <1>1, <2>f, <2>0, <3>1, <3>2
  <2>3. /\ MergeNext(F, 1) \in Seq(Rng) /\ Normal(MergeNext(F, 1))
        /\ \A i \in Index : i \in Allocated(MergeNext(F, 1)) <=> i \in A \/ i = x
        /\ ~ Overlap(F, 1)
    BY <2>x, <1>1, <2>0, <2>1, <2>2, ExtendLemma
  <2>m. F[1].max = x
    BY <2>2 DEF Range_
  <2>4. ~ (Len(Ranges) > 1 /\ x >= Ranges[2].min)
    BY <2>x, <1>1, <1>3, <1>f
  <2>5. /\ last' = Call("Alloc", x, "ok")
        /\ Ranges' = IF Len(Ranges) > 1 /\ x = Ranges[2].min - 1
                     THEN RemoveAt([Ranges EXCEPT ![1].max = Ranges[2].max], 2)
                     ELSE F
    BY <2>x, <2>f, <1>6, <2>4 DEF AllocHighEnd
  <2>6. Ranges' = MergeNext(F, 1)
    <3>0. Len(Ranges) > 1 => 2 \in 1..Len(Ranges)
      BY <1>1
    <3>1. CASE Len(Ranges) > 1 /\ x = Ranges[2].min - 1
      <4>1. [F EXCEPT ![1].max = Ranges[2].max] = [Ranges EXCEPT ![1].max = Ranges[2].max]
        BY <2>f, <1>1, <1>3, <2>0 DEF Rng
      <4>2. 1 < Len(F) /\ F[1 + 1].min = F[1].max + 1 /\ F[1 + 1] = Ranges[2]
        BY <1>2, <1>3, <2>1, <2>2, <2>m, <3>0, <3>1
      <4>3. MergeNext(F, 1) = RemoveAt([F EXCEPT ![1].max = F[1 + 1].max], 1 + 1)
        BY <4>2 DEF MergeNext
      <4> QED
        BY <2>5, <3>1, <4>1, <4>2, <4>3
    <3>2. CASE ~ (Len(Ranges) > 1 /\ x = Ranges[2].min - 1)
      <4>1. ~ (1 < Len(F) /\ F[1 + 1].min = F[1].max + 1)
        BY <1>2, <1>3, <2>1, <2>2, <2>m, <3>0, <3>2
      <4> QED
        BY <2>5, <3>2, <4>1 DEF MergeNext
    <3> QED
      BY <3>1, <3>2
  <2>7. \A i \in Index : In(Ranges[1], i) <=> i < x
    BY <2>x, <1>2, <1>3, <2>0 DEF In
  <2>8. x \notin A
    <3>1. \A j \in 1..Len(Ranges) : ~ In(Ranges[j], x)
      BY <2>x, <1>2, <1>3, <1>f, <2>0, <2>1 DEF In
    <3> QED
      BY <1>a, <2>1, <3>1
  <2>9. \A i \in Index : i < x => i \in A
    BY <1>a, <2>0, <2>7
  <2>10. last'.idx = x
    BY <1>b, <2>1, <2>5
  <2>11. Allocated(Ranges') = A \cup {x}
    BY <1>s, <2>1, <2>3, <2>6
  <2> QED
    BY <2>1, <2>3, <2>5, <2>6, <2>8, <2>9, <2>10, <2>11, Zenon DEF Effect
<1> QED
  BY <1>4, <1>5, <1>6 DEF Alloc

\* MarkAllocated adds its index when it lies just above a range
\* (BlockList.cpp:130-132).
LEMMA MarkExtendStep ==
    ASSUME TypeOK, Normalized, NEW idx \in Index, MarkExtend(idx)
    PROVE  /\ Effect(Allocated(Ranges) \cup {idx})
           /\ idx \notin Allocated(Ranges)
           /\ last' = Call("MarkAllocated", idx, "ok")
<1>1. Ranges \in Seq(Rng) /\ Normal(Ranges)
  BY TypeLemma DEF Normalized
<1>2. PICK k : k = Search(Ranges, idx)
  OBVIOUS
<1>3. /\ k \in 0..Len(Ranges)
      /\ \A j \in 1..Len(Ranges) : j > k => idx < Ranges[j].min
  BY <1>1, <1>2, SearchLemma
<1>4. k > 0 /\ idx = Ranges[k].max + 1
  BY <1>2 DEF MarkExtend
<1>5. k \in 1..Len(Ranges)
  BY <1>3, <1>4
<1>6. PICK E : E = [Ranges EXCEPT ![k].max = idx]
  OBVIOUS
<1>7. /\ Ranges' = MergeNext(E, k)
      /\ last' = Call("MarkAllocated", idx, IF Overlap(E, k) THEN "assert" ELSE "ok")
  BY <1>2, <1>6 DEF MarkExtend
<1>8. \A j \in 1..Len(Ranges) : /\ Ranges[j] \in Rng
                                /\ Ranges[j].min \in Index
                                /\ Ranges[j].min \in Int /\ Ranges[j].max \in Int
  BY <1>1, RngLemma
<1>9. /\ E \in Seq(Rng) /\ Len(E) = Len(Ranges) /\ E[k] = Range_(Ranges[k].min, idx)
      /\ \A j \in 1..Len(Ranges) : j # k => E[j] = Ranges[j]
  <2>1. [Ranges[k] EXCEPT !.max = idx] = Range_(Ranges[k].min, idx)
    BY <1>5, <1>8, FieldLemma
  <2>2. Range_(Ranges[k].min, idx) \in Rng
    BY <1>5, <1>8, Range_Lemma
  <2> QED
    BY <1>1, <1>5, <1>6, <2>1, <2>2
<1>10. /\ MergeNext(E, k) \in Seq(Rng) /\ Normal(MergeNext(E, k))
       /\ \A i \in Index : i \in Allocated(MergeNext(E, k)) <=>
             i \in Allocated(Ranges) \/ i = idx
       /\ ~ Overlap(E, k)
  BY <1>1, <1>4, <1>5, <1>9, ExtendLemma
<1>11. idx \notin Allocated(Ranges)
  <2>1. \A j \in 1..Len(Ranges) : ~ In(Ranges[j], idx)
    <3> SUFFICES ASSUME NEW j \in 1..Len(Ranges)
                 PROVE  ~ In(Ranges[j], idx)
      OBVIOUS
    <3>1. idx \in Int
      BY MaxIdxAssumption DEF Index
    <3>2. CASE j > k
      BY <1>3, <1>8, <3>1, <3>2 DEF In
    <3>3. CASE j = k
      BY <1>4, <1>8, <3>1, <3>3 DEF In
    <3>4. CASE j < k
      <4>1. Ranges[j].max + 1 < Ranges[k].min /\ Ranges[k].min <= Ranges[k].max
        BY <1>1, <1>5, <3>4 DEF Normal
      <4> QED
        BY <1>4, <1>5, <1>8, <3>1, <4>1 DEF In
    <3> QED
      BY <1>5, <3>2, <3>3, <3>4
  <2> QED
    BY <1>1, <2>1, AllocatedLemma
<1>12. Allocated(MergeNext(E, k)) = Allocated(Ranges) \cup {idx}
  <2>1. Allocated(MergeNext(E, k)) \subseteq Index /\ Allocated(Ranges) \subseteq Index
    BY DEF Allocated
  <2> QED
    BY <1>10, <2>1
<1> QED
  BY <1>7, <1>10, <1>11, <1>12 DEF Effect

\* MarkAllocated adds its index when it touches no range below it
\* (BlockList.cpp:121-124, 133-139).
LEMMA MarkInsertStep ==
    ASSUME TypeOK, Normalized, NEW idx \in Index, MarkInsert(idx)
    PROVE  /\ Effect(Allocated(Ranges) \cup {idx})
           /\ idx \notin Allocated(Ranges)
           /\ last' = Call("MarkAllocated", idx, "ok")
<1>1. Ranges \in Seq(Rng) /\ Normal(Ranges)
  BY TypeLemma DEF Normalized
<1>2. PICK k : k = Search(Ranges, idx)
  OBVIOUS
<1>3. /\ k \in 0..Len(Ranges)
      /\ \A j \in 1..Len(Ranges) : k < j => idx < Ranges[j].min
  BY <1>1, <1>2, SearchLemma
<1>i. idx \in Int
  BY MaxIdxAssumption DEF Index
<1>8. \A j \in 1..Len(Ranges) : Ranges[j].min \in Int /\ Ranges[j].max \in Int
  BY <1>1, RngLemma
<1>4. k > 0 => Ranges[k].max + 1 < idx
  BY <1>i, <1>2, <1>3, <1>8 DEF MarkInsert
<1>6. PICK E : E = InsertAt(Ranges, k + 1, Range_(idx, idx))
  OBVIOUS
<1>7. /\ Ranges' = MergeNext(E, k + 1)
      /\ last' = Call("MarkAllocated", idx, IF Overlap(E, k + 1) THEN "assert" ELSE "ok")
  BY <1>2, <1>6 DEF MarkInsert
<1>10. /\ MergeNext(E, k + 1) \in Seq(Rng) /\ Normal(MergeNext(E, k + 1))
       /\ \A i \in Index : i \in Allocated(MergeNext(E, k + 1)) <=>
             i \in Allocated(Ranges) \/ i = idx
       /\ ~ Overlap(E, k + 1)
  BY <1>1, <1>3, <1>4, <1>6, MarkInsertLemma
<1>11. idx \notin Allocated(Ranges)
  <2>1. \A j \in 1..Len(Ranges) : ~ In(Ranges[j], idx)
    <3> SUFFICES ASSUME NEW j \in 1..Len(Ranges)
                 PROVE  ~ In(Ranges[j], idx)
      OBVIOUS
    <3>2. CASE j > k
      BY <1>3, <1>8, <1>i, <3>2 DEF In
    <3>3. CASE j = k
      BY <1>4, <1>8, <1>i, <3>3 DEF In
    <3>4. CASE j < k
      <4>0. k \in 1..Len(Ranges)
        BY <1>3, <3>4
      <4>1. Ranges[j].max + 1 < Ranges[k].min /\ Ranges[k].min <= Ranges[k].max
        BY <1>1, <4>0, <3>4 DEF Normal
      <4> QED
        BY <1>4, <4>0, <1>8, <1>i, <4>1 DEF In
    <3> QED
      BY <1>3, <3>2, <3>3, <3>4
  <2> QED
    BY <1>1, <2>1, AllocatedLemma
<1>12. Allocated(MergeNext(E, k + 1)) = Allocated(Ranges) \cup {idx}
  <2>1. Allocated(MergeNext(E, k + 1)) \subseteq Index /\ Allocated(Ranges) \subseteq Index
    BY DEF Allocated
  <2> QED
    BY <1>10, <2>1
<1> QED
  BY <1>7, <1>10, <1>11, <1>12 DEF Effect

\* Free removes its index, and that one only (BlockList.cpp:75-95).
LEMMA FreeStep ==
    ASSUME TypeOK, Normalized, NEW idx \in Index, FreeAllocated(idx)
    PROVE  /\ Effect(Allocated(Ranges) \ {idx})
           /\ idx \in Allocated(Ranges)
           /\ last' = Call("Free", idx, "ok")
<1>1. Ranges \in Seq(Rng) /\ Normal(Ranges)
  BY TypeLemma DEF Normalized
<1>2. PICK k : k = Search(Ranges, idx)
  OBVIOUS
<1>3. k \in 0..Len(Ranges) /\ (k > 0 => Ranges[k].min <= idx)
  BY <1>1, <1>2, SearchLemma
<1>4. /\ k > 0 /\ idx <= Ranges[k].max
      /\ Ranges' = Shrink(Ranges, k, idx) /\ last' = Call("Free", idx, "ok")
  BY <1>2 DEF FreeAllocated
<1>5. k \in 1..Len(Ranges) /\ In(Ranges[k], idx)
  BY <1>3, <1>4 DEF In
<1>6. /\ Shrink(Ranges, k, idx) \in Seq(Rng)
      /\ Normal(Shrink(Ranges, k, idx))
      /\ \A i \in Index : i \in Allocated(Shrink(Ranges, k, idx)) <=>
            i \in Allocated(Ranges) /\ i # idx
  BY <1>1, <1>5, ShrinkLemma
<1>7. idx \in Allocated(Ranges)
  BY <1>1, <1>5, AllocatedLemma
<1>8. Allocated(Shrink(Ranges, k, idx)) = Allocated(Ranges) \ {idx}
  <2>1. Allocated(Shrink(Ranges, k, idx)) \subseteq Index /\ Allocated(Ranges) \subseteq Index
    BY DEF Allocated
  <2> QED
    BY <1>6, <2>1
<1> QED
  BY <1>4, <1>6, <1>7, <1>8 DEF Effect

\* The range Search finds is the only one that can hold the index.
LEMMA MemberLemma ==
    ASSUME TypeOK, Normalized, NEW idx \in Index
    PROVE  idx \in Allocated(Ranges) <=>
              Search(Ranges, idx) > 0 /\ idx <= Ranges[Search(Ranges, idx)].max
<1>1. Ranges \in Seq(Rng) /\ Normal(Ranges)
  BY TypeLemma DEF Normalized
<1>2. PICK k : k = Search(Ranges, idx)
  OBVIOUS
<1>3. /\ k \in 0..Len(Ranges)
      /\ k > 0 => Ranges[k].min <= idx
      /\ \A j \in 1..Len(Ranges) : j > k => idx < Ranges[j].min
  BY <1>1, <1>2, SearchLemma
<1>4. idx \in Int /\ \A j \in 1..Len(Ranges) : Ranges[j].min \in Int /\ Ranges[j].max \in Int
  BY <1>1, RngLemma, MaxIdxAssumption DEF Index
<1>5. idx \in Allocated(Ranges) <=> \E j \in 1..Len(Ranges) : In(Ranges[j], idx)
  BY <1>1, AllocatedLemma
<1>6. ASSUME k > 0, idx <= Ranges[k].max
      PROVE  \E j \in 1..Len(Ranges) : In(Ranges[j], idx)
  <2>1. k \in 1..Len(Ranges)
    BY <1>3, <1>6
  <2> QED
    BY <1>3, <1>6, <2>1 DEF In
<1>7. ASSUME NEW j \in 1..Len(Ranges), In(Ranges[j], idx)
      PROVE  k > 0 /\ idx <= Ranges[k].max
  <2>1. j <= k
    BY <1>3, <1>4, <1>7 DEF In
  <2>2. k \in 1..Len(Ranges)
    BY <1>3, <2>1
  <2>3. j # k => Ranges[j].max + 1 < Ranges[k].min
    BY <1>1, <2>1, <2>2 DEF Normal
  <2> QED
    BY <1>3, <1>4, <1>7, <2>2, <2>3 DEF In
<1> QED
  BY <1>2, <1>5, <1>6, <1>7

\* A call that leaves the ranges alone.
LEMMA RefuseStep ==
    ASSUME TypeOK, Normalized, NEW idx \in Index,
           \/ FreeInGap(idx) \/ FreeBelowAll(idx) \/ MarkAgain(idx) \/ IsAllocated(idx)
    PROVE  /\ Effect(Allocated(Ranges))
           /\ \/ /\ idx \notin Allocated(Ranges)
                 /\ \E res \in {"throw", "crash"} : last' = Call("Free", idx, res)
              \/ /\ idx \in Allocated(Ranges)
                 /\ last' = Call("MarkAllocated", idx, "throw")
              \/ last' = Call("IsAllocated", idx,
                              IF idx \in Allocated(Ranges) THEN "true" ELSE "false")
<1>1. Ranges \in Seq(Rng) /\ Normal(Ranges)
  BY TypeLemma DEF Normalized
<1>2. PICK k : k = Search(Ranges, idx)
  OBVIOUS
<1>3. idx \in Allocated(Ranges) <=> k > 0 /\ idx <= Ranges[k].max
  BY <1>2, MemberLemma
<1>4. k \in 0..Len(Ranges) /\ idx \in Int
      /\ \A j \in 1..Len(Ranges) : Ranges[j].max \in Int
  BY <1>1, <1>2, SearchLemma, RngLemma, MaxIdxAssumption DEF Index
<1>5. Ranges' = Ranges
  BY DEF FreeInGap, FreeBelowAll, MarkAgain, IsAllocated
<1>6. Effect(Allocated(Ranges))
  BY <1>1, <1>5 DEF Effect
<1>7. CASE FreeInGap(idx)
  <2>1. k > 0 /\ Ranges[k].max < idx /\ last' = Call("Free", idx, "throw")
    BY <1>2, <1>7 DEF FreeInGap
  <2>2. idx \notin Allocated(Ranges)
    BY <1>3, <1>4, <2>1
  <2> QED
    BY <1>6, <2>1, <2>2
<1>8. CASE FreeBelowAll(idx)
  <2>1. k = 0 /\ \E res \in {"throw", "crash"} : last' = Call("Free", idx, res)
    BY <1>2, <1>8 DEF FreeBelowAll
  <2>2. idx \notin Allocated(Ranges)
    BY <1>3, <2>1
  <2> QED
    BY <1>6, <2>1, <2>2
<1>9. CASE MarkAgain(idx)
  BY <1>2, <1>3, <1>6, <1>9 DEF MarkAgain
<1>10. CASE IsAllocated(idx)
  BY <1>2, <1>3, <1>6, <1>10 DEF IsAllocated
<1> QED
  BY <1>7, <1>8, <1>9, <1>10

\* One step of the list: it keeps the ranges normal, meets none of the code's
\* corruption checks, and is a step of the set.
LEMMA StepLemma ==
    ASSUME TypeOK, Normalized, Next
    PROVE  TypeOK' /\ Normalized' /\ NeverCorrupted' /\ Set!Next
<1> DEFINE A == Allocated(Ranges)
<1>1. A \subseteq Index
  BY DEF Allocated
<1>2. Running => Set!Running
  BY DEF Running, Set!Running
<1>3. \A S : Effect(S) => Ranges' \in Seq(Rng) /\ Normalized' /\ Allocated(Ranges)' = S
  BY DEF Effect, Normalized
<1>4. \A op \in Ops, i \in Index, res \in {"ok", "throw", "true", "false", "crash"} :
         last' = Call(op, i, res) =>
            /\ last' \in [op : Ops, idx : Index, res : Outcomes]
            /\ NeverCorrupted'
            /\ last' = Set!Call(op, i, res)
  BY DEF Call, Set!Call, Outcomes, NeverCorrupted
<1>5. ASSUME Ranges' \in Seq(Rng), last' \in [op : Ops, idx : Index, res : Outcomes]
      PROVE  TypeOK'
  BY <1>5 DEF TypeOK, Rng, Ops
<1>6. CASE Alloc
  <2>1. PICK i \in Index : last' = Call("Alloc", i, "ok")
    BY <1>6, AllocStep
  <2>2. last'.idx = i
    BY <2>1 DEF Call
  <2>3. /\ Effect(A \cup {i}) /\ i \notin A
        /\ \A j \in Index : j < i => j \in A
    BY <1>6, <2>2, AllocStep
  <2>4. Set!LowestFree(A) = i
    BY <1>1, <2>3, LowestFreeLemma
  <2>5. /\ last' \in [op : Ops, idx : Index, res : Outcomes] /\ NeverCorrupted'
        /\ last' = Set!Call("Alloc", i, "ok")
    BY <1>4, <2>1 DEF Ops
  <2>6. Running
    BY <1>6 DEF Alloc, AllocNewFirst, AllocLowEnd, AllocHighEnd
  <2>7. Set!Alloc
    BY <1>2, <1>3, <2>3, <2>4, <2>5, <2>6, IndexLemma DEF Set!Alloc
  <2> QED
    BY <1>3, <1>5, <2>3, <2>5, <2>7 DEF Set!Next
<1>7. ASSUME NEW idx \in Index, Free(idx) \/ MarkAllocated(idx) \/ IsAllocated(idx)
      PROVE  TypeOK' /\ Normalized' /\ NeverCorrupted' /\ Set!Next
  <2>0. Running
    BY <1>7 DEF Free, FreeAllocated, FreeInGap, FreeBelowAll, MarkAllocated, MarkExtend,
                MarkInsert, MarkAgain, IsAllocated
  <2>1. CASE FreeAllocated(idx)
    <3>1. Effect(A \ {idx}) /\ idx \in A /\ last' = Call("Free", idx, "ok")
      BY <2>1, FreeStep
    <3>2. /\ last' \in [op : Ops, idx : Index, res : Outcomes] /\ NeverCorrupted'
          /\ last' = Set!Call("Free", idx, "ok")
      BY <1>4, <3>1 DEF Ops
    <3>3. Set!Free(idx)
      BY <1>2, <1>3, <2>0, <3>1, <3>2 DEF Set!Free
    <3> QED
      BY <1>3, <1>5, <3>1, <3>2, <3>3, IndexLemma DEF Set!Next
  <2>2. CASE MarkExtend(idx) \/ MarkInsert(idx)
    <3>1. Effect(A \cup {idx}) /\ idx \notin A /\ last' = Call("MarkAllocated", idx, "ok")
      BY <2>2, MarkExtendStep, MarkInsertStep
    <3>2. /\ last' \in [op : Ops, idx : Index, res : Outcomes] /\ NeverCorrupted'
          /\ last' = Set!Call("MarkAllocated", idx, "ok")
      BY <1>4, <3>1 DEF Ops
    <3>3. Set!MarkAllocated(idx)
      BY <1>2, <1>3, <2>0, <3>1, <3>2 DEF Set!MarkAllocated
    <3> QED
      BY <1>3, <1>5, <3>1, <3>2, <3>3, IndexLemma DEF Set!Next
  <2>3. CASE FreeInGap(idx) \/ FreeBelowAll(idx) \/ MarkAgain(idx) \/ IsAllocated(idx)
    <3>1. /\ Effect(A)
          /\ \/ /\ idx \notin A
                /\ \E res \in {"throw", "crash"} : last' = Call("Free", idx, res)
             \/ idx \in A /\ last' = Call("MarkAllocated", idx, "throw")
             \/ last' = Call("IsAllocated", idx, IF idx \in A THEN "true" ELSE "false")
      BY <2>3, RefuseStep
    <3>2. CASE idx \notin A /\ \E res \in {"throw", "crash"} : last' = Call("Free", idx, res)
      <4>1. PICK res \in {"throw", "crash"} : last' = Call("Free", idx, res)
        BY <3>2
      <4>2. /\ last' \in [op : Ops, idx : Index, res : Outcomes] /\ NeverCorrupted'
            /\ last' = Set!Call("Free", idx, res)
        BY <1>4, <4>1 DEF Ops
      <4>3. Set!Free(idx)
        BY <1>2, <1>3, <2>0, <3>1, <3>2, <4>2 DEF Set!Free
      <4> QED
        BY <1>3, <1>5, <3>1, <4>2, <4>3, IndexLemma DEF Set!Next
    <3>3. CASE idx \in A /\ last' = Call("MarkAllocated", idx, "throw")
      <4>2. /\ last' \in [op : Ops, idx : Index, res : Outcomes] /\ NeverCorrupted'
            /\ last' = Set!Call("MarkAllocated", idx, "throw")
        BY <1>4, <3>3 DEF Ops
      <4>3. Set!MarkAllocated(idx)
        BY <1>2, <1>3, <2>0, <3>1, <3>3, <4>2 DEF Set!MarkAllocated
      <4> QED
        BY <1>3, <1>5, <3>1, <4>2, <4>3, IndexLemma DEF Set!Next
    <3>4. CASE last' = Call("IsAllocated", idx, IF idx \in A THEN "true" ELSE "false")
      <4>1. PICK res \in {"true", "false"} : res = IF idx \in A THEN "true" ELSE "false"
        OBVIOUS
      <4>2. /\ last' \in [op : Ops, idx : Index, res : Outcomes] /\ NeverCorrupted'
            /\ last' = Set!Call("IsAllocated", idx, res)
        BY <1>4, <3>4, <4>1 DEF Ops
      <4>3. Set!IsAllocated(idx)
        BY <1>2, <1>3, <2>0, <3>1, <4>1, <4>2 DEF Set!IsAllocated
      <4> QED
        BY <1>3, <1>5, <3>1, <4>2, <4>3, IndexLemma DEF Set!Next
    <3> QED
      BY <3>1, <3>2, <3>3, <3>4
  <2> QED
    BY <1>7, <2>1, <2>2, <2>3 DEF Free, MarkAllocated
<1> QED
  BY <1>6, <1>7 DEF Next

\* A new list is empty and satisfies the invariant.
LEMMA InitLemma == Init => TypeOK /\ Normalized /\ NeverCorrupted /\ Set!Init
<1> SUFFICES ASSUME Init
             PROVE  TypeOK /\ Normalized /\ NeverCorrupted /\ Set!Init
  OBVIOUS
<1>1. Ranges = <<>> /\ last = Call("new", 0, "ok")
  BY DEF Init
<1>2. 0 \in Index
  BY MaxIdxAssumption DEF Index
<1>3. Allocated(Ranges) = {}
  BY <1>1 DEF Allocated
<1> QED
  BY <1>1, <1>2, <1>3
  DEF TypeOK, Normalized, Normal, NeverCorrupted, Set!Init, Set!Call, Call, Outcomes

-----------------------------------------------------------------------------
(* CountAllocated. *)

\* What the loop has counted after each of its passes.
IsCount(c, R) ==
    c = [k \in 0..Len(R) |-> IF k = 0 THEN 0 ELSE c[k - 1] + (R[k].max - R[k].min + 1)]

\* The indexes of the first k ranges.
First(R, k) == {i \in Index : \E j \in 1..k : R[j].min <= i /\ i <= R[j].max}

LEMMA CountChoice ==
    ASSUME NEW R
    PROVE  CountAllocated(R) = (CHOOSE c : IsCount(c, R))[Len(R)]
  BY Zenon DEF CountAllocated, IsCount

\* The loop has one outcome: two that differ would do so at a first pass.
LEMMA CountUnique ==
    ASSUME NEW R, Len(R) \in Nat, NEW c, NEW d, IsCount(c, R), IsCount(d, R)
    PROVE  c = d
<1>0. /\ c = [k \in 0..Len(R) |-> IF k = 0 THEN 0 ELSE c[k - 1] + (R[k].max - R[k].min + 1)]
      /\ d = [k \in 0..Len(R) |-> IF k = 0 THEN 0 ELSE d[k - 1] + (R[k].max - R[k].min + 1)]
  BY DEF IsCount
<1> DEFINE Bad == {k \in 0..Len(R) : c[k] # d[k]}
<1>1. ASSUME Bad # {} PROVE FALSE
  <2>1. Bad \subseteq Nat
    OBVIOUS
  <2>2. PICK k \in Bad : \A j \in Bad : k <= j
    BY <1>1, <2>1, LeastNat
  <2>3. k # 0
    BY <1>0, <2>2
  <2>4. k - 1 \in 0..Len(R) /\ k - 1 \notin Bad
    BY <2>2, <2>3
  <2>5. c[k - 1] = d[k - 1]
    BY <2>4
  <2>6. c[k] = d[k]
    BY <1>0, <2>2, <2>3, <2>5
  <2> QED
    BY <2>2, <2>6
<1>2. \A k \in 0..Len(R) : c[k] = d[k]
  BY <1>1
<1>3. DOMAIN c = 0..Len(R) /\ DOMAIN d = 0..Len(R)
  BY <1>0
<1>4. c = [k \in 0..Len(R) |-> c[k]] /\ d = [k \in 0..Len(R) |-> d[k]]
  BY <1>0, <1>3
<1> QED
  BY <1>2, <1>4

\* Each pass counts the indexes of one range, which no range before has.
LEMMA FirstGrows ==
    ASSUME NEW R \in Seq(Rng), Normal(R), NEW k \in 1..Len(R)
    PROVE  /\ IsFiniteSet(First(R, k)) /\ Cardinality(First(R, k)) \in Nat
           /\ Cardinality(First(R, k)) =
                  Cardinality(First(R, k - 1)) + (R[k].max - R[k].min + 1)
<1>0. MaxIdx \in Nat /\ Index = 0..MaxIdx
  BY MaxIdxAssumption DEF Index
<1>1. IsFiniteSet(Index)
  BY <1>0, FS_Interval
<1>2. \A j \in 0..Len(R) : First(R, j) \in SUBSET Index
  BY DEF First
<1>3. \A j \in 0..Len(R) : IsFiniteSet(First(R, j))
  BY <1>1, <1>2, FS_Subset
<1>4. R[k].min \in Index /\ R[k].max \in Index /\ R[k].min <= R[k].max
  <2>1. R[k] \in Rng /\ k \in DOMAIN R
    OBVIOUS
  <2> QED
    BY <2>1, RngLemma DEF Normal
<1>5. First(R, k) = First(R, k - 1) \cup R[k].min..R[k].max
  <2>1. ASSUME NEW i \in First(R, k) PROVE i \in First(R, k - 1) \cup R[k].min..R[k].max
    BY <1>0, <1>4 DEF First
  <2>2. ASSUME NEW i \in First(R, k - 1) PROVE i \in First(R, k)
    BY DEF First
  <2>3. ASSUME NEW i \in R[k].min..R[k].max PROVE i \in First(R, k)
    <3>1. i \in Index /\ R[k].min <= i /\ i <= R[k].max /\ k \in 1..k
      BY <1>0, <1>4
    <3> QED
      BY <3>1 DEF First
  <2> QED
    BY <2>1, <2>2, <2>3
<1>6. First(R, k - 1) \cap R[k].min..R[k].max = {}
  <2> SUFFICES ASSUME NEW i \in First(R, k - 1), i \in R[k].min..R[k].max PROVE FALSE
    OBVIOUS
  <2>1. PICK j \in 1..(k - 1) : R[j].min <= i /\ i <= R[j].max
    BY DEF First
  <2>2. R[j].max + 1 < R[k].min
    BY DEF Normal
  <2>3. R[j].max \in Index
    <3>1. R[j] \in Rng
      OBVIOUS
    <3> QED
      BY <3>1, RngLemma
  <2> QED
    BY <1>0, <1>4, <2>1, <2>2, <2>3
<1>7. PICK S : S = R[k].min..R[k].max
  OBVIOUS
<1>8. IsFiniteSet(S) /\ Cardinality(S) = R[k].max - R[k].min + 1
  <2>1. R[k].min \in Int /\ R[k].max \in Int
    BY <1>0, <1>4
  <2>2. /\ IsFiniteSet(S)
        /\ Cardinality(S) = IF R[k].min > R[k].max THEN 0 ELSE R[k].max - R[k].min + 1
    BY <2>1, <1>7, FS_Interval
  <2> QED
    BY <2>1, <2>2, <1>4
<1>9. PICK F : F = First(R, k - 1)
  OBVIOUS
<1>10. IsFiniteSet(F) /\ Cardinality(F) \in Nat
  BY <1>3, <1>9, FS_CardinalityType
<1>11. Cardinality(F \cup S) = Cardinality(F) + Cardinality(S) - Cardinality(F \cap S)
  BY <1>8, <1>10, FS_Union
<1>12. Cardinality(F \cap S) = 0
  BY <1>6, <1>7, <1>9, FS_EmptySet
<1>13. Cardinality(S) \in Nat
  BY <1>8, FS_CardinalityType
<1>14. Cardinality(F \cup S) = Cardinality(F) + Cardinality(S)
  BY <1>10, <1>11, <1>12, <1>13
<1>15. First(R, k) = F \cup S
  BY <1>5, <1>7, <1>9
<1>16. IsFiniteSet(First(R, k)) /\ Cardinality(First(R, k)) \in Nat
  BY <1>3, FS_CardinalityType
<1> QED
  BY <1>8, <1>9, <1>14, <1>15, <1>16

\* On a normal list the loop counts the allocated indexes.
LEMMA CountLemma ==
    ASSUME NEW R \in Seq(Rng), Normal(R)
    PROVE  CountAllocated(R) = Cardinality(Allocated(R))
<1>1. PICK c : c = [k \in 0..Len(R) |-> Cardinality(First(R, k))]
  OBVIOUS
<1>2. Len(R) \in Nat
  OBVIOUS
<1>3. c[0] = 0
  <2>1. First(R, 0) = {}
    BY DEF First
  <2> QED
    BY <1>1, <1>2, <2>1, FS_EmptySet
<1>4. \A k \in 1..Len(R) : c[k] = c[k - 1] + (R[k].max - R[k].min + 1)
  <2> SUFFICES ASSUME NEW k \in 1..Len(R)
               PROVE  c[k] = c[k - 1] + (R[k].max - R[k].min + 1)
    OBVIOUS
  <2>1. k \in 0..Len(R) /\ k - 1 \in 0..Len(R)
    BY <1>2
  <2> QED
    BY <1>1, <2>1, FirstGrows
<1>5. IsCount(c, R)
  <2>1. \A k \in 0..Len(R) :
            c[k] = IF k = 0 THEN 0 ELSE c[k - 1] + (R[k].max - R[k].min + 1)
    BY <1>2, <1>3, <1>4
  <2>2. c = [k \in 0..Len(R) |-> c[k]]
    BY <1>1
  <2> QED
    BY <2>1, <2>2 DEF IsCount
<1>6. PICK d : d = CHOOSE e : IsCount(e, R)
  OBVIOUS
<1>7. IsCount(d, R)
  BY <1>5, <1>6
<1>8. d = c
  BY <1>2, <1>5, <1>7, CountUnique
<1>9. CountAllocated(R) = c[Len(R)]
  BY <1>6, <1>8, CountChoice
<1>10. First(R, Len(R)) = Allocated(R)
  <2>1. DOMAIN R = 1..Len(R)
    OBVIOUS
  <2> QED
    BY <2>1 DEF First, Allocated
<1> QED
  BY <1>1, <1>2, <1>9, <1>10

\* The list is well typed and its ranges stay sorted, disjoint, nonempty and
\* apart, whatever is called (the asserts of BlockList.cpp:192-193).
THEOREM NormalTheorem == Spec => [](TypeOK /\ Normalized)
<1>1. Init => TypeOK /\ Normalized
  BY InitLemma
<1>2. TypeOK /\ Normalized /\ [Next]_vars => (TypeOK /\ Normalized)'
  <2> SUFFICES ASSUME TypeOK, Normalized, [Next]_vars
               PROVE  (TypeOK /\ Normalized)'
    OBVIOUS
  <2>1. CASE Next
    BY <2>1, StepLemma
  <2>2. CASE UNCHANGED vars
    BY <2>2 DEF vars, TypeOK, Normalized
  <2> QED
    BY <2>1, <2>2
<1> QED
  BY <1>1, <1>2, PTL DEF Spec

\* Alloc never finds the list corrupted and MarkAllocated's assert never
\* fails (BlockList.cpp:48-49, 146).
THEOREM NeverCorruptedTheorem == Spec => []NeverCorrupted
<1>1. Init => NeverCorrupted
  BY InitLemma
<1>2. TypeOK /\ Normalized /\ NeverCorrupted /\ [Next]_vars => NeverCorrupted'
  <2> SUFFICES ASSUME TypeOK, Normalized, NeverCorrupted, [Next]_vars
               PROVE  NeverCorrupted'
    OBVIOUS
  <2>1. CASE Next
    BY <2>1, StepLemma
  <2>2. CASE UNCHANGED vars
    BY <2>2 DEF vars, NeverCorrupted
  <2> QED
    BY <2>1, <2>2
<1> QED
  BY <1>1, <1>2, NormalTheorem, PTL DEF Spec

\* The ranges stay a vector of ranges within the indexes, and each call ends in one
\* of the outcomes its caller can see (BlockList.h:27-57).
THEOREM TypeTheorem == Spec => []TypeOK
BY NormalTheorem, PTL

\* CountAllocated returns the number of allocated indexes, whatever was called: the
\* loop adds up the lengths of ranges that have no index in common.
THEOREM CountAgreesTheorem == Spec => []CountAgrees
<1>1. TypeOK /\ Normalized => CountAgrees
  BY CountLemma DEF TypeOK, Normalized, CountAgrees, Rng
<1> QED
  BY <1>1, NormalTheorem, PTL

\* The list of ranges implements the set of indexes: Alloc returns the lowest
\* free index, and a call that fails changes nothing.
THEOREM ImplementsSetTheorem == Spec => ImplementsSet
<1>1. Init => Set!Init
  BY InitLemma
<1>2. TypeOK /\ Normalized /\ [Next]_vars => [Set!Next]_<<Allocated(Ranges), last>>
  <2> SUFFICES ASSUME TypeOK, Normalized, [Next]_vars
               PROVE  [Set!Next]_<<Allocated(Ranges), last>>
    OBVIOUS
  <2>1. CASE Next
    BY <2>1, StepLemma
  <2>2. CASE UNCHANGED vars
    BY <2>2 DEF vars, Allocated
  <2> QED
    BY <2>1, <2>2
<1> QED
  BY <1>1, <1>2, NormalTheorem, PTL DEF Spec, ImplementsSet, Set!Spec
=============================================================================
