--------------------------- MODULE FilePathProofs ---------------------------
(***************************************************************************)
(* Lemmas about paths and their prefixes, for the proofs about the trees   *)
(* of files that the create and the extract commands walk and make.        *)
(***************************************************************************)
EXTENDS FilePaths, FiniteSetTheorems, SequenceTheorems, TLAPS

\* The prefixes of a path are paths, and there are finitely many.
LEMMA PrefixesFacts ==
    ASSUME NEW p \in Path
    PROVE  /\ Prefixes(p) \subseteq Path /\ IsFiniteSet(Prefixes(p))
           /\ \A q \in Prefixes(p) : Len(q) <= Len(p) /\ IsPrefix(q, p)
           /\ \A q \in Path : IsPrefix(q, p) => q \in Prefixes(p)
<1>1. Len(p) \in Nat
  BY LenProperties DEF Path
<1>2. ASSUME NEW l \in 0..Len(p)
      PROVE  /\ SubSeq(p, 1, l) \in Path /\ Len(SubSeq(p, 1, l)) = l
             /\ SubSeq(SubSeq(p, 1, l), 1, l) = SubSeq(p, 1, l)
  <2>1. \A i \in 1..l : p[i] \in STRING
    BY <1>1, ElementOfSeq DEF Path
  <2>2. SubSeq(p, 1, l) \in Seq(STRING) /\ Len(SubSeq(p, 1, l)) = l
    BY <2>1, SubSeqProperties
  <2> QED
    BY <2>2, SubSeqFull DEF Path
<1>3. IsFiniteSet(Prefixes(p))
  <2> DEFINE f == [l \in 0..Len(p) |-> SubSeq(p, 1, l)]
  <2>1. f \in Surjection(0..Len(p), Prefixes(p))
    BY DEF Surjection, Prefixes
  <2>2. IsFiniteSet(0..Len(p))
    BY <1>1, FS_Interval
  <2> QED
    BY <2>1, <2>2, FS_Surjection
<1>4. \A q \in Prefixes(p) : q \in Path /\ Len(q) <= Len(p) /\ IsPrefix(q, p)
  <2> TAKE q \in Prefixes(p)
  <2>1. PICK l \in 0..Len(p) : q = SubSeq(p, 1, l)
    BY DEF Prefixes
  <2> QED
    BY <1>1, <1>2, <2>1 DEF IsPrefix
<1>5. \A q \in Path : IsPrefix(q, p) => q \in Prefixes(p)
  <2> TAKE q \in Path
  <2> HAVE IsPrefix(q, p)
  <2>1. Len(q) \in Nat /\ SubSeq(q, 1, Len(q)) = q
    BY LenProperties, SubSeqFull DEF Path
  <2>2. Len(q) \in 0..Len(p) /\ q = SubSeq(p, 1, Len(q))
    BY <1>1, <2>1 DEF IsPrefix
  <2> QED
    BY <2>2 DEF Prefixes
<1> QED
  BY <1>3, <1>4, <1>5

\* A path but its last component.
LEMMA FrontFacts ==
    ASSUME NEW p \in Path, p # <<>>
    PROVE  /\ Front(p) \in Path /\ Len(Front(p)) = Len(p) - 1 /\ Len(p) \in Nat \ {0}
           /\ IsPrefix(Front(p), p)
<1>1. Len(p) \in Nat \ {0}
  BY EmptySeq DEF Path
<1>2. \A i \in 1..Len(p) - 1 : p[i] \in STRING
  BY <1>1, ElementOfSeq DEF Path
<1>3. Front(p) \in Path /\ Len(Front(p)) = Len(p) - 1
  <2>1. PICK k \in Nat : k = Len(p) - 1
    BY <1>1
  <2>2. \A i \in 1..k : p[i] \in STRING
    BY <1>2, <2>1
  <2>3. SubSeq(p, 1, k) \in Seq(STRING) /\ Len(SubSeq(p, 1, k)) = k
    BY <2>2, SubSeqProperties
  <2> QED
    BY <2>1, <2>3 DEF Front, Path
<1>4. SubSeq(Front(p), 1, Len(Front(p))) = Front(p)
  BY <1>3, SubSeqFull DEF Path
<1> QED
  BY <1>1, <1>3, <1>4 DEF IsPrefix, Front

\* A prefix agrees with the path as far as it goes.
LEMMA PrefixPoints ==
    ASSUME NEW a \in Path, NEW b \in Path
    PROVE  /\ Len(a) \in Nat /\ Len(b) \in Nat
           /\ IsPrefix(a, b) <=> Len(a) <= Len(b) /\ \A i \in 1..Len(a) : a[i] = b[i]
<1>1. Len(a) \in Nat /\ Len(b) \in Nat /\ SubSeq(a, 1, Len(a)) = a
  BY LenProperties, SubSeqFull DEF Path
<1>2. ASSUME Len(a) <= Len(b)
      PROVE  SubSeq(b, 1, Len(a)) = a <=> \A i \in 1..Len(a) : a[i] = b[i]
  <2>1. PICK k \in Nat : k = Len(a)
    BY <1>1
  <2>2. \A i \in 1..k : b[i] \in STRING
    BY <1>1, <1>2, <2>1, ElementOfSeq DEF Path
  <2>3. /\ SubSeq(b, 1, k) \in Seq(STRING) /\ Len(SubSeq(b, 1, k)) = k
        /\ \A i \in 1..k : SubSeq(b, 1, k)[i] = b[1 + i - 1]
    <3>1. 1 \in Int /\ k \in Int /\ (1 <= k => k - 1 + 1 = k) /\ (~(1 <= k) => k = 0) /\ k - 1 + 1 = k
      BY <2>1
    <3> QED
      BY <2>2, <3>1, SubSeqProperties
  <2>4. \A i \in 1..k : SubSeq(b, 1, k)[i] = b[i]
    BY <2>3
  <2>5. (\A i \in 1..k : a[i] = b[i]) => SubSeq(b, 1, k) = a
    BY <2>1, <2>3, <2>4, SeqEqual DEF Path
  <2> QED
    BY <2>1, <2>4, <2>5
<1> QED
  BY <1>1, <1>2 DEF IsPrefix

\* A path is a prefix of itself.
LEMMA PrefixSelf == ASSUME NEW a \in Path PROVE IsPrefix(a, a)
BY PrefixPoints

\* Prefixes of one path are prefixes of each other; a prefix of a prefix is one.
LEMMA PrefixOrder ==
    ASSUME NEW a \in Path, NEW b \in Path, NEW m \in Path, IsPrefix(b, m)
    PROVE  /\ IsPrefix(a, b) => IsPrefix(a, m)
           /\ IsPrefix(a, m) /\ Len(a) <= Len(b) => IsPrefix(a, b)
           /\ IsPrefix(a, m) /\ Len(a) = Len(b) => a = b
           /\ IsPrefix(m, m)
<1>1. /\ Len(a) \in Nat /\ Len(b) \in Nat /\ Len(m) \in Nat
      /\ Len(b) <= Len(m) /\ \A i \in 1..Len(b) : b[i] = m[i]
  BY PrefixPoints
<1>2. IsPrefix(m, m)
  BY <1>1, PrefixPoints
<1>3. ASSUME IsPrefix(a, b) PROVE IsPrefix(a, m)
  <2>1. Len(a) <= Len(b) /\ \A i \in 1..Len(a) : a[i] = b[i]
    BY <1>3, PrefixPoints
  <2>2. Len(a) <= Len(m) /\ \A i \in 1..Len(a) : a[i] = m[i]
    BY <1>1, <2>1
  <2> QED
    BY <2>2, PrefixPoints
<1>4. ASSUME IsPrefix(a, m), Len(a) <= Len(b) PROVE IsPrefix(a, b)
  <2>1. \A i \in 1..Len(a) : a[i] = m[i]
    BY <1>4, PrefixPoints
  <2>2. \A i \in 1..Len(a) : a[i] = b[i]
    BY <1>1, <1>4, <2>1
  <2> QED
    BY <1>4, <2>2, PrefixPoints
<1>5. ASSUME IsPrefix(a, m), Len(a) = Len(b) PROVE a = b
  <2>1. \A i \in 1..Len(a) : a[i] = m[i]
    BY <1>5, PrefixPoints
  <2> QED
    BY <1>1, <1>5, <2>1, SeqEqual DEF Path
<1> QED
  BY <1>2, <1>3, <1>4, <1>5

\* Under a path, what is not the path itself lies in something that is in it.
LEMMA Between ==
    ASSUME NEW n \in Path, NEW m \in Path, IsPrefix(n, m), m # n
    PROVE  /\ m # <<>> /\ n \in Prefixes(Front(m))
           /\ \E c \in Path : /\ c # <<>> /\ Front(c) = n /\ IsPrefix(c, m)
                              /\ c = m \/ c \in Prefixes(Front(m))
<1>1. /\ Len(n) \in Nat /\ Len(m) \in Nat /\ Len(n) <= Len(m)
      /\ \A i \in 1..Len(n) : n[i] = m[i]
  BY PrefixPoints
<1>2. Len(n) < Len(m)
  <2>1. IsPrefix(m, m)
    BY <1>1, PrefixPoints
  <2>2. Len(n) # Len(m)
    BY <2>1, PrefixOrder
  <2> QED
    BY <1>1, <2>2
<1>3. m # <<>>
  BY <1>1, <1>2, EmptySeq
<1>4. Front(m) \in Path /\ Len(Front(m)) = Len(m) - 1 /\ IsPrefix(Front(m), m)
  BY <1>3, FrontFacts
<1>5. \A c \in Path : IsPrefix(c, m) /\ Len(c) < Len(m) => c \in Prefixes(Front(m))
  <2> TAKE c \in Path
  <2> HAVE IsPrefix(c, m) /\ Len(c) < Len(m)
  <2>1. Len(c) <= Len(Front(m))
    BY <1>1, <1>4, PrefixPoints
  <2>2. IsPrefix(c, Front(m))
    BY <1>4, <2>1, PrefixOrder
  <2> QED
    BY <1>4, <2>2, PrefixesFacts
<1>6. PICK k \in Nat : k = Len(n) + 1
  BY <1>1
<1> DEFINE c == SubSeq(m, 1, k)
<1>7. c \in Prefixes(m)
  BY <1>1, <1>2, <1>6 DEF Prefixes
<1>8. c \in Path /\ IsPrefix(c, m)
  BY <1>7, PrefixesFacts
<1>9. Len(c) = k
  <2>1. \A i \in 1..k : m[i] \in STRING
    BY <1>1, <1>2, <1>6, ElementOfSeq DEF Path
  <2> QED
    BY <1>6, <2>1, SubSeqProperties
<1> HIDE DEF c
<1>10. c # <<>>
  BY <1>1, <1>6, <1>9, EmptySeq
<1>11. Front(c) = n
  <2>1. /\ Front(c) \in Path /\ Len(Front(c)) = Len(n) /\ IsPrefix(Front(c), c)
    BY <1>1, <1>6, <1>8, <1>9, <1>10, FrontFacts
  <2>2. IsPrefix(Front(c), m)
    BY <1>8, <2>1, PrefixOrder
  <2> QED
    BY <2>1, <2>2, PrefixOrder
<1>12. c = m \/ c \in Prefixes(Front(m))
  <2>1. CASE Len(c) < Len(m)
    BY <1>5, <1>8, <2>1
  <2>2. CASE Len(c) = Len(m)
    <3>1. IsPrefix(m, m)
      BY <1>1, PrefixPoints
    <3> QED
      BY <1>8, <2>2, <3>1, PrefixOrder
  <2> QED
    BY <1>1, <1>2, <1>6, <1>9, <2>1, <2>2
<1> QED
  BY <1>2, <1>3, <1>5, <1>8, <1>10, <1>11, <1>12
=============================================================================
