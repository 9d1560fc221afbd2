--------------------------- MODULE SequenceLemmas ---------------------------
(***************************************************************************)
(* Facts about sequences that several proofs need.  Driver, EngineApi,     *)
(* Runner and Derivation take a block to be the chain that leads to it, so *)
(* that the prefixes of a block are its ancestors.                         *)
(***************************************************************************)
EXTENDS Integers, Sequences, SequencesExt, Subsequences, SequenceTheorems,
        FiniteSetTheorems, WellFoundedInduction, TLAPS

\* A set of numbers that is not empty has a least element.
LEMMA LeastNumber ==
    ASSUME NEW T, T \subseteq Nat, T # {}
    PROVE  \E x \in T : \A y \in T : x <= y
  <1> DEFINE R == {ss \in Nat \X Nat : ss[1] < ss[2]}
  <1>1. IsWellFoundedOn(R, Nat)
    BY NatLessThanWellFounded DEF OpToRel
  <1>2. \A x, y \in Nat : <<x, y>> \in R <=> x < y
    OBVIOUS
  <1> HIDE DEF R
  <1>3. PICK x \in T : \A y \in T : ~(<<y, x>> \in R)
    BY <1>1, WFMin
  <1>4. \A y \in T : x \in Nat /\ y \in Nat /\ ~(y < x)
    BY <1>2, <1>3
  <1>5. \A y \in T : x <= y
    BY <1>4
  <1>6. QED
    BY <1>5

\* The entries decide what is a prefix of what.
LEMMA PrefixEntries ==
    ASSUME NEW S, NEW s \in Seq(S), NEW t \in Seq(S)
    PROVE  IsPrefix(s, t) <=> Len(s) <= Len(t) /\ \A i \in 1..Len(s) : s[i] = t[i]
  <1>1. CASE Len(s) <= Len(t)
    <2>1. Len(s) \in Nat /\ Len(t) \in Nat
      BY LenProperties
    <2>2. SubSeq(s, 1, Len(s)) = s
      BY SubSeqFull
    <2>3. /\ SubSeq(t, 1, Len(s)) \in Seq(S)
          /\ Len(SubSeq(t, 1, Len(s))) = Len(s)
          /\ \A i \in 1..Len(s) : SubSeq(t, 1, Len(s))[i] = t[i]
      BY <1>1, <2>1
    <2>4. s = SubSeq(t, 1, Len(s)) <=> \A i \in 1..Len(s) : s[i] = t[i]
      BY <2>3, SeqEqual
    <2>5. QED
      BY <1>1, <2>2, <2>4 DEF IsPrefix
  <1>2. CASE ~(Len(s) <= Len(t))
    BY <1>2 DEF IsPrefix
  <1>3. QED
    BY <1>1, <1>2

\* Every block is its own ancestor.
LEMMA PrefixReflexive ==
    ASSUME NEW S, NEW s \in Seq(S)
    PROVE  IsPrefix(s, s)
  BY PrefixEntries, LenProperties

\* Genesis is an ancestor of every block.
LEMMA PrefixEmpty ==
    ASSUME NEW S, NEW s \in Seq(S)
    PROVE  IsPrefix(<<>>, s) /\ (IsPrefix(s, <<>>) => s = <<>>)
  <1> DEFINE g == <<>>
  <1>1. g \in Seq(S) /\ Len(g) = 0 /\ Len(s) \in Nat /\ (Len(s) = 0 => s = g)
    BY EmptySeq, LenProperties
  <1> HIDE DEF g
  <1>2. IsPrefix(g, s) /\ (IsPrefix(s, g) => s = g)
    <2>1. IsPrefix(g, s) <=> Len(g) <= Len(s) /\ \A i \in 1..Len(g) : g[i] = s[i]
      BY <1>1, PrefixEntries
    <2>2. IsPrefix(s, g) => Len(s) <= Len(g)
      BY <1>1, PrefixEntries
    <2>3. QED
      BY <1>1, <2>1, <2>2
  <1>3. QED
    BY <1>2 DEF g

\* An ancestor of an ancestor is an ancestor.
LEMMA PrefixTransitive ==
    ASSUME NEW S, NEW s \in Seq(S), NEW t \in Seq(S), NEW u \in Seq(S),
           IsPrefix(s, t), IsPrefix(t, u)
    PROVE  IsPrefix(s, u)
  <1>1. /\ Len(s) \in Nat /\ Len(t) \in Nat /\ Len(u) \in Nat
        /\ Len(s) <= Len(t) /\ \A i \in 1..Len(s) : s[i] = t[i]
        /\ Len(t) <= Len(u) /\ \A i \in 1..Len(t) : t[i] = u[i]
    BY PrefixEntries, LenProperties
  <1>2. QED
    BY <1>1, PrefixEntries

\* A block and an ancestor of the same number are the same.
LEMMA PrefixSameLength ==
    ASSUME NEW S, NEW s \in Seq(S), NEW t \in Seq(S), IsPrefix(s, t), Len(s) = Len(t)
    PROVE  s = t
  BY PrefixEntries, SeqEqual

\* Two ancestors of a block are on one chain.
LEMMA PrefixComparable ==
    ASSUME NEW S, NEW s \in Seq(S), NEW t \in Seq(S), NEW u \in Seq(S),
           IsPrefix(s, u), IsPrefix(t, u), Len(s) <= Len(t)
    PROVE  IsPrefix(s, t)
  <1>1. /\ Len(s) \in Nat /\ Len(t) \in Nat /\ Len(u) \in Nat
        /\ Len(t) <= Len(u)
        /\ \A i \in 1..Len(s) : s[i] = u[i]
        /\ \A i \in 1..Len(t) : t[i] = u[i]
    BY PrefixEntries, LenProperties
  <1>2. QED
    BY <1>1, PrefixEntries

\* The parent of a block and its parent's ancestors are its ancestors.
LEMMA PrefixAppend ==
    ASSUME NEW S, NEW s \in Seq(S), NEW t \in Seq(S), NEW e \in S, IsPrefix(s, t)
    PROVE  IsPrefix(s, Append(t, e))
  <1>1. /\ Len(s) \in Nat /\ Len(t) \in Nat
        /\ Len(s) <= Len(t) /\ \A i \in 1..Len(s) : s[i] = t[i]
    BY PrefixEntries, LenProperties
  <1> DEFINE a == Append(t, e)
  <1>2. a \in Seq(S) /\ Len(a) = Len(t) + 1 /\ \A i \in 1..Len(t) : a[i] = t[i]
    BY AppendProperties
  <1> HIDE DEF a
  <1>3. IsPrefix(s, a)
    BY <1>1, <1>2, PrefixEntries
  <1>4. QED
    BY <1>3 DEF a

\* The next block on the way to a descendant.
LEMMA PrefixExtend ==
    ASSUME NEW S, NEW s \in Seq(S), NEW t \in Seq(S), IsPrefix(s, t), Len(s) < Len(t)
    PROVE  /\ t[Len(s) + 1] \in S
           /\ IsPrefix(Append(s, t[Len(s) + 1]), t)
  <1>1. /\ Len(s) \in Nat /\ Len(t) \in Nat
        /\ \A i \in 1..Len(s) : s[i] = t[i]
    BY PrefixEntries, LenProperties
  <1>2. t[Len(s) + 1] \in S
    BY <1>1, ElementOfSeq
  <1> DEFINE a == Append(s, t[Len(s) + 1])
  <1>3. /\ a \in Seq(S) /\ Len(a) = Len(s) + 1
        /\ \A i \in 1..Len(s) : a[i] = s[i]
        /\ a[Len(s) + 1] = t[Len(s) + 1]
    BY <1>2, AppendProperties
  <1> HIDE DEF a
  <1>4. \A i \in 1..Len(a) : a[i] = t[i]
    BY <1>1, <1>3
  <1>5. IsPrefix(a, t)
    BY <1>1, <1>3, <1>4, PrefixEntries
  <1>6. QED
    BY <1>2, <1>5 DEF a

\* The block of a chain with a given number.
LEMMA PrefixSubSeq ==
    ASSUME NEW S, NEW t \in Seq(S), NEW n \in 0..Len(t)
    PROVE  /\ SubSeq(t, 1, n) \in Seq(S)
           /\ Len(SubSeq(t, 1, n)) = n
           /\ IsPrefix(SubSeq(t, 1, n), t)
           /\ \A i \in 1..n : SubSeq(t, 1, n)[i] = t[i]
  <1>1. Len(t) \in Nat /\ n \in Nat /\ n <= Len(t)
    BY LenProperties
  <1> DEFINE s == SubSeq(t, 1, n)
  <1>2. /\ s \in Seq(S) /\ Len(s) = n /\ \A i \in 1..n : s[i] = t[i]
    BY <1>1
  <1> HIDE DEF s
  <1>3. IsPrefix(s, t)
    BY <1>1, <1>2, PrefixEntries
  <1>4. QED
    BY <1>2, <1>3 DEF s

\* An ancestor is the block of that number.
LEMMA PrefixIsSubSeq ==
    ASSUME NEW S, NEW s \in Seq(S), NEW t \in Seq(S), IsPrefix(s, t)
    PROVE  s = SubSeq(t, 1, Len(s))
  <1>1. Len(s) \in 0..Len(t)
    BY PrefixEntries, LenProperties
  <1>2. SubSeq(t, 1, Len(s)) \in Seq(S) /\ Len(SubSeq(t, 1, Len(s))) = Len(s)
        /\ \A i \in 1..Len(s) : SubSeq(t, 1, Len(s))[i] = t[i]
    BY <1>1, PrefixSubSeq
  <1>3. \A i \in 1..Len(s) : s[i] = t[i]
    BY PrefixEntries
  <1>4. QED
    BY <1>2, <1>3, SeqEqual

\* The parent of a block.
LEMMA FrontIsParent ==
    ASSUME NEW S, NEW s \in Seq(S), s # <<>>
    PROVE  /\ Front(s) \in Seq(S) /\ Last(s) \in S
           /\ Len(Front(s)) = Len(s) - 1 /\ Len(s) \in Nat \ {0}
           /\ IsPrefix(Front(s), s)
           /\ s = Append(Front(s), Last(s))
  <1>1. Len(s) \in Nat /\ Len(s) # 0
    BY LenProperties, EmptySeq
  <1>2. /\ Front(s) \in Seq(S) /\ Len(Front(s)) = Len(s) - 1 /\ IsPrefix(Front(s), s)
        /\ \A i \in 1..(Len(s) - 1) : Front(s)[i] = s[i]
    <2>1. PICK n \in 0..Len(s) : n = Len(s) - 1
      BY <1>1
    <2>2. Front(s) = SubSeq(s, 1, n)
      BY <2>1 DEF Front
    <2>3. QED
      BY <2>1, <2>2, PrefixSubSeq
  <1>3. Last(s) \in S /\ Last(s) = s[Len(s)]
    BY <1>1, ElementOfSeq DEF Last
  <1> DEFINE f == Front(s)
             a == Append(f, Last(s))
  <1>4. /\ a \in Seq(S) /\ Len(a) = Len(s)
        /\ \A i \in 1..(Len(s) - 1) : a[i] = s[i]
        /\ a[Len(s)] = s[Len(s)]
    <2> HIDE DEF f
    <2>1. f \in Seq(S) /\ Len(f) = Len(s) - 1 /\ \A i \in 1..(Len(s) - 1) : f[i] = s[i]
      BY <1>2 DEF f
    <2>2. QED
      BY <2>1, <1>1, <1>3, AppendProperties
  <1> HIDE DEF a
  <1>5. \A i \in 1..Len(s) : a[i] = s[i]
    BY <1>1, <1>4
  <1>6. a = s
    BY <1>4, <1>5, SeqEqual
  <1>7. QED
    BY <1>1, <1>2, <1>3, <1>6 DEF a

\* The parent and the content of a block put together.
LEMMA FrontOfAppend ==
    ASSUME NEW S, NEW s \in Seq(S), NEW e \in S
    PROVE  /\ Append(s, e) \in Seq(S) /\ Len(Append(s, e)) = Len(s) + 1
           /\ Append(s, e) # <<>>
           /\ Front(Append(s, e)) = s /\ Last(Append(s, e)) = e
           /\ IsPrefix(s, Append(s, e))
  <1> DEFINE a == Append(s, e)
  <1>1. /\ a \in Seq(S) /\ Len(a) = Len(s) + 1 /\ Len(s) \in Nat
        /\ \A i \in 1..Len(s) : a[i] = s[i]
        /\ a[Len(s) + 1] = e
    BY AppendProperties, LenProperties
  <1>2. IsPrefix(s, a)
    BY PrefixReflexive, PrefixAppend
  <1> HIDE DEF a
  <1>3. Last(a) = e
    BY <1>1 DEF Last
  <1>4. a # <<>>
    BY <1>1, EmptySeq
  <1>5. Front(a) = s
    <2>1. Front(a) = SubSeq(a, 1, Len(s))
      BY <1>1 DEF Front
    <2>2. QED
      BY <2>1, <1>2, <1>1, PrefixIsSubSeq
  <1>6. QED
    BY <1>1, <1>2, <1>3, <1>4, <1>5 DEF a

\* The ancestors of a block are its prefixes.
LEMMA PrefixesFacts ==
    ASSUME NEW S, NEW t \in Seq(S)
    PROVE  /\ Prefixes(t) \subseteq Seq(S)
           /\ t \in Prefixes(t)
           /\ \A s \in Prefixes(t) : IsPrefix(s, t)
  <1>1. \A s \in Prefixes(t) : s \in Seq(S) /\ IsPrefix(s, t)
    BY PrefixSubSeq DEF Prefixes
  <1>2. t = SubSeq(t, 1, Len(t)) /\ Len(t) \in 0..Len(t)
    BY PrefixReflexive, PrefixIsSubSeq, LenProperties
  <1>3. t \in Prefixes(t)
    BY <1>2 DEF Prefixes
  <1>4. QED
    BY <1>1, <1>3

\* Among some blocks there is one with the least number.
LEMMA ShortestSeq ==
    ASSUME NEW S, NEW T, T \subseteq Seq(S), T # {}
    PROVE  LET b == CHOOSE s \in T : \A u \in T : Len(s) <= Len(u)
           IN  b \in T /\ \A u \in T : Len(b) <= Len(u)
  <1> DEFINE L == {Len(s) : s \in T}
  <1>1. L \subseteq Nat /\ L # {}
    BY LenProperties
  <1>2. PICK n \in L : \A m \in L : n <= m
    BY <1>1, LeastNumber
  <1>3. PICK s \in T : n = Len(s)
    OBVIOUS
  <1>4. \A u \in T : Len(s) <= Len(u)
    BY <1>2, <1>3
  <1>5. QED
    BY <1>4

-----------------------------------------------------------------------------
(* Subsequences *)

\* The positions of n indices are 1 to n, in the order of the indices.
LEMMA RankFacts ==
    ASSUME NEW I \in SUBSET Nat, IsFiniteSet(I)
    PROVE  /\ Cardinality(I) \in Nat
           /\ \A i \in I : Rank(I, i) \in 1..Cardinality(I)
           /\ \A i, j \in I : i < j => Rank(I, i) < Rank(I, j)
           /\ \A k \in 1..Cardinality(I) : \E i \in I : Rank(I, i) = k
  <1> DEFINE Upto(i) == {j \in I : j <= i}
             n == Cardinality(I)
  <1>1. n \in Nat
    BY FS_CardinalityType
  <1>2. \A i \in I : Upto(i) \subseteq I /\ i \in Upto(i)
    OBVIOUS
  <1>3. \A i \in I : /\ IsFiniteSet(Upto(i)) /\ Cardinality(Upto(i)) \in Nat
                     /\ Cardinality(Upto(i)) <= n /\ Cardinality(Upto(i)) # 0
    <2> SUFFICES ASSUME NEW i \in I
                 PROVE  /\ IsFiniteSet(Upto(i)) /\ Cardinality(Upto(i)) \in Nat
                        /\ Cardinality(Upto(i)) <= n /\ Cardinality(Upto(i)) # 0
      OBVIOUS
    <2> DEFINE U == Upto(i)
    <2>1. U \in SUBSET I /\ U # {}
      BY <1>2
    <2> HIDE DEF U
    <2>2. IsFiniteSet(U) /\ Cardinality(U) <= n
      BY <2>1, FS_Subset
    <2>3. Cardinality(U) \in Nat /\ Cardinality(U) # 0
      BY <2>1, <2>2, FS_CardinalityType, FS_EmptySet
    <2>4. QED
      BY <2>2, <2>3 DEF U
  <1>4. \A i \in I : Rank(I, i) \in 1..n
    BY <1>1, <1>3 DEF Rank
  <1>5. ASSUME NEW i \in I, NEW j \in I, i < j
        PROVE  Rank(I, i) < Rank(I, j)
    <2> DEFINE U == Upto(i)
               V == Upto(j)
    <2>1. U \in SUBSET V /\ U # V
      <3>1. i \in Nat /\ j \in Nat /\ i < j
        BY <1>5
      <3>2. \A m \in I : m <= i => m <= j
        BY <3>1
      <3>3. j \in V /\ j \notin U
        BY <3>1
      <3>4. QED
        BY <3>2, <3>3
    <2>2. /\ IsFiniteSet(V) /\ Cardinality(U) \in Nat /\ Cardinality(V) \in Nat
      BY <1>3
    <2> HIDE DEF U, V
    <2>3. Cardinality(U) <= Cardinality(V) /\ Cardinality(U) # Cardinality(V)
      BY <2>1, <2>2, FS_Subset
    <2>4. Cardinality(U) < Cardinality(V)
      BY <2>2, <2>3
    <2>5. QED
      BY <2>4 DEF Rank, U, V
  <1> HIDE DEF Upto
  <1>6. \A k \in 1..n : \E i \in I : Rank(I, i) = k
    <2> DEFINE f == [i \in I |-> Rank(I, i)]
               N == 1..n
    <2>1. f \in [I -> N]
      BY <1>4
    <2>2. \A i, j \in I : f[i] = f[j] => i = j
      <3> SUFFICES ASSUME NEW i \in I, NEW j \in I, Rank(I, i) = Rank(I, j) PROVE i = j
        OBVIOUS
      <3>1. Rank(I, i) \in Nat /\ i \in Nat /\ j \in Nat
        BY <1>1, <1>4
      <3>2. ~(i < j) /\ ~(j < i)
        BY <1>5, <3>1
      <3>3. QED
        BY <3>1, <3>2
    <2>3. IsFiniteSet(N) /\ Cardinality(N) = n
      BY <1>1, FS_Interval
    <2> HIDE DEF N
    <2>4. f \in Injection(I, N)
      BY <2>1, <2>2 DEF Injection, IsInjective
    <2> HIDE DEF f
    <2>5. f \in Surjection(I, N)
      BY <2>3, <2>4, FS_Injection
    <2>6. \A k \in N : \E i \in I : f[i] = k
      BY <2>5 DEF Surjection
    <2>7. QED
      BY <2>6 DEF f, N
  <1>7. QED
    BY <1>1, <1>4, <1>5, <1>6

\* The indices in their order.
Index(I) == [k \in 1..Cardinality(I) |-> CHOOSE i \in I : Rank(I, i) = k]

\* A subsequence has the entries at the indices, each once and in their order.
LEMMA KeepIndices ==
    ASSUME NEW S, NEW s \in Seq(S), NEW I \in SUBSET (DOMAIN s)
    PROVE  LET r == Keep(s, I)
               f == Index(I)
           IN  /\ r \in Seq(S)
               /\ r = <<>> <=> I = {}
               /\ \A k \in DOMAIN r : f[k] \in I /\ r[k] = s[f[k]]
               /\ \A j, k \in DOMAIN r : j < k => f[j] < f[k]
               /\ \A i \in I : \E k \in DOMAIN r : f[k] = i
  <1> DEFINE n == Cardinality(I)
             f == Index(I)
             r == Keep(s, I)
  <1>1. DOMAIN s = 1..Len(s) /\ Len(s) \in Nat /\ \A i \in DOMAIN s : s[i] \in S
    BY LenProperties, ElementOfSeq
  <1>2. IsFiniteSet(DOMAIN s)
    BY <1>1, FS_Interval
  <1>3. IsFiniteSet(I) /\ I \in SUBSET Nat
    BY <1>1, <1>2, FS_Subset
  <1>4. /\ n \in Nat
        /\ \A i \in I : Rank(I, i) \in 1..n
        /\ \A i, j \in I : i < j => Rank(I, i) < Rank(I, j)
        /\ \A k \in 1..n : \E i \in I : Rank(I, i) = k
    BY <1>3, RankFacts
  <1>5. \A k \in 1..n : f[k] \in I /\ Rank(I, f[k]) = k
    BY <1>4 DEF Index
  <1>6. r = [k \in 1..n |-> s[f[k]]]
    BY DEF Keep, Index
  <1>7. n = 0 <=> I = {}
    BY <1>3, FS_EmptySet
  <1> HIDE DEF n, r
  <1> HIDE DEF f
  <1>9. \A k \in 1..n : s[f[k]] \in S
    BY <1>1, <1>5
  <1>10. r \in Seq(S) /\ Len(r) = n /\ DOMAIN r = 1..n
    BY <1>4, <1>6, <1>9, IsASeq
  <1>11. \A k \in 1..n : r[k] = s[f[k]]
    BY <1>6
  <1>12. ASSUME NEW j \in 1..n, NEW k \in 1..n, j < k
         PROVE  f[j] < f[k]
    <2>1. f[j] \in Nat /\ f[k] \in Nat /\ j \in Nat /\ k \in Nat
      BY <1>3, <1>5, <1>4
    <2>2. ~(f[k] < f[j])
      BY <1>4, <1>5, <1>12, <2>1
    <2>3. f[j] # f[k]
      BY <1>5, <1>12, <2>1
    <2>4. QED
      BY <2>1, <2>2, <2>3
  <1>13. ASSUME NEW i \in I
         PROVE  \E k \in 1..n : f[k] = i
    <2> DEFINE k == Rank(I, i)
    <2>1. k \in 1..n
      BY <1>4
    <2> HIDE DEF k
    <2>2. f[k] \in I /\ Rank(I, f[k]) = k
      BY <1>5, <2>1
    <2>3. Rank(I, i) = k /\ f[k] \in Nat /\ i \in Nat /\ k \in Nat
      BY <1>3, <1>4, <2>1, <2>2 DEF k
    <2>4. ~(i < f[k]) /\ ~(f[k] < i)
      BY <1>4, <2>2, <2>3
    <2>5. QED
      BY <2>1, <2>3, <2>4
  <1>14. r = <<>> <=> I = {}
    BY <1>7, <1>10, EmptySeq
  <1>15. /\ \A k \in DOMAIN r : f[k] \in I /\ r[k] = s[f[k]]
         /\ \A j, k \in DOMAIN r : j < k => f[j] < f[k]
         /\ \A i \in I : \E k \in DOMAIN r : f[k] = i
    BY <1>5, <1>10, <1>11, <1>12, <1>13
  <1>16. QED
    BY <1>10, <1>14, <1>15 DEF r, f

\* What a filter leaves are entries of the list.
LEMMA KeepFacts ==
    ASSUME NEW S, NEW s \in Seq(S), NEW I \in SUBSET (DOMAIN s)
    PROVE  /\ Keep(s, I) \in Seq(S)
           /\ Keep(s, I) = <<>> <=> I = {}
           /\ \A k \in DOMAIN Keep(s, I) : \E x \in I : Keep(s, I)[k] = s[x]
  BY KeepIndices

\* They are in their old order.
LEMMA KeepOrder ==
    ASSUME NEW S, NEW s \in Seq(S), NEW I \in SUBSET (DOMAIN s),
           NEW j \in DOMAIN Keep(s, I), NEW k \in DOMAIN Keep(s, I), j < k
    PROVE  \E x, y \in I : x < y /\ Keep(s, I)[j] = s[x] /\ Keep(s, I)[k] = s[y]
  BY KeepIndices

\* A set of numbers with a bound has a greatest one.
LEMMA GreatestNumber ==
    ASSUME NEW n \in Nat, NEW T, T \subseteq 0..n, T # {}
    PROVE  \E x \in T : \A y \in T : y <= x
  <1> DEFINE D == {n - x : x \in T}
  <1>1. D \subseteq Nat /\ D # {}
    <2>1. \A x \in T : n - x \in Nat
      OBVIOUS
    <2>2. QED
      BY <2>1
  <1>2. PICK d \in D : \A e \in D : d <= e
    <2> HIDE DEF D
    <2>1. QED
      BY <1>1, LeastNumber
  <1>3. PICK x \in T : d = n - x
    OBVIOUS
  <1>4. \A y \in T : n - y \in D /\ y \in Nat /\ x \in Nat
    OBVIOUS
  <1> HIDE DEF D
  <1>5. \A y \in T : n - x <= n - y
    BY <1>2, <1>3, <1>4
  <1>6. QED
    BY <1>4, <1>5

\* A filter that keeps the last entry ends with it.
LEMMA KeepLast ==
    ASSUME NEW S, NEW s \in Seq(S), NEW I \in SUBSET (DOMAIN s), Len(s) \in I
    PROVE  LET r == Keep(s, I)
           IN  r # <<>> /\ r[Len(r)] = s[Len(s)]
  <1> DEFINE r == Keep(s, I)
             f == Index(I)
  <1>1. r \in Seq(S) /\ r # <<>>
    BY KeepIndices
  <1>2. /\ \A k \in DOMAIN r : f[k] \in I /\ r[k] = s[f[k]]
        /\ \A j, k \in DOMAIN r : j < k => f[j] < f[k]
        /\ \A i \in I : \E k \in DOMAIN r : f[k] = i
    BY KeepIndices
  <1> HIDE DEF r, f
  <1>3. DOMAIN r = 1..Len(r) /\ Len(r) \in Nat /\ Len(r) \in DOMAIN r
        /\ DOMAIN s = 1..Len(s) /\ Len(s) \in Nat
    BY <1>1, LenProperties, EmptySeq
  <1>4. PICK k \in DOMAIN r : f[k] = Len(s)
    BY <1>2
  <1>5. f[Len(r)] \in 1..Len(s) /\ (k < Len(r) => f[k] < f[Len(r)])
    BY <1>2, <1>3
  <1>6. k = Len(r)
    BY <1>3, <1>4, <1>5
  <1>7. r # <<>> /\ r[Len(r)] = s[Len(s)]
    BY <1>1, <1>2, <1>4, <1>6
  <1>8. QED
    BY <1>7 DEF r


\* Keeping the entries from index a on drops the ones before it.
LEMMA KeepFrom ==
    ASSUME NEW S, NEW s \in Seq(S), NEW a \in 1..Len(s)
    PROVE  LET r == Keep(s, a..Len(s))
           IN  Len(r) = Len(s) - a + 1 /\ \A k \in 1..(Len(s) - a + 1) : r[k] = s[a + k - 1]
  <1>1. PICK n \in Nat : n = Len(s)
    BY LenProperties
  <1>2. a \in Nat /\ 1 <= a /\ a <= n
    BY <1>1
  <1> DEFINE I == a..n
             size == n - a + 1
  <1>3. size \in Nat
    BY <1>2
  <1>4. Cardinality(I) = size
    BY <1>2, FS_Interval
  <1>5. \A i \in I : Rank(I, i) = i - a + 1
    <2> TAKE i \in I
    <2>1. {j \in I : j <= i} = a..i
      BY <1>2
    <2>2. Cardinality(a..i) = i - a + 1
      BY <1>2, FS_Interval
    <2>3. QED
      BY <2>1, <2>2 DEF Rank
  <1>6. ASSUME NEW k \in 1..size
        PROVE  (CHOOSE i \in I : Rank(I, i) = k) = a + k - 1
    <2>1. a + k - 1 \in I /\ a + k - 1 - a + 1 = k
      BY <1>2
    <2>2. Rank(I, a + k - 1) = k
      BY <1>5, <2>1
    <2>3. \A i \in I : Rank(I, i) = k => i = a + k - 1
      BY <1>2, <1>5
    <2>4. QED
      BY <2>1, <2>2, <2>3
  <1> DEFINE r == Keep(s, I)
  <1>7. r = [k \in 1..size |-> s[CHOOSE i \in I : Rank(I, i) = k]]
    BY <1>4 DEF Keep
  <1>8. \A k \in 1..size : r[k] = s[a + k - 1]
    BY <1>6, <1>7
  <1>9. Len(r) = size
    <2>1. I \in SUBSET (DOMAIN s)
      BY <1>1, <1>2, LenProperties
    <2>2. r \in Seq(S)
      BY <2>1, KeepFacts
    <2>3. DOMAIN r = 1..size
      BY <1>7
    <2> HIDE DEF r, size
    <2>4. DOMAIN r = 1..Len(r) /\ Len(r) \in Nat
      BY <2>2, LenProperties
    <2>5. QED
      BY <1>3, <2>3, <2>4
  <1>10. QED
    BY <1>1, <1>8, <1>9
=============================================================================
