-------------------------- MODULE ScrapingProofs -----------------------------
(***************************************************************************)
(* Proofs about scraping and storing profiles.  First what selecting from  *)
(* a sequence of usernames leaves of it; then ScrapeBatch, and with it     *)
(* ProfileStore, for every number of batches, usernames, accounts,         *)
(* credentials, pages and faults; last the command line tools, ScrapeTools.*)
(***************************************************************************)
EXTENDS ScrapeBatch, ScrapeTools, SequenceTheorems, FiniteSetTheorems, WellFoundedInduction, TLAPS

-----------------------------------------------------------------------------
\* Sequences and the sets of their elements

LEMMA Smallest ==
  ASSUME NEW S, S \subseteq Nat, S # {}
  PROVE  \E i \in S : \A j \in S : i <= j
<1>1. PICK i \in S : \A j \in S : <<j, i>> \notin OpToRel(<, Nat)
  BY NatLessThanWellFounded, WFMin, Zenon
<1>2. \A j \in S : ~(j < i)
  BY <1>1 DEF OpToRel
<1> QED  BY <1>2

LEMMA ToSetType ==
  ASSUME NEW S, NEW s \in Seq(S)
  PROVE  /\ ToSet(s) \subseteq S /\ IsFiniteSet(ToSet(s))
         /\ \A i \in 1 .. Len(s) : s[i] \in ToSet(s)
         /\ \A u \in ToSet(s) : \E i \in 1 .. Len(s) : u = s[i]
<1>1. DOMAIN s = 1 .. Len(s) /\ Len(s) \in Nat /\ \A i \in 1 .. Len(s) : s[i] \in S
  OBVIOUS
<1>2. ToSet(s) \subseteq S /\ (\A i \in 1 .. Len(s) : s[i] \in ToSet(s))
      /\ \A u \in ToSet(s) : \E i \in 1 .. Len(s) : u = s[i]
  BY <1>1 DEF ToSet
<1>3. s \in Surjection(1 .. Len(s), ToSet(s))
  <2>1. s \in [1 .. Len(s) -> ToSet(s)]
    BY <1>1, <1>2
  <2> QED  BY <2>1, <1>2 DEF Surjection
<1>4. IsFiniteSet(1 .. Len(s))
  BY <1>1, FS_Interval
<1> QED  BY <1>2, <1>3, <1>4, FS_Surjection

LEMMA ToSetAppend ==
  ASSUME NEW S, NEW s \in Seq(S), NEW u \in S
  PROVE  Append(s, u) \in Seq(S) /\ ToSet(Append(s, u)) = ToSet(s) \cup {u}
<1>1. /\ Append(s, u) \in Seq(S) /\ DOMAIN Append(s, u) = 1 .. Len(s) + 1 /\ Len(s) \in Nat
      /\ \A i \in 1 .. Len(s) : Append(s, u)[i] = s[i]
      /\ Append(s, u)[Len(s) + 1] = u
  BY AppendProperties
<1>2. \A i \in 1 .. Len(s) + 1 : i \in 1 .. Len(s) \/ i = Len(s) + 1
  BY <1>1
<1>3. 1 .. Len(s) \subseteq 1 .. Len(s) + 1 /\ Len(s) + 1 \in 1 .. Len(s) + 1 /\ DOMAIN s = 1 .. Len(s)
  BY <1>1
<1> QED  BY <1>1, <1>2, <1>3 DEF ToSet

LEMMA ToSetTail ==
  ASSUME NEW S, NEW s \in Seq(S), s # <<>>
  PROVE  /\ Head(s) \in S /\ Tail(s) \in Seq(S)
         /\ ToSet(s) = ToSet(Tail(s)) \cup {Head(s)}
         /\ IsInjective(s) => IsInjective(Tail(s)) /\ Head(s) \notin ToSet(Tail(s))
<1> DEFINE n == Len(s)
           t == Tail(s)
<1>1. /\ n \in Nat /\ n > 0 /\ Head(s) = s[1] /\ Head(s) \in S /\ t \in Seq(S) /\ Len(t) = n - 1
      /\ \A i \in 1 .. Len(t) : t[i] = s[i + 1]
      /\ DOMAIN s = 1 .. n /\ DOMAIN t = 1 .. Len(t)
  BY HeadTailProperties
<1> HIDE DEF n, t
<1>2. \A i \in 1 .. n : i = 1 \/ (i - 1 \in 1 .. n - 1 /\ (i - 1) + 1 = i)
  BY <1>1
<1>3. \A i \in 1 .. n - 1 : i + 1 \in 1 .. n /\ i + 1 # 1
  BY <1>1
<1>4. ToSet(s) = ToSet(t) \cup {Head(s)}
  <2>1. ASSUME NEW i \in 1 .. n
        PROVE  s[i] \in ToSet(t) \cup {Head(s)}
    <3>1. CASE i = 1
      BY <1>1, <3>1
    <3>2. CASE i - 1 \in 1 .. n - 1 /\ (i - 1) + 1 = i
      <4>1. s[i] = t[i - 1] /\ i - 1 \in DOMAIN t
        BY <1>1, <3>2
      <4> QED  BY <4>1 DEF ToSet
    <3> QED  BY <1>2, <3>1, <3>2
  <2>2. \A i \in 1 .. n - 1 : t[i] \in ToSet(s)
    BY <1>1, <1>3 DEF ToSet
  <2>3. Head(s) \in ToSet(s)
    BY <1>1 DEF ToSet
  <2> QED  BY <1>1, <2>1, <2>2, <2>3 DEF ToSet
<1>5. ASSUME IsInjective(s)
      PROVE  IsInjective(t) /\ Head(s) \notin ToSet(t)
  <2>1. \A i, j \in 1 .. n : s[i] = s[j] => i = j
    BY <1>1, <1>5 DEF IsInjective
  <2>2. Head(s) \notin ToSet(t)
    BY <1>1, <1>3, <2>1 DEF ToSet
  <2>3. \A i, j \in 1 .. n - 1 : t[i] = t[j] => i + 1 = j + 1
    BY <1>1, <1>3, <2>1
  <2>4. \A i, j \in 1 .. n - 1 : t[i] = t[j] => i = j
    BY <1>1, <2>3
  <2> QED  BY <1>1, <2>2, <2>4 DEF IsInjective
<1> QED  BY <1>1, <1>4, <1>5 DEF t

LEMMA ToSetConcat ==
  ASSUME NEW S, NEW s \in Seq(S), NEW t \in Seq(S)
  PROVE  s \o t \in Seq(S) /\ ToSet(s \o t) = ToSet(s) \cup ToSet(t)
<1> DEFINE m == Len(s)
           n == Len(t)
           c == s \o t
<1>1. /\ m \in Nat /\ n \in Nat /\ c \in Seq(S) /\ DOMAIN c = 1 .. m + n
      /\ \A i \in 1 .. m + n : c[i] = IF i <= m THEN s[i] ELSE t[i - m]
      /\ DOMAIN s = 1 .. m /\ DOMAIN t = 1 .. n
  BY ConcatProperties
<1> HIDE DEF m, n, c
<1>2. \A i \in 1 .. m : i \in 1 .. m + n /\ i <= m
  BY <1>1
<1>3. \A i \in 1 .. n : i + m \in 1 .. m + n /\ ~(i + m <= m) /\ (i + m) - m = i
  BY <1>1
<1>4. \A i \in 1 .. m + n : i \in 1 .. m \/ (~(i <= m) /\ i - m \in 1 .. n)
  BY <1>1
<1>5. \A i \in 1 .. m : s[i] \in ToSet(c)
  BY <1>1, <1>2 DEF ToSet
<1>6. \A i \in 1 .. n : t[i] \in ToSet(c)
  <2> TAKE i \in 1 .. n
  <2>1. c[i + m] = t[i]
    BY <1>1, <1>3
  <2> QED  BY <1>1, <1>3, <2>1 DEF ToSet
<1>7. ASSUME NEW i \in 1 .. m + n
      PROVE  c[i] \in ToSet(s) \cup ToSet(t)
  <2>1. CASE i \in 1 .. m
    <3>1. c[i] = s[i]
      BY <1>1, <2>1
    <3> QED  BY <1>1, <2>1, <3>1 DEF ToSet
  <2>2. CASE ~(i <= m) /\ i - m \in 1 .. n
    <3>1. c[i] = t[i - m]
      BY <1>1, <2>2
    <3> QED  BY <1>1, <2>2, <3>1 DEF ToSet
  <2> QED  BY <1>4, <2>1, <2>2
<1> QED  BY <1>1, <1>5, <1>6, <1>7 DEF ToSet, c

\* How many of the numbers of A are no larger than i.
Rank(A, i) == Cardinality({j \in A : j <= i})

\* A finite set of numbers has one of every rank.
LEMMA RankFacts ==
  ASSUME NEW m \in Nat, NEW A, A \subseteq 1 .. m
  PROVE  /\ IsFiniteSet(A) /\ Cardinality(A) \in Nat
         /\ \A i \in A : Rank(A, i) \in 1 .. Cardinality(A)
         /\ \A i, j \in A : Rank(A, i) = Rank(A, j) => i = j
         /\ \A n \in 1 .. Cardinality(A) : \E i \in A : Rank(A, i) = n
<1>1. IsFiniteSet(A) /\ Cardinality(A) \in Nat /\ A \subseteq Nat
  <2>1. IsFiniteSet(1 .. m) /\ A \in SUBSET (1 .. m)
    BY FS_Interval
  <2>2. IsFiniteSet(A)
    BY <2>1, FS_Subset
  <2> QED  BY <2>1, <2>2, FS_CardinalityType
<1>a. \A j \in A : j \in Int /\ 1 <= j /\ j <= m
  OBVIOUS
<1>2. ASSUME NEW i
      PROVE  IsFiniteSet({j \in A : j <= i}) /\ Rank(A, i) \in Nat /\ Rank(A, i) <= Cardinality(A)
  <2>1. {j \in A : j <= i} \in SUBSET A
    OBVIOUS
  <2> QED  BY <1>1, <2>1, FS_Subset, FS_CardinalityType DEF Rank
<1>3. ASSUME NEW i \in A
      PROVE  Rank(A, i) \in 1 .. Cardinality(A)
  <2>1. {j \in A : j <= i} # {}
    BY <1>a
  <2>2. Rank(A, i) # 0
    BY <1>2, <2>1, FS_EmptySet DEF Rank
  <2>3. Rank(A, i) \in Nat /\ Rank(A, i) <= Cardinality(A) /\ Cardinality(A) \in Nat
    BY <1>1, <1>2
  <2> QED  BY <2>2, <2>3
<1>4. ASSUME NEW i \in A, NEW j \in A, i < j
      PROVE  Rank(A, i) < Rank(A, j)
  <2> DEFINE I == {k \in A : k <= i}
             J == {k \in A : k <= j}
  <2>1. I \in SUBSET J /\ j \in J /\ j \notin I
    <3>1. \A k \in A : k <= i => k <= j
      BY <1>a, <1>4
    <3>2. j <= j /\ ~(j <= i)
      BY <1>a, <1>4
    <3> QED  BY <3>1, <3>2
  <2>2. IsFiniteSet(J) /\ Cardinality(I) \in Nat /\ Cardinality(J) \in Nat
    BY <1>2 DEF Rank
  <2> HIDE DEF I, J
  <2>3. Cardinality(I) <= Cardinality(J) /\ Cardinality(I) # Cardinality(J)
    BY <2>1, <2>2, FS_Subset
  <2>4. Cardinality(I) < Cardinality(J)
    BY <2>2, <2>3
  <2> QED  BY <2>4 DEF Rank, I, J
<1>5. ASSUME NEW i \in A, NEW j \in A, Rank(A, i) = Rank(A, j)
      PROVE  i = j
  <2>1. Rank(A, i) \in Nat /\ Rank(A, j) \in Nat /\ i \in Nat /\ j \in Nat
    BY <1>1, <1>2
  <2>2. ~(i < j) /\ ~(j < i)
    BY <1>4, <1>5, <2>1
  <2> QED  BY <2>1, <2>2
<1>6. ASSUME NEW n \in 1 .. Cardinality(A)
      PROVE  \E i \in A : Rank(A, i) = n
  <2> DEFINE S == {i \in 0 .. m : Rank(A, i) >= n}
  <2>1. m \in S
    <3>1. {j \in A : j <= m} = A
      BY <1>a
    <3>2. Cardinality(A) >= n /\ m \in 0 .. m
      BY <1>1
    <3> QED  BY <3>1, <3>2 DEF Rank
  <2>2. PICK i \in S : \A j \in S : i <= j
    <3>1. S \subseteq Nat /\ S # {}
      BY <2>1
    <3> QED  BY <3>1, Smallest
  <2>3. i \in 0 .. m /\ Rank(A, i) >= n /\ Rank(A, i) \in Nat /\ n \in Nat /\ n >= 1
    <3>1. i \in 0 .. m /\ Rank(A, i) >= n
      OBVIOUS
    <3>2. Rank(A, i) \in Nat
      BY <1>2
    <3>3. n \in Nat /\ n >= 1
      BY <1>1
    <3> QED  BY <3>1, <3>2, <3>3
  <2>4. i # 0
    <3>1. {j \in A : j <= 0} = {}
      <4>1. \A j \in A : ~(j <= 0)
        BY <1>a
      <4> QED  BY <4>1
    <3>2. Rank(A, 0) = 0
      BY <3>1, FS_EmptySet DEF Rank
    <3> QED  BY <2>3, <3>2
  <2>5. i - 1 \in 0 .. m /\ ~(i <= i - 1) /\ i \in Nat
    BY <2>3, <2>4
  <2>6. ~(Rank(A, i - 1) >= n) /\ Rank(A, i - 1) \in Nat
    BY <1>2, <2>2, <2>5
  <2>7. \A j \in A : j <= i <=> (j <= i - 1 \/ j = i)
    BY <1>a, <2>5
  <2>8. i \in A /\ {j \in A : j <= i} = {j \in A : j <= i - 1} \cup {i}
    <3>1. i \in A
      <4>1. SUFFICES ASSUME i \notin A
                     PROVE  FALSE
        OBVIOUS
      <4>2. {j \in A : j <= i} = {j \in A : j <= i - 1}
        BY <2>7, <4>1
      <4>3. Rank(A, i) = Rank(A, i - 1)
        BY <4>2 DEF Rank
      <4> QED  BY <2>3, <2>6, <4>3
    <3>2. {j \in A : j <= i} = {j \in A : j <= i - 1} \cup {i}
      BY <2>7, <3>1
    <3> QED  BY <3>1, <3>2
  <2>9. Rank(A, i) = Rank(A, i - 1) + 1
    <3> DEFINE I == {j \in A : j <= i - 1}
    <3>1. IsFiniteSet(I) /\ i \notin I
      BY <1>2, <2>5
    <3> HIDE DEF I
    <3>2. Cardinality(I \cup {i}) = Cardinality(I) + 1
      BY <3>1, FS_AddElement
    <3> QED  BY <2>8, <3>2 DEF Rank, I
  <2>10. Rank(A, i) = n
    BY <2>3, <2>6, <2>9
  <2> QED  BY <2>8, <2>10
<1> QED  BY <1>1, <1>3, <1>5, <1>6

\* The elements that are kept, each once if it was there once.
LEMMA KeptFacts ==
  ASSUME NEW T, NEW s \in Seq(T), NEW S
  PROVE  /\ Kept(s, S) \in Seq(T) /\ ToSet(Kept(s, S)) = ToSet(s) \cap S
         /\ IsInjective(s) => IsInjective(Kept(s, S))
<1> DEFINE at == {i \in DOMAIN s : s[i] \in S}
           nth(n) == CHOOSE i \in at : Cardinality({j \in at : j <= i}) = n
           N == Cardinality(at)
           k == Kept(s, S)
<1>1. DOMAIN s = 1 .. Len(s) /\ Len(s) \in Nat /\ at \subseteq 1 .. Len(s)
      /\ (\A i \in at : i \in DOMAIN s /\ s[i] \in S) /\ (\A i \in DOMAIN s : s[i] \in T)
      /\ \A i \in DOMAIN s : s[i] \in S => i \in at
  OBVIOUS
<1>2. k = [n \in 1 .. N |-> s[nth(n)]]
  BY DEF Kept
<1> HIDE DEF at, k
<1>3. /\ N \in Nat
      /\ \A i \in at : Rank(at, i) \in 1 .. N
      /\ \A i, j \in at : Rank(at, i) = Rank(at, j) => i = j
      /\ \A n \in 1 .. N : \E i \in at : Rank(at, i) = n
  BY <1>1, RankFacts
<1>4. \A n \in 1 .. N : nth(n) \in at /\ Rank(at, nth(n)) = n
  <2> TAKE n \in 1 .. N
  <2>1. \E i \in at : Cardinality({j \in at : j <= i}) = n
    BY <1>3 DEF Rank
  <2>2. nth(n) \in at /\ Cardinality({j \in at : j <= nth(n)}) = n
    BY <2>1, Zenon
  <2> QED  BY <2>2 DEF Rank
<1> HIDE DEF nth, N
<1>5. DOMAIN k = 1 .. N /\ \A n \in 1 .. N : k[n] = s[nth(n)] /\ k[n] \in T /\ k[n] \in S
  BY <1>1, <1>2, <1>4
<1>6. k \in Seq(T)
  BY <1>2, <1>3, <1>5
<1>7. ToSet(k) \subseteq ToSet(s) \cap S
  BY <1>1, <1>4, <1>5 DEF ToSet
<1>8. ASSUME NEW u \in ToSet(s) \cap S
      PROVE  u \in ToSet(k)
  <2>1. PICK i \in DOMAIN s : u = s[i]
    BY DEF ToSet
  <2>2. i \in at
    BY <1>1, <2>1
  <2>3. Rank(at, i) \in 1 .. N /\ nth(Rank(at, i)) = i
    BY <1>3, <1>4, <2>2
  <2>4. k[Rank(at, i)] = u
    BY <1>5, <2>1, <2>3
  <2> QED  BY <1>5, <2>3, <2>4 DEF ToSet
<1>9. ASSUME IsInjective(s)
      PROVE  IsInjective(k)
  <2>1. ASSUME NEW m \in 1 .. N, NEW n \in 1 .. N, k[m] = k[n]
        PROVE  m = n
    <3>1. nth(m) = nth(n)
      BY <1>1, <1>4, <1>5, <1>9, <2>1 DEF IsInjective
    <3> QED  BY <1>4, <3>1
  <2> QED  BY <1>5, <2>1 DEF IsInjective
<1> QED  BY <1>6, <1>7, <1>8, <1>9 DEF k

\* A set as a sequence, in any order.
LEMMA SetToSeqsFacts ==
  ASSUME NEW S, IsFiniteSet(S), NEW f \in SetToSeqs(S)
  PROVE  f \in Seq(S) /\ ToSet(f) = S /\ IsInjective(f)
<1> DEFINE N == Cardinality(S)
           D == 1 .. N
<1>1. N \in Nat /\ IsFiniteSet(D) /\ Cardinality(D) = N
  <2>1. N \in Nat
    BY FS_CardinalityType
  <2> HIDE DEF N
  <2>2. IsFiniteSet(D) /\ Cardinality(D) = IF 1 > N THEN 0 ELSE N - 1 + 1
    BY <2>1, FS_Interval
  <2> QED  BY <2>1, <2>2
<1>2. f \in [D -> S] /\ \A i, j \in D : i # j => f[i] # f[j]
  BY DEF SetToSeqs
<1>3. f \in Injection(D, S)
  BY <1>2 DEF Injection, IsInjective
<1>4. f \in Surjection(D, S)
  BY <1>1, <1>3, FS_Injection
<1>5. ToSet(f) = S
  BY <1>2, <1>4 DEF Surjection, ToSet
<1>6. f \in Seq(S)
  BY <1>1, <1>2
<1> QED  BY <1>2, <1>5, <1>6 DEF IsInjective

\* Tails, and sequences one after the other, have an element once if it was there once.
LEMMA InjectiveAppend ==
  ASSUME NEW S, NEW s \in Seq(S), IsInjective(s), NEW u \in S, u \notin ToSet(s)
  PROVE  IsInjective(Append(s, u))
<1>1. /\ DOMAIN Append(s, u) = 1 .. Len(s) + 1 /\ Len(s) \in Nat /\ DOMAIN s = 1 .. Len(s)
      /\ \A i \in 1 .. Len(s) : Append(s, u)[i] = s[i]
      /\ Append(s, u)[Len(s) + 1] = u
  BY AppendProperties
<1>2. \A i \in 1 .. Len(s) + 1 : i \in 1 .. Len(s) \/ i = Len(s) + 1
  BY <1>1
<1>3. \A i \in 1 .. Len(s) : s[i] # u
  BY <1>1 DEF ToSet
<1> QED  BY <1>1, <1>2, <1>3 DEF IsInjective

LEMMA InjectiveConcat ==
  ASSUME NEW S, NEW s \in Seq(S), NEW t \in Seq(S), IsInjective(s), IsInjective(t),
         ToSet(s) \cap ToSet(t) = {}
  PROVE  IsInjective(s \o t)
<1> DEFINE m == Len(s)
           n == Len(t)
           c == s \o t
<1>1. /\ m \in Nat /\ n \in Nat /\ DOMAIN c = 1 .. m + n
      /\ \A i \in 1 .. m + n : c[i] = IF i <= m THEN s[i] ELSE t[i - m]
      /\ DOMAIN s = 1 .. m /\ DOMAIN t = 1 .. n
  BY ConcatProperties
<1> HIDE DEF m, n, c
<1>2. \A i \in 1 .. m + n : (i \in 1 .. m /\ i <= m) \/ (~(i <= m) /\ i - m \in 1 .. n)
  BY <1>1
<1>3. ASSUME NEW i \in 1 .. m + n, NEW j \in 1 .. m + n, c[i] = c[j]
      PROVE  i = j
  <2>1. CASE i \in 1 .. m /\ i <= m /\ j \in 1 .. m /\ j <= m
    <3>1. s[i] = s[j]
      BY <1>1, <1>3, <2>1
    <3> QED  BY <1>1, <2>1, <3>1 DEF IsInjective
  <2>2. CASE ~(i <= m) /\ i - m \in 1 .. n /\ ~(j <= m) /\ j - m \in 1 .. n
    <3>1. t[i - m] = t[j - m]
      BY <1>1, <1>3, <2>2
    <3>2. i - m = j - m
      BY <1>1, <2>2, <3>1 DEF IsInjective
    <3> QED  BY <1>1, <3>2
  <2>3. ASSUME NEW k \in 1 .. m, NEW l \in 1 .. n
        PROVE  s[k] # t[l]
    BY <1>1 DEF ToSet
  <2>4. CASE i \in 1 .. m /\ i <= m /\ ~(j <= m) /\ j - m \in 1 .. n
    BY <1>1, <1>3, <2>3, <2>4
  <2>5. CASE ~(i <= m) /\ i - m \in 1 .. n /\ j \in 1 .. m /\ j <= m
    BY <1>1, <1>3, <2>3, <2>5
  <2> QED  BY <1>2, <2>1, <2>2, <2>4, <2>5
<1> QED  BY <1>1, <1>3 DEF IsInjective, c

LEMMA EmptyFacts ==
  /\ \A S : <<>> \in Seq(S)
  /\ ToSet(<<>>) = {} /\ IsInjective(<<>>)
<1>1. DOMAIN <<>> = {}
  OBVIOUS
<1> QED  BY <1>1 DEF ToSet, IsInjective

\* What the command line tools take from a sequence: the next batch, and the others.
LEMMA BatchFacts ==
  ASSUME NEW T, NEW s \in Seq(T)
  PROVE  /\ FirstBatch(s) \in Seq(T) /\ OtherBatches(s) \in Seq(T)
         /\ ToSet(s) = ToSet(FirstBatch(s)) \cup ToSet(OtherBatches(s))
         /\ ToSet(FirstBatch(s)) \subseteq T
         /\ IsInjective(s) => /\ IsInjective(OtherBatches(s))
                              /\ ToSet(FirstBatch(s)) \cap ToSet(OtherBatches(s)) = {}
<1> DEFINE n == Len(s)
           m == IF n < BatchSize THEN n ELSE BatchSize
           f == SubSeq(s, 1, m)
           g == SubSeq(s, m + 1, n)
<1>1. /\ n \in Nat /\ BatchSize \in Nat /\ BatchSize > 0 /\ DOMAIN s = 1 .. n
      /\ \A i \in 1 .. n : s[i] \in T
  BY CuratedAssumption
<1> HIDE DEF n
<1>2. m \in Nat /\ m <= n
  BY <1>1
<1>3. FirstBatch(s) = f /\ OtherBatches(s) = g
  <2>1. CASE n < BatchSize
    <3>1. SubSeq(s, BatchSize + 1, n) = <<>> /\ g = <<>>
      BY <1>1, <2>1, SubSeqEmpty
    <3> QED  BY <2>1, <3>1 DEF FirstBatch, OtherBatches, n
  <2>2. CASE ~(n < BatchSize)
    BY <2>2 DEF FirstBatch, OtherBatches, n
  <2> QED  BY <2>1, <2>2
<1> HIDE DEF m
<1>4. /\ f \in Seq(T) /\ Len(f) = m /\ \A i \in 1 .. m : f[i] = s[i]
      /\ g \in Seq(T) /\ Len(g) = n - m /\ \A i \in 1 .. n - m : g[i] = s[m + i]
  <2>1. \A i \in 1 .. m : s[i] \in T
    BY <1>1, <1>2
  <2>2. \A i \in m + 1 .. n : s[i] \in T
    BY <1>1, <1>2
  <2>3. f \in Seq(T) /\ Len(f) = (IF 1 <= m THEN m - 1 + 1 ELSE 0)
        /\ \A i \in 1 .. m - 1 + 1 : f[i] = s[1 + i - 1]
    BY <1>1, <1>2, <2>1, SubSeqProperties
  <2>4. g \in Seq(T) /\ Len(g) = (IF m + 1 <= n THEN n - (m + 1) + 1 ELSE 0)
        /\ \A i \in 1 .. n - (m + 1) + 1 : g[i] = s[m + 1 + i - 1]
    BY <1>1, <1>2, <2>2, SubSeqProperties
  <2>5. Len(f) = m /\ Len(g) = n - m
    BY <1>1, <1>2, <2>3, <2>4
  <2>6. \A i \in 1 .. m : i \in 1 .. m - 1 + 1 /\ 1 + i - 1 = i
    BY <1>2
  <2>7. \A i \in 1 .. n - m : i \in 1 .. n - (m + 1) + 1 /\ m + 1 + i - 1 = m + i
    BY <1>1, <1>2
  <2> HIDE DEF f, g
  <2> QED  BY <2>3, <2>4, <2>5, <2>6, <2>7
<1> HIDE DEF f, g
<1>5. DOMAIN f = 1 .. m /\ DOMAIN g = 1 .. n - m
  BY <1>4
<1>6. \A i \in 1 .. n : i \in 1 .. m \/ (i - m \in 1 .. n - m /\ m + (i - m) = i)
  BY <1>1, <1>2
<1>7. (\A i \in 1 .. m : i \in 1 .. n) /\ \A i \in 1 .. n - m : m + i \in 1 .. n /\ m + i > m
  BY <1>1, <1>2
<1>8. ToSet(s) = ToSet(f) \cup ToSet(g)
  <2>1. ASSUME NEW i \in 1 .. n
        PROVE  s[i] \in ToSet(f) \cup ToSet(g)
    <3>1. CASE i \in 1 .. m
      <4>1. s[i] = f[i]
        BY <1>4, <3>1
      <4> QED  BY <1>5, <3>1, <4>1 DEF ToSet
    <3>2. CASE i - m \in 1 .. n - m /\ m + (i - m) = i
      <4>1. s[i] = g[i - m]
        BY <1>4, <3>2
      <4> QED  BY <1>5, <3>2, <4>1 DEF ToSet
    <3> QED  BY <1>6, <3>1, <3>2
  <2>2. \A i \in 1 .. m : f[i] \in ToSet(s)
    BY <1>1, <1>4, <1>7 DEF ToSet
  <2>3. \A i \in 1 .. n - m : g[i] \in ToSet(s)
    BY <1>1, <1>4, <1>7 DEF ToSet
  <2> QED  BY <1>1, <1>5, <2>1, <2>2, <2>3 DEF ToSet
<1>9. ASSUME IsInjective(s)
      PROVE  IsInjective(g) /\ ToSet(f) \cap ToSet(g) = {}
  <2>1. \A i, j \in 1 .. n : s[i] = s[j] => i = j
    BY <1>1, <1>9 DEF IsInjective
  <2>2. \A i, j \in 1 .. n - m : g[i] = g[j] => m + i = m + j
    BY <1>4, <1>7, <2>1
  <2>3. \A i, j \in 1 .. n - m : g[i] = g[j] => i = j
    BY <1>1, <1>2, <2>2
  <2>4. \A i \in 1 .. m, j \in 1 .. n - m : f[i] = g[j] => i = m + j
    BY <1>4, <1>7, <2>1
  <2>5. \A i \in 1 .. m, j \in 1 .. n - m : f[i] # g[j]
    BY <1>1, <1>2, <2>4
  <2>6. ToSet(f) \cap ToSet(g) = {}
    BY <1>5, <2>5 DEF ToSet
  <2> QED  BY <1>5, <2>3, <2>6 DEF IsInjective
<1>10. ToSet(f) \subseteq T
  BY <1>4, ToSetType
<1> QED  BY <1>3, <1>4, <1>8, <1>9, <1>10

-----------------------------------------------------------------------------
\* The invariants

\* The profile at hand has been looked up and is complete.
AtWork(b) == tx[b].step \in {"claim", "displace", "lock", "write"}

\* A transaction is open while its batch is persisted.
TxShape(b) ==
  /\ tx[b].step = "none" => tx[b] = NoTx
  /\ tx[b].step # "none" <=> pc[b] = "persist"
  /\ AtWork(b) => tx[b].todo # <<>> /\ Current(b).complete

\* A row that is there stays, and what has been stored is there.
Present(b) ==
  /\ \A a \in Account : tx[b].writes[a] = Absent =>
       tx[b].step = "write" /\ a = Current(b).account /\ tx[b].name = Absent
  /\ AtWork(b) /\ tx[b].name # Absent => View(b)[Current(b).account] # Absent
  /\ \A p \in tx[b].stored : View(b)[p.account] # Absent

\* Who was scraped was found.
Real(r) == r.status = "success" => r.account \in Account

\* A username of a batch is in its queue, at a page, or has a result.
Shape(b) ==
  /\ IsFiniteSet(pages[b]) /\ IsFiniteSet(closing[b])
  /\ IsInjective(queue[b]) /\ IsInjective(order[b])
  /\ ToSet(queue[b]) \cap (pages[b] \cup ToSet(order[b])) = {}
  /\ pages[b] \cap ToSet(order[b]) = {} /\ closing[b] \subseteq ToSet(order[b])
  /\ \A u \in Username : /\ u \in ToSet(order[b]) <=> result[b][u].status # "none"
                         /\ Real(result[b][u])
  /\ b \in ApifyBatch => pages[b] = {} /\ closing[b] = {}
  /\ pc[b] \in {"new", "session"} => pages[b] = {} /\ closing[b] = {} /\ order[b] = <<>>
  /\ pc[b] \in {"analysis", "persist", "done"} =>
       queue[b] = <<>> /\ pages[b] = {} /\ closing[b] = {}

\* The counters are those of the results, but while a given up profile waits for the commit.
Counted(b) ==
  \/ b \in doubled \/ pc[b] = "raised" \/ (pc[b] = "persist" /\ b \in error)
  \/ counters[b] = CountersOf(result[b])

FewPages(b) == Cardinality(pages[b] \cup closing[b]) <= MaxConcurrent

Sound(b) == Shape(b) /\ Counted(b) /\ FewPages(b)
BatchInv == \A b \in Batch : Sound(b)

\* What the transaction is to write, and has written, are the results reported.
Reported(b, p) == result[b][p.username] = Success(p.account, p.complete)
TodoTrue(b) ==
  pc[b] = "persist" =>
    /\ \A i \in DOMAIN tx[b].todo : Reported(b, tx[b].todo[i])
    /\ \A i, j \in DOMAIN tx[b].todo : tx[b].todo[i].username = tx[b].todo[j].username => i = j
    /\ \A p \in tx[b].stored :
         Reported(b, p) /\ \A i \in DOMAIN tx[b].todo : tx[b].todo[i].username # p.username
    /\ \A u \in Told(b) :
         \/ \E p \in tx[b].stored : p.username = u
         \/ \E i \in DOMAIN tx[b].todo : tx[b].todo[i].username = u

\* Rows are written for the profiles stored and the one at hand; others only go stale.
WritesTrue(b) ==
  \A a \in Account :
    \/ tx[b].writes[a] \in {Untouched, Stale}
    \/ \E p \in tx[b].stored : p.account = a
    \/ tx[b].step = "write" /\ a = Current(b).account

\* Batches that are persisted at a time have been noted.
Together == \A b, c \in Open : b # c => b \in overlapped

\* Alone, a transaction finds what it has read, and frees each name before it takes it.
Alone(b) ==
  /\ AtWork(b) => tx[b].name = View(b)[Current(b).account]
  /\ tx[b].step = "displace" => tx[b].owner = Displaced(b)
  /\ tx[b].step \in {"lock", "write"} => Displaced(b) = {}
  /\ \A p \in tx[b].stored :
       \E q \in tx[b].stored : q.account = p.account /\ View(b)[p.account] = q.username
  /\ \A a \in Account : tx[b].writes[a] = Stale /\ row[a] # Stale =>
       \/ \E p \in tx[b].stored : row[a] = p.username
       \/ tx[b].step \in {"lock", "write"} /\ row[a] = Current(b).username
AloneInv == Together /\ \A b \in Open \ overlapped : Alone(b)

\* The types of what is not the store's, but for the limit of pages.
BasicTypes ==
  /\ pc \in [Batch -> Stage]
  /\ tried \in [Batch -> SUBSET Credential]
  /\ queue \in [Batch -> Seq(Username)]
  /\ pages \in [Batch -> SUBSET Username] /\ closing \in [Batch -> SUBSET Username]
  /\ order \in [Batch -> Seq(Username)]
  /\ result \in [Batch -> [Username -> Result]]
  /\ counters \in [Batch -> Counters]
  /\ error \subseteq Batch /\ doubled \subseteq Batch
  /\ holder \in Holders
  /\ renames \in 0..MaxRenames /\ faults \in 0..MaxFaults

-----------------------------------------------------------------------------
\* The batch

\* A batch nothing happens to but to its credentials.
Still(b) ==
  /\ pc'[b] = pc[b] /\ queue'[b] = queue[b] /\ pages'[b] = pages[b] /\ closing'[b] = closing[b]
  /\ order'[b] = order[b] /\ result'[b] = result[b] /\ counters'[b] = counters[b]
  /\ (b \in error' <=> b \in error) /\ (b \in doubled' <=> b \in doubled)

\* One batch takes a step.
LEMMA OthersStill ==
  ASSUME BasicTypes, NEW b \in Batch, Execute(b), NEW c \in Batch, c # b
  PROVE  Still(c)
<1>1. CASE Prepare(b)
  BY <1>1 DEF Prepare, Goto, BasicTypes, Still
<1>2. CASE SessionReady(b)
  BY <1>2 DEF SessionReady, Goto, BasicTypes, Still
<1>3. CASE NoBrowser(b)
  BY <1>3 DEF NoBrowser, AllFail, Goto, BasicTypes, Still
<1>4. CASE NoSession(b)
  BY <1>4 DEF NoSession, AllFail, Goto, BasicTypes, Still
<1>5. CASE LaunchFails(b)
  BY <1>5 DEF LaunchFails, Goto, BasicTypes, Still
<1>6. ASSUME NEW k \in Credential, CredentialFails(b, k)
      PROVE  Still(c)
  BY <1>6 DEF CredentialFails, BasicTypes, Still
<1>7. CASE OpenPage(b)
  BY <1>7 DEF OpenPage, BasicTypes, Still
<1>8. CASE WorkersDone(b)
  BY <1>8 DEF WorkersDone, Goto, BasicTypes, Still
<1>9. CASE ApifyRun(b)
  BY <1>9 DEF ApifyRun, Goto, BasicTypes, Still
<1>10. CASE ApifyFails(b)
  BY <1>10 DEF ApifyFails, AllFail, Goto, BasicTypes, Still
<1>11. ASSUME NEW u \in Username, Scrape(b, u)
       PROVE  Still(c)
  <2>1. PICK r \in Seen(u) : Record(b, u, r)
    BY <1>11 DEF Scrape
  <2> QED  BY <1>11, <2>1 DEF Scrape, Record, BasicTypes, Still
<1>12. ASSUME NEW u \in Username, ScrapeFails(b, u)
       PROVE  Still(c)
  BY <1>12 DEF ScrapeFails, Record, BasicTypes, Still
<1>13. ASSUME NEW u \in Username, ClosePage(b, u)
       PROVE  Still(c)
  BY <1>13 DEF ClosePage, BasicTypes, Still
<1>14. ASSUME NEW u \in Username, CloseFails(b, u)
       PROVE  Still(c)
  BY <1>14 DEF CloseFails, Record, BasicTypes, Still
<1>15. CASE Analysed(b)
  BY <1>15 DEF Analysed, Goto, BasicTypes, Still
<1>16. CASE PersistFinds(b)
  BY <1>16 DEF PersistFinds, BasicTypes, Still
<1>17. CASE PersistWrites(b)
  BY <1>17 DEF PersistWrites, batchVars, BasicTypes, Still
<1>18. CASE PersistFails(b)
  BY <1>18 DEF PersistFails, Goto, BasicTypes, Still
<1>19. CASE PersistCommits(b)
  BY <1>19 DEF PersistCommits, Goto, BasicTypes, Still
<1> QED
  BY <1>1, <1>2, <1>3, <1>4, <1>5, <1>6, <1>7, <1>8, <1>9, <1>10, <1>11, <1>12, <1>13, <1>14,
     <1>15, <1>16, <1>17, <1>18, <1>19 DEF Execute

\* The counters of results are natural numbers, and a new result makes one go up.
LEMMA TallyFacts ==
  ASSUME NEW o \in Seq(Username), NEW res \in [Username -> Result],
         \A u \in Username : u \in ToSet(o) <=> res[u].status # "none"
  PROVE  /\ \A status \in {"success", "failed", "not_found"} :
              /\ IsFiniteSet({u \in Username : res[u].status = status})
              /\ Tally(res, status) \in Nat
         /\ CountersOf(res) \in Counters
<1>1. IsFiniteSet(ToSet(o))
  BY ToSetType
<1>2. ASSUME NEW status \in {"success", "failed", "not_found"}
      PROVE  /\ IsFiniteSet({u \in Username : res[u].status = status})
             /\ Tally(res, status) \in Nat
  <2>1. {u \in Username : res[u].status = status} \in SUBSET ToSet(o)
    OBVIOUS
  <2>2. IsFiniteSet({u \in Username : res[u].status = status})
    BY <1>1, <2>1, FS_Subset
  <2> QED  BY <2>2, FS_CardinalityType DEF Tally
<1>3. CountersOf(res) \in Counters
  BY <1>2 DEF CountersOf, Counters
<1> QED  BY <1>2, <1>3

LEMMA TallyStep ==
  ASSUME NEW o \in Seq(Username), NEW res \in [Username -> Result],
         \A u \in Username : u \in ToSet(o) <=> res[u].status # "none",
         NEW u \in Username, u \notin ToSet(o), NEW r \in Result,
         NEW status \in {"success", "failed", "not_found"}
  PROVE  Tally([res EXCEPT ![u] = r], status) =
           IF r.status = status THEN Tally(res, status) + 1 ELSE Tally(res, status)
<1> DEFINE new == [res EXCEPT ![u] = r]
           A == {v \in Username : res[v].status = status}
           B == {v \in Username : new[v].status = status}
<1>1. IsFiniteSet(A)
  BY TallyFacts
<1>2. u \notin A /\ new \in [Username -> Result] /\ new[u] = r
      /\ \A v \in Username : v # u => new[v] = res[v]
  OBVIOUS
<1>3. B = IF r.status = status THEN A \cup {u} ELSE A
  BY <1>2
<1> HIDE DEF A, B
<1>4. Cardinality(A \cup {u}) = Cardinality(A) + 1
  BY <1>1, <1>2, FS_AddElement
<1>5. Cardinality(B) = IF r.status = status THEN Cardinality(A) + 1 ELSE Cardinality(A)
  BY <1>3, <1>4
<1> QED  BY <1>5 DEF A, B, Tally

\* _record_result, for a username with or without a result.
LEMMA RecordFacts ==
  ASSUME BasicTypes, NEW b \in Batch, Shape(b), NEW u \in Username, NEW r \in Result,
         r.status # "none", Real(r), Record(b, u, r)
  PROVE  /\ result' \in [Batch -> [Username -> Result]]
         /\ order' \in [Batch -> Seq(Username)] /\ counters' \in [Batch -> Counters]
         /\ IsInjective(order'[b]) /\ ToSet(order'[b]) = ToSet(order[b]) \cup {u}
         /\ \A v \in Username : /\ v \in ToSet(order'[b]) <=> result'[b][v].status # "none"
                                /\ Real(result'[b][v])
         /\ u \notin ToSet(order[b]) /\ counters[b] = CountersOf(result[b])
              => counters'[b] = CountersOf(result'[b])
<1>1. /\ result \in [Batch -> [Username -> Result]] /\ order \in [Batch -> Seq(Username)]
      /\ counters \in [Batch -> Counters] /\ order[b] \in Seq(Username) /\ counters[b] \in Counters
      /\ result[b] \in [Username -> Result]
  BY DEF BasicTypes
<1>2. /\ IsInjective(order[b])
      /\ \A v \in Username : v \in ToSet(order[b]) <=> result[b][v].status # "none"
      /\ \A v \in Username : Real(result[b][v])
  BY DEF Shape
<1>3. result' = [result EXCEPT ![b][u] = r]
      /\ order' = [order EXCEPT ![b] = IF u \in ToSet(@) THEN @ ELSE Append(@, u)]
  BY DEF Record
<1>4. result' \in [Batch -> [Username -> Result]] /\ result'[b] = [result[b] EXCEPT ![u] = r]
  BY <1>1, <1>3
<1>5. /\ order' \in [Batch -> Seq(Username)] /\ IsInjective(order'[b])
      /\ ToSet(order'[b]) = ToSet(order[b]) \cup {u}
  <2>1. CASE u \in ToSet(order[b])
    BY <1>1, <1>2, <1>3, <2>1
  <2>2. CASE u \notin ToSet(order[b])
    <3>1. order' = [order EXCEPT ![b] = Append(order[b], u)]
      BY <1>3, <2>2
    <3>2. /\ Append(order[b], u) \in Seq(Username)
          /\ ToSet(Append(order[b], u)) = ToSet(order[b]) \cup {u}
      BY <1>1, ToSetAppend
    <3>3. IsInjective(Append(order[b], u))
      BY <1>1, <1>2, <2>2, InjectiveAppend
    <3> QED  BY <1>1, <3>1, <3>2, <3>3
  <2> QED  BY <2>1, <2>2
<1>6. \A v \in Username : /\ v \in ToSet(order'[b]) <=> result'[b][v].status # "none"
                          /\ Real(result'[b][v])
  BY <1>1, <1>2, <1>4, <1>5
<1>t. r.status \in {"success", "failed", "not_found"}
  BY DEF Result
<1>7. /\ r.status = "success" =>
           counters' = [counters EXCEPT ![b] = [counters[b] EXCEPT !.successful = counters[b].successful + 1]]
      /\ r.status = "not_found" =>
           counters' = [counters EXCEPT ![b] = [counters[b] EXCEPT !.not_found = counters[b].not_found + 1]]
      /\ r.status = "failed" =>
           counters' = [counters EXCEPT ![b] = [counters[b] EXCEPT !.failed = counters[b].failed + 1]]
  <2> DEFINE new == OneMore(counters[b], r.status)
  <2>1. counters' = [counters EXCEPT ![b] = new]
    BY DEF Record
  <2>2. /\ r.status = "success" => new = [counters[b] EXCEPT !.successful = counters[b].successful + 1]
        /\ r.status = "not_found" => new = [counters[b] EXCEPT !.not_found = counters[b].not_found + 1]
        /\ r.status = "failed" => new = [counters[b] EXCEPT !.failed = counters[b].failed + 1]
    BY DEF OneMore
  <2> QED  BY <1>t, <2>1, <2>2
<1>8. /\ [counters[b] EXCEPT !.successful = counters[b].successful + 1] \in Counters
      /\ [counters[b] EXCEPT !.not_found = counters[b].not_found + 1] \in Counters
      /\ [counters[b] EXCEPT !.failed = counters[b].failed + 1] \in Counters
  BY <1>1 DEF Counters
<1>9. counters' \in [Batch -> Counters]
  BY <1>1, <1>t, <1>7, <1>8
<1>10. ASSUME u \notin ToSet(order[b]), counters[b] = CountersOf(result[b])
       PROVE  counters'[b] = CountersOf(result'[b])
  <2> DEFINE old == result[b]
             new == result'[b]
  <2>1. /\ old \in [Username -> Result] /\ new = [old EXCEPT ![u] = r]
        /\ \A v \in Username : v \in ToSet(order[b]) <=> old[v].status # "none"
    BY <1>1, <1>2, <1>4
  <2> HIDE DEF old, new
  <2>2. \A status \in {"success", "failed", "not_found"} :
          Tally(new, status) = IF r.status = status THEN Tally(old, status) + 1 ELSE Tally(old, status)
    <3> TAKE status \in {"success", "failed", "not_found"}
    <3>1. order[b] \in Seq(Username) /\ u \notin ToSet(order[b])
      BY <1>1, <1>10
    <3>2. /\ old \in [Username -> Result] /\ r \in Result
          /\ \A v \in Username : v \in ToSet(order[b]) <=> old[v].status # "none"
      BY <2>1
    <3> DEFINE next == [old EXCEPT ![u] = r]
    <3>3. Tally(next, status) = IF r.status = status THEN Tally(old, status) + 1 ELSE Tally(old, status)
      BY <3>1, <3>2, TallyStep
    <3>4. new = next
      BY <2>1
    <3> QED  BY <3>3, <3>4
  <2>3. counters[b] = CountersOf(old)
    BY <1>10 DEF old
  <2>4. CASE r.status = "success"
    <3>1. counters'[b] = [counters[b] EXCEPT !.successful = counters[b].successful + 1]
      BY <1>1, <1>7, <2>4
    <3> QED  BY <2>2, <2>3, <2>4, <3>1 DEF CountersOf, new
  <2>5. CASE r.status = "not_found"
    <3>1. counters'[b] = [counters[b] EXCEPT !.not_found = counters[b].not_found + 1]
      BY <1>1, <1>7, <2>5
    <3> QED  BY <2>2, <2>3, <2>5, <3>1 DEF CountersOf, new
  <2>6. CASE r.status = "failed"
    <3>1. counters'[b] = [counters[b] EXCEPT !.failed = counters[b].failed + 1]
      BY <1>1, <1>7, <2>6
    <3> QED  BY <2>2, <2>3, <2>6, <3>1 DEF CountersOf, new
  <2> QED  BY <1>t, <2>4, <2>5, <2>6
<1> QED  BY <1>4, <1>5, <1>6, <1>9, <1>10

LEMMA ResultTypes ==
  /\ NoResult \in Result /\ NotFound \in Result /\ Failed \in Result
  /\ \A a \in Account, complete \in BOOLEAN :
       Success(a, complete) \in Result /\ Success(a, complete).status = "success"
       /\ Real(Success(a, complete))
  /\ NoResult.status = "none" /\ NotFound.status = "not_found" /\ Failed.status = "failed"
  /\ Real(NoResult) /\ Real(NotFound) /\ Real(Failed)
  BY DEF NoResult, NotFound, Failed, Success, Result, Real

\* What a page shows of a username is a result.
LEMMA SeenFacts ==
  ASSUME BasicTypes, NEW u \in Username, NEW r \in Seen(u)
  PROVE  r \in Result /\ r.status # "none" /\ Real(r)
<1>1. holder[u] \in Account \cup {NoAccount}
  BY DEF BasicTypes, Holders
<1>2. CASE holder[u] = NoAccount
  BY <1>2, ResultTypes DEF Seen
<1>3. CASE holder[u] # NoAccount
  BY <1>1, <1>3, ResultTypes DEF Seen
<1> QED  BY <1>2, <1>3

\* A batch keeps its soundness when nothing happens to it.
LEMMA StillSound ==
  ASSUME NEW b \in Batch, Sound(b), Still(b)
  PROVE  Sound(b)'
<1>1. Shape(b)'
  BY DEF Sound, Still, Shape
<1>2. Counted(b)'
  BY DEF Sound, Still, Counted
<1>3. FewPages(b)'
  BY DEF Sound, Still, FewPages
<1> QED  BY <1>1, <1>2, <1>3 DEF Sound

LEMMA PrepareSound ==
  ASSUME BasicTypes, NEW b \in Batch, Sound(b), Prepare(b)
  PROVE  BasicTypes' /\ Sound(b)'
<1> DEFINE needed == Kept(Request[b], {u \in Username : NeedsRefresh(u)})
<1>1. Request[b] \in Seq(Username) /\ IsInjective(Request[b])
  BY BatchAssumption
<1>2. needed \in Seq(Username) /\ IsInjective(needed)
  BY <1>1, KeptFacts
<1>3. /\ pc[b] = "new" /\ queue' = [queue EXCEPT ![b] = needed]
      /\ pc' = [pc EXCEPT ![b] = IF needed = <<>> THEN "done"
                                 ELSE IF b \in ApifyBatch THEN "scrape" ELSE "session"]
      /\ UNCHANGED <<worldVars, tried, pages, closing, order, result, counters, error, doubled>>
  BY DEF Prepare, Goto
<1> HIDE DEF needed
<1>4. BasicTypes'
  BY <1>2, <1>3 DEF BasicTypes, Stage, worldVars
<1>5. Shape(b)'
  BY <1>2, <1>3, EmptyFacts DEF BasicTypes, Sound, Shape
<1>6. Counted(b)'
  BY <1>3 DEF BasicTypes, Sound, Counted
<1>7. FewPages(b)'
  BY <1>3 DEF Sound, FewPages
<1> QED  BY <1>4, <1>5, <1>6, <1>7 DEF Sound

\* _mark_all_failed, wherever it is called.
LEMMA AllFailSound ==
  ASSUME BasicTypes, NEW b \in Batch, Sound(b), AllFail(b), pages[b] = {}, closing[b] = {},
         UNCHANGED <<tried, pages, closing, doubled, holder, renames>>, faults' \in 0..MaxFaults
  PROVE  BasicTypes' /\ Sound(b)'
<1> DEFINE res == [u \in Username |-> IF u \in ToSet(queue[b]) THEN Failed ELSE NoResult]
<1>1. /\ order' = [order EXCEPT ![b] = queue[b]]
      /\ result' = [result EXCEPT ![b] = res]
      /\ counters' = [counters EXCEPT ![b] = CountersOf(res)]
      /\ queue' = [queue EXCEPT ![b] = <<>>]
      /\ error' = error \cup {b}
      /\ pc' = [pc EXCEPT ![b] = "analysis"]
  BY DEF AllFail, Goto
<1>2. queue[b] \in Seq(Username) /\ IsInjective(queue[b])
  BY DEF BasicTypes, Sound, Shape
<1>3. /\ res \in [Username -> Result]
      /\ \A u \in Username : u \in ToSet(queue[b]) <=> res[u].status # "none"
      /\ \A u \in Username : Real(res[u])
  BY ResultTypes
<1>4. CountersOf(res) \in Counters
  BY <1>2, <1>3, TallyFacts
<1> HIDE DEF res
<1>5. BasicTypes'
  BY <1>1, <1>2, <1>3, <1>4, EmptyFacts DEF BasicTypes, Stage
<1>6. Shape(b)'
  BY <1>1, <1>2, <1>3, EmptyFacts DEF BasicTypes, Sound, Shape
<1>7. Counted(b)'
  BY <1>1 DEF BasicTypes, Counted
<1>8. FewPages(b)'
  BY DEF Sound, FewPages
<1> QED  BY <1>5, <1>6, <1>7, <1>8 DEF Sound

LEMMA SessionSound ==
  ASSUME BasicTypes, NEW b \in Batch, Sound(b),
         SessionReady(b) \/ NoBrowser(b) \/ NoSession(b) \/ LaunchFails(b)
         \/ \E c \in Credential : CredentialFails(b, c)
  PROVE  BasicTypes' /\ Sound(b)'
<1>f. Fault => faults' \in 0..MaxFaults
  BY BatchAssumption DEF Fault, BasicTypes
<1>1. CASE SessionReady(b)
  <2>1. BasicTypes'
    BY <1>1 DEF SessionReady, Goto, BasicTypes, Stage, worldVars
  <2>2. Shape(b)' /\ Counted(b)' /\ FewPages(b)'
    BY <1>1 DEF SessionReady, Goto, BasicTypes, Sound, Shape, Counted, FewPages
  <2> QED  BY <2>1, <2>2 DEF Sound
<1>2. CASE NoBrowser(b)
  <2>1. pages[b] = {} /\ closing[b] = {}
    BY <1>2 DEF NoBrowser, Sound, Shape
  <2> QED  BY <1>2, <1>f, <2>1, AllFailSound DEF NoBrowser
<1>3. CASE NoSession(b)
  <2>1. pages[b] = {} /\ closing[b] = {}
    BY <1>3 DEF NoSession, Sound, Shape
  <2>2. faults' \in 0..MaxFaults
    BY <1>3 DEF NoSession, worldVars, BasicTypes
  <2> QED  BY <1>3, <2>1, <2>2, AllFailSound DEF NoSession, worldVars
<1>4. CASE LaunchFails(b)
  <2>1. BasicTypes'
    BY <1>4, <1>f DEF LaunchFails, Goto, BasicTypes, Stage
  <2>2. Shape(b)' /\ Counted(b)' /\ FewPages(b)'
    BY <1>4 DEF LaunchFails, Goto, BasicTypes, Sound, Shape, Counted, FewPages
  <2> QED  BY <2>1, <2>2 DEF Sound
<1>5. ASSUME NEW c \in Credential, CredentialFails(b, c)
      PROVE  BasicTypes' /\ Sound(b)'
  <2>1. BasicTypes'
    BY <1>5, <1>f DEF CredentialFails, BasicTypes
  <2>2. Still(b)
    BY <1>5 DEF CredentialFails, Still
  <2> QED  BY <2>1, <2>2, StillSound
<1> QED  BY <1>1, <1>2, <1>3, <1>4, <1>5

\* The number of pages follows what they hold.
LEMMA FewerPages ==
  ASSUME NEW b \in Batch, Sound(b), NEW P \in SUBSET (pages[b] \cup closing[b])
  PROVE  Cardinality(P) <= MaxConcurrent
<1>1. IsFiniteSet(pages[b] \cup closing[b])
  BY FS_Union DEF Sound, Shape
<1>2. /\ IsFiniteSet(P) /\ Cardinality(P) <= Cardinality(pages[b] \cup closing[b])
      /\ Cardinality(P) \in Nat /\ Cardinality(pages[b] \cup closing[b]) \in Nat
  BY <1>1, FS_Subset, FS_CardinalityType
<1>3. Cardinality(pages[b] \cup closing[b]) <= MaxConcurrent /\ MaxConcurrent \in Nat
  BY BatchAssumption DEF Sound, FewPages
<1> QED  BY <1>2, <1>3

LEMMA OpenPageSound ==
  ASSUME BasicTypes, NEW b \in Batch, Sound(b), OpenPage(b)
  PROVE  BasicTypes' /\ Sound(b)'
<1> DEFINE u == Head(queue[b])
<1>1. queue[b] \in Seq(Username) /\ IsInjective(queue[b]) /\ queue[b] # <<>>
  BY DEF OpenPage, BasicTypes, Sound, Shape
<1>2. /\ u \in Username /\ Tail(queue[b]) \in Seq(Username)
      /\ ToSet(queue[b]) = ToSet(Tail(queue[b])) \cup {u}
      /\ IsInjective(Tail(queue[b])) /\ u \notin ToSet(Tail(queue[b]))
  BY <1>1, ToSetTail
<1>3. /\ pc[b] = "scrape" /\ b \notin ApifyBatch
      /\ Cardinality(pages[b] \cup closing[b]) < MaxConcurrent
      /\ pages' = [pages EXCEPT ![b] = @ \cup {u}]
      /\ queue' = [queue EXCEPT ![b] = Tail(queue[b])]
      /\ UNCHANGED <<worldVars, pc, tried, closing, order, result, counters, error, doubled>>
  BY DEF OpenPage
<1> HIDE DEF u
<1>4. BasicTypes'
  BY <1>2, <1>3 DEF BasicTypes, worldVars
<1>5. pages'[b] = pages[b] \cup {u} /\ queue'[b] = Tail(queue[b])
  BY <1>3 DEF BasicTypes
<1>6. Shape(b)'
  <2>1. IsFiniteSet(pages[b] \cup {u})
    BY FS_AddElement DEF Sound, Shape
  <2>2. u \notin ToSet(order[b])
    BY <1>2 DEF Sound, Shape
  <2> QED  BY <1>2, <1>3, <1>5, <2>1, <2>2 DEF Sound, Shape
<1>7. Counted(b)'
  BY <1>3 DEF Sound, Counted
<1>8. FewPages(b)'
  <2> DEFINE P == pages[b] \cup closing[b]
  <2>1. IsFiniteSet(P)
    BY FS_Union DEF Sound, Shape
  <2>2. u \notin P
    BY <1>2 DEF Sound, Shape
  <2>3. pages'[b] \cup closing'[b] = P \cup {u} /\ Cardinality(P) < MaxConcurrent
    BY <1>3, <1>5
  <2> HIDE DEF P
  <2>4. Cardinality(P \cup {u}) = Cardinality(P) + 1 /\ Cardinality(P) \in Nat
    BY <2>1, <2>2, FS_AddElement, FS_CardinalityType
  <2>5. Cardinality(P \cup {u}) <= MaxConcurrent
    BY <2>3, <2>4, BatchAssumption
  <2> QED  BY <2>3, <2>5 DEF FewPages
<1> QED  BY <1>4, <1>6, <1>7, <1>8 DEF Sound

\* A page has its result, and is to be closed.
LEMMA ResultSound ==
  ASSUME BasicTypes, NEW b \in Batch, Sound(b), NEW u \in Username, u \in pages[b],
         NEW r \in Result, r.status # "none", Real(r), Record(b, u, r),
         pages' = [pages EXCEPT ![b] = @ \ {u}], closing' = [closing EXCEPT ![b] = @ \cup {u}],
         UNCHANGED <<holder, renames, pc, tried, queue, error, doubled>>, faults' \in 0..MaxFaults
  PROVE  BasicTypes' /\ Sound(b)'
<1>1. Shape(b)
  BY DEF Sound
<1>2. /\ result' \in [Batch -> [Username -> Result]]
      /\ order' \in [Batch -> Seq(Username)] /\ counters' \in [Batch -> Counters]
      /\ IsInjective(order'[b]) /\ ToSet(order'[b]) = ToSet(order[b]) \cup {u}
      /\ \A v \in Username : /\ v \in ToSet(order'[b]) <=> result'[b][v].status # "none"
                             /\ Real(result'[b][v])
      /\ u \notin ToSet(order[b]) /\ counters[b] = CountersOf(result[b])
           => counters'[b] = CountersOf(result'[b])
  BY <1>1, RecordFacts
<1>3. u \notin ToSet(order[b]) /\ u \notin ToSet(queue[b])
  BY DEF Sound, Shape
<1>4. BasicTypes'
  BY <1>2 DEF BasicTypes
<1>5. pages'[b] = pages[b] \ {u} /\ closing'[b] = closing[b] \cup {u}
  BY DEF BasicTypes
<1>6. Shape(b)'
  <2>1. IsFiniteSet(pages[b] \ {u}) /\ IsFiniteSet(closing[b] \cup {u})
    BY <1>1, FS_AddElement, FS_RemoveElement DEF Shape
  <2>2. pc[b] \notin {"new", "session", "analysis", "persist", "done"} /\ b \notin ApifyBatch
    BY <1>1 DEF Shape
  <2>3. queue'[b] = queue[b] /\ pc'[b] = pc[b]
    OBVIOUS
  <2>4. ToSet(queue[b]) \cap (pages'[b] \cup ToSet(order'[b])) = {}
    BY <1>1, <1>2, <1>3, <1>5 DEF Shape
  <2>5. pages'[b] \cap ToSet(order'[b]) = {} /\ closing'[b] \subseteq ToSet(order'[b])
    BY <1>1, <1>2, <1>5 DEF Shape
  <2>6. IsInjective(queue[b])
    BY <1>1 DEF Shape
  <2> QED  BY <1>2, <1>5, <2>1, <2>2, <2>3, <2>4, <2>5, <2>6 DEF Shape
<1>7. Counted(b)'
  <2>1. ~(pc[b] = "persist")
    BY DEF Sound, Shape
  <2> QED  BY <1>2, <1>3, <2>1 DEF Sound, Counted
<1>8. FewPages(b)'
  <2>1. pages'[b] \cup closing'[b] = pages[b] \cup closing[b]
    BY <1>5
  <2> QED  BY <2>1 DEF Sound, FewPages
<1> QED  BY <1>4, <1>6, <1>7, <1>8 DEF Sound

LEMMA PageSound ==
  ASSUME BasicTypes, NEW b \in Batch, Sound(b), NEW u \in Username,
         Scrape(b, u) \/ ScrapeFails(b, u) \/ ClosePage(b, u) \/ CloseFails(b, u)
  PROVE  BasicTypes' /\ Sound(b)'
<1>f. Fault => faults' \in 0..MaxFaults
  BY BatchAssumption DEF Fault, BasicTypes
<1>1. CASE Scrape(b, u)
  <2>1. PICK r \in Seen(u) : Record(b, u, r)
    BY <1>1 DEF Scrape
  <2>2. r \in Result /\ r.status # "none" /\ Real(r)
    BY SeenFacts
  <2>3. /\ u \in pages[b] /\ pages' = [pages EXCEPT ![b] = @ \ {u}]
        /\ closing' = [closing EXCEPT ![b] = @ \cup {u}]
        /\ UNCHANGED <<holder, renames, pc, tried, queue, error, doubled>> /\ faults' \in 0..MaxFaults
    BY <1>1 DEF Scrape, worldVars, BasicTypes
  <2> QED  BY <2>1, <2>2, <2>3, ResultSound
<1>2. CASE ScrapeFails(b, u)
  <2>1. /\ u \in pages[b] /\ pages' = [pages EXCEPT ![b] = @ \ {u}]
        /\ closing' = [closing EXCEPT ![b] = @ \cup {u}] /\ Record(b, u, Failed)
        /\ UNCHANGED <<holder, renames, pc, tried, queue, error, doubled>> /\ faults' \in 0..MaxFaults
    BY <1>2, <1>f DEF ScrapeFails
  <2>2. Failed \in Result /\ Failed.status # "none" /\ Real(Failed)
    BY ResultTypes
  <2> QED  BY <2>1, <2>2, ResultSound
<1>3. CASE ClosePage(b, u)
  <2>1. BasicTypes'
    BY <1>3 DEF ClosePage, BasicTypes, worldVars
  <2>2. closing'[b] = closing[b] \ {u}
    BY <1>3 DEF ClosePage, BasicTypes
  <2>3. Shape(b)' /\ Counted(b)'
    <3>1. IsFiniteSet(closing[b] \ {u})
      BY FS_RemoveElement DEF Sound, Shape
    <3> QED  BY <1>3, <2>2, <3>1 DEF ClosePage, Sound, Shape, Counted
  <2>4. FewPages(b)'
    BY <1>3, <2>2, FewerPages DEF ClosePage, FewPages
  <2> QED  BY <2>1, <2>3, <2>4 DEF Sound
<1>4. CASE CloseFails(b, u)
  <2>1. /\ u \in closing[b] /\ Fault /\ Record(b, u, Failed)
        /\ closing' = [closing EXCEPT ![b] = @ \ {u}] /\ doubled' = doubled \cup {b}
        /\ UNCHANGED <<holder, renames, pc, tried, queue, pages, error>>
    BY <1>4 DEF CloseFails
  <2>2. Failed \in Result /\ Failed.status # "none" /\ Real(Failed) /\ Shape(b)
    BY ResultTypes DEF Sound
  <2>3. /\ result' \in [Batch -> [Username -> Result]]
        /\ order' \in [Batch -> Seq(Username)] /\ counters' \in [Batch -> Counters]
        /\ IsInjective(order'[b]) /\ ToSet(order'[b]) = ToSet(order[b]) \cup {u}
        /\ \A v \in Username : /\ v \in ToSet(order'[b]) <=> result'[b][v].status # "none"
                               /\ Real(result'[b][v])
    BY <2>1, <2>2, RecordFacts
  <2>4. BasicTypes'
    BY <1>f, <2>1, <2>3 DEF BasicTypes
  <2>5. closing'[b] = closing[b] \ {u} /\ u \in ToSet(order[b])
    BY <2>1 DEF BasicTypes, Sound, Shape
  <2>6. Shape(b)'
    <3>1. IsFiniteSet(closing[b] \ {u})
      BY FS_RemoveElement DEF Sound, Shape
    <3>2. pc[b] \notin {"new", "session", "analysis", "persist", "done"}
      BY <2>1 DEF Sound, Shape
    <3>3. ToSet(order'[b]) = ToSet(order[b])
      BY <2>3, <2>5
    <3> QED  BY <2>1, <2>3, <2>5, <3>1, <3>2, <3>3 DEF Sound, Shape
  <2>7. Counted(b)'
    BY <2>1 DEF Counted
  <2>8. FewPages(b)'
    BY <2>1, <2>5, FewerPages DEF FewPages
  <2> QED  BY <2>4, <2>6, <2>7, <2>8 DEF Sound
<1> QED  BY <1>1, <1>2, <1>3, <1>4

LEMMA WorkersDoneSound ==
  ASSUME BasicTypes, NEW b \in Batch, Sound(b), WorkersDone(b)
  PROVE  BasicTypes' /\ Sound(b)'
<1>1. BasicTypes'
  BY DEF WorkersDone, Goto, BasicTypes, Stage, worldVars
<1>2. Shape(b)' /\ Counted(b)' /\ FewPages(b)'
  BY DEF WorkersDone, Goto, BasicTypes, Sound, Shape, Counted, FewPages
<1> QED  BY <1>1, <1>2 DEF Sound

LEMMA ApifySound ==
  ASSUME BasicTypes, NEW b \in Batch, Sound(b), ApifyRun(b) \/ ApifyFails(b)
  PROVE  BasicTypes' /\ Sound(b)'
<1>1. CASE ApifyFails(b)
  <2>1. pages[b] = {} /\ closing[b] = {}
    BY <1>1 DEF ApifyFails, Sound, Shape
  <2>2. faults' \in 0..MaxFaults
    BY <1>1, BatchAssumption DEF ApifyFails, Fault, BasicTypes
  <2> QED  BY <1>1, <2>1, <2>2, AllFailSound DEF ApifyFails
<1>2. CASE ApifyRun(b)
  <2> DEFINE here == {u \in ToSet(queue[b]) : holder[u] # NoAccount}
  <2>1. PICK found \in SetToSeqs(here),
             res \in [Username -> Findings] :
          /\ \A u \in Username : IF u \in ToSet(queue[b]) THEN res[u] \in Seen(u)
                                 ELSE res[u] = NoResult
          /\ result' = [result EXCEPT ![b] = res]
          /\ counters' = [counters EXCEPT ![b] = CountersOf(res)]
          /\ order' = [order EXCEPT ![b] = found \o Kept(queue[b], Username \ ToSet(found))]
    BY <1>2 DEF ApifyRun
  <2>2. /\ b \in ApifyBatch /\ queue' = [queue EXCEPT ![b] = <<>>] /\ pc' = [pc EXCEPT ![b] = "analysis"]
        /\ UNCHANGED <<worldVars, tried, pages, closing, error, doubled>>
    BY <1>2 DEF ApifyRun, Goto
  <2>3. /\ queue[b] \in Seq(Username) /\ IsInjective(queue[b])
        /\ ToSet(queue[b]) \subseteq Username /\ IsFiniteSet(ToSet(queue[b]))
    BY ToSetType DEF BasicTypes, Sound, Shape
  <2> DEFINE rest == Kept(queue[b], Username \ ToSet(found))
             new == found \o rest
  <2>4. found \in Seq(Username) /\ ToSet(found) = here /\ IsInjective(found)
    <3>1. here \in SUBSET ToSet(queue[b])
      OBVIOUS
    <3>2. IsFiniteSet(here)
      BY <2>3, <3>1, FS_Subset
    <3>3. found \in Seq(here) /\ ToSet(found) = here /\ IsInjective(found)
      BY <3>2, SetToSeqsFacts
    <3>4. here \subseteq Username
      BY <2>3
    <3> HIDE DEF here
    <3> QED  BY <3>3, <3>4
  <2>5. /\ rest \in Seq(Username) /\ IsInjective(rest)
        /\ ToSet(rest) = ToSet(queue[b]) \cap (Username \ ToSet(found))
    BY <2>3, KeptFacts
  <2>6. new \in Seq(Username) /\ IsInjective(new) /\ ToSet(new) = ToSet(queue[b])
    <3>1. ToSet(found) \cap ToSet(rest) = {} /\ ToSet(found) \cup ToSet(rest) = ToSet(queue[b])
      BY <2>3, <2>4, <2>5
    <3> HIDE DEF rest
    <3>2. new \in Seq(Username) /\ ToSet(new) = ToSet(found) \cup ToSet(rest)
      BY <2>4, <2>5, ToSetConcat
    <3>3. IsInjective(new)
      BY <2>4, <2>5, <3>1, InjectiveConcat
    <3> QED  BY <3>1, <3>2, <3>3
  <2>7. /\ order' = [order EXCEPT ![b] = new] /\ result' = [result EXCEPT ![b] = res]
        /\ counters' = [counters EXCEPT ![b] = CountersOf(res)]
    BY <2>1
  <2> HIDE DEF new, rest, here
  <2>8. \A u \in Username : /\ res[u] \in Result /\ Real(res[u])
                            /\ u \in ToSet(queue[b]) <=> res[u].status # "none"
    <3> TAKE u \in Username
    <3>1. CASE u \in ToSet(queue[b])
      BY <2>1, <3>1, SeenFacts
    <3>2. CASE u \notin ToSet(queue[b])
      BY <2>1, <3>2, ResultTypes
    <3> QED  BY <3>1, <3>2
  <2>9. res \in [Username -> Result]
    BY <2>8
  <2>10. CountersOf(res) \in Counters
    <3>1. \A u \in Username : u \in ToSet(queue[b]) <=> res[u].status # "none"
      BY <2>8
    <3> QED  BY <2>3, <2>9, <3>1, TallyFacts
  <2>11. BasicTypes'
    BY <2>2, <2>6, <2>7, <2>9, <2>10, EmptyFacts DEF BasicTypes, Stage, worldVars
  <2>12. Shape(b)'
    BY <2>2, <2>6, <2>7, <2>8, EmptyFacts DEF BasicTypes, Sound, Shape
  <2>13. Counted(b)'
    BY <2>7 DEF BasicTypes, Counted
  <2>14. FewPages(b)'
    BY <2>2 DEF Sound, FewPages
  <2> QED  BY <2>11, <2>12, <2>13, <2>14 DEF Sound
<1> QED  BY <1>1, <1>2

-----------------------------------------------------------------------------
\* The transaction

LEMMA Names == /\ Absent # Stale /\ Absent # Untouched /\ Stale # Untouched
               /\ Absent \notin Username /\ Stale \notin Username /\ Untouched \notin Username
               /\ Untouched \notin Name
  BY NameAssumption DEF Absent, Stale, Untouched, Name

\* Only a statement that waits can be the victim of a deadlock.
LEMMA VictimWaits ==
  ASSUME NEW b \in Batch, Deadlocked(b)
  PROVE  WaitsFor(b) # {} /\ tx[b].step # "none"
<1>1. WaitsFor(b) # {}
  <2> SUFFICES ASSUME WaitsFor(b) = {}
               PROVE  FALSE
    OBVIOUS
  <2>1. {} \in SUBSET Open /\ \A c \in {} \cup {b} : WaitsFor(c) \subseteq {}
    OBVIOUS
  <2>2. b \in {}
    BY <2>1 DEF Deadlocked
  <2> QED  BY <2>2
<1>2. tx[b].step \in {"displace", "lock", "write"}
  BY <1>1 DEF WaitsFor
<1> QED  BY <1>1, <1>2

LEMMA TxFields ==
  ASSUME StoreTypeOK, NEW b \in Batch
  PROVE  /\ tx[b].step \in {"none", "find", "claim", "displace", "lock", "write"}
         /\ tx[b].todo \in Seq(Profile) /\ tx[b].name \in Name /\ tx[b].owner \subseteq Account
         /\ tx[b].writes \in [Account -> Name \cup {Untouched}] /\ tx[b].stored \in SUBSET Profile
         /\ row \in [Account -> Name] /\ View(b) \in [Account -> Name]
<1>1. tx[b] \in Tx /\ row \in [Account -> Name]
  BY DEF StoreTypeOK
<1>2. /\ tx[b].step \in {"none", "find", "claim", "displace", "lock", "write"}
      /\ tx[b].todo \in Seq(Profile) /\ tx[b].name \in Name /\ tx[b].owner \subseteq Account
      /\ tx[b].writes \in [Account -> Name \cup {Untouched}] /\ tx[b].stored \in SUBSET Profile
  BY <1>1 DEF Tx
<1>3. View(b) \in [Account -> Name]
  BY <1>1, <1>2 DEF View
<1> QED  BY <1>1, <1>2, <1>3

LEMMA CurrentFacts ==
  ASSUME StoreTypeOK, NEW b \in Batch, tx[b].todo # <<>>
  PROVE  /\ Current(b) \in Profile /\ Tail(tx[b].todo) \in Seq(Profile)
         /\ Current(b).username \in Username /\ Current(b).account \in Account
         /\ Current(b).complete \in BOOLEAN
<1>1. tx[b].todo \in Seq(Profile)
  BY TxFields
<1>2. Current(b) \in Profile /\ Tail(tx[b].todo) \in Seq(Profile)
  BY <1>1, ToSetTail DEF Current
<1> QED  BY <1>2 DEF Profile

LEMMA BeginStep ==
  ASSUME StoreTypeOK, NEW b \in Batch, NEW profiles \in Seq(Profile), BeginPersist(b, profiles)
  PROVE  /\ StoreTypeOK' /\ row' = row
         /\ \A c \in Batch : c # b => tx'[c] = tx[c]
         /\ tx'[b].step = "find" /\ tx'[b].todo = profiles /\ tx'[b].writes = NoWrites
         /\ tx'[b].stored = {}
         /\ overlapped' = IF Open = {} THEN overlapped ELSE overlapped \cup Open \cup {b}
<1> DEFINE new == [NoTx EXCEPT !.step = "find", !.todo = profiles]
<1>1. new \in Tx /\ new.step = "find" /\ new.todo = profiles /\ new.writes = NoWrites
      /\ new.stored = {}
  BY DEF NoTx, NoWrites, Tx, Name
<1>2. tx' = [tx EXCEPT ![b] = new] /\ UNCHANGED <<row, fresh>>
      /\ overlapped' = IF Open = {} THEN overlapped ELSE overlapped \cup Open \cup {b}
  BY DEF BeginPersist
<1> HIDE DEF new
<1>3. Open \subseteq Batch
  BY DEF Open
<1> QED  BY <1>1, <1>2, <1>3 DEF StoreTypeOK

LEMMA FindStep ==
  ASSUME StoreTypeOK, NEW b \in Batch, Find(b)
  PROVE  /\ StoreTypeOK' /\ UNCHANGED <<row, fresh, overlapped>>
         /\ \A c \in Batch : c # b => tx'[c] = tx[c]
         /\ tx[b].step = "find" /\ tx[b].todo # <<>>
         /\ tx'[b].writes = tx[b].writes /\ tx'[b].stored = tx[b].stored
         /\ Current(b).complete =>
              tx'[b].step = "claim" /\ tx'[b].name = View(b)[Current(b).account]
              /\ tx'[b].todo = tx[b].todo
         /\ ~Current(b).complete => tx'[b].step = "find" /\ tx'[b].todo = Tail(tx[b].todo)
<1> DEFINE claim == [tx[b] EXCEPT !.step = "claim", !.name = View(b)[Current(b).account]]
           skip == [tx[b] EXCEPT !.todo = Tail(tx[b].todo)]
<1>1. tx[b].step = "find" /\ tx[b].todo # <<>> /\ tx[b] \in Tx /\ tx \in [Batch -> Tx]
  BY DEF Find, StoreTypeOK
<1>2. View(b)[Current(b).account] \in Name /\ Tail(tx[b].todo) \in Seq(Profile)
  BY <1>1, TxFields, CurrentFacts
<1>3. tx' = [tx EXCEPT ![b] = IF Current(b).complete THEN claim ELSE skip]
      /\ UNCHANGED <<row, fresh, overlapped>>
  BY DEF Find
<1>4. /\ claim \in Tx /\ claim.step = "claim" /\ claim.name = View(b)[Current(b).account]
      /\ claim.todo = tx[b].todo /\ claim.writes = tx[b].writes /\ claim.stored = tx[b].stored
  BY <1>1, <1>2 DEF Tx
<1>5. /\ skip \in Tx /\ skip.step = "find" /\ skip.todo = Tail(tx[b].todo)
      /\ skip.writes = tx[b].writes /\ skip.stored = tx[b].stored
  BY <1>1, <1>2 DEF Tx
<1> HIDE DEF claim, skip
<1>6. tx' \in [Batch -> Tx] /\ tx'[b] = (IF Current(b).complete THEN claim ELSE skip)
      /\ \A c \in Batch : c # b => tx'[c] = tx[c]
  BY <1>1, <1>3, <1>4, <1>5
<1>7. StoreTypeOK'
  BY <1>3, <1>6 DEF StoreTypeOK
<1> QED  BY <1>1, <1>3, <1>4, <1>5, <1>6, <1>7

LEMMA ClaimStep ==
  ASSUME StoreTypeOK, NEW b \in Batch, Claim(b)
  PROVE  /\ StoreTypeOK' /\ UNCHANGED <<row, fresh, overlapped>>
         /\ \A c \in Batch : c # b => tx'[c] = tx[c]
         /\ tx[b].step = "claim" /\ tx'[b].owner = Displaced(b)
         /\ tx'[b].step = IF Displaced(b) = {} THEN "lock" ELSE "displace"
         /\ tx'[b].writes = tx[b].writes /\ tx'[b].stored = tx[b].stored
         /\ tx'[b].todo = tx[b].todo /\ tx'[b].name = tx[b].name
<1> DEFINE owner == Displaced(b)
           new == [tx[b] EXCEPT !.step = IF owner = {} THEN "lock" ELSE "displace", !.owner = owner]
<1>1. /\ tx[b].step = "claim" /\ tx[b] \in Tx /\ tx \in [Batch -> Tx]
      /\ UNCHANGED <<row, fresh, overlapped>>
  BY DEF Claim, StoreTypeOK
<1>2. tx' = [tx EXCEPT ![b] = new]
  BY <1>1 DEF Claim
<1>3. owner \subseteq Account
  BY DEF Displaced, OwnersOf
<1> HIDE DEF owner
<1>4. /\ new \in Tx /\ new.step = (IF owner = {} THEN "lock" ELSE "displace") /\ new.owner = owner
      /\ new.writes = tx[b].writes /\ new.stored = tx[b].stored /\ new.todo = tx[b].todo
      /\ new.name = tx[b].name
  BY <1>1, <1>3 DEF Tx
<1> HIDE DEF new
<1>5. tx' \in [Batch -> Tx] /\ tx'[b] = new /\ \A c \in Batch : c # b => tx'[c] = tx[c]
  BY <1>1, <1>2, <1>4
<1>6. StoreTypeOK'
  BY <1>1, <1>5 DEF StoreTypeOK
<1> QED  BY <1>1, <1>4, <1>5, <1>6 DEF owner

LEMMA DisplaceStep ==
  ASSUME StoreTypeOK, NEW b \in Batch, Displace(b)
  PROVE  /\ StoreTypeOK' /\ UNCHANGED <<row, fresh, overlapped>>
         /\ \A c \in Batch : c # b => tx'[c] = tx[c]
         /\ tx[b].step = "displace" /\ tx'[b].step = "lock" /\ WaitsFor(b) = {}
         /\ tx'[b].writes = [a \in Account |-> IF a \in tx[b].owner THEN Stale ELSE tx[b].writes[a]]
         /\ tx'[b].stored = tx[b].stored /\ tx'[b].todo = tx[b].todo /\ tx'[b].name = tx[b].name
<1> DEFINE writes == [a \in Account |-> IF a \in tx[b].owner THEN Stale ELSE tx[b].writes[a]]
           new == [tx[b] EXCEPT !.step = "lock", !.owner = {}, !.writes = writes]
<1>1. tx[b].step = "displace" /\ tx[b] \in Tx /\ tx \in [Batch -> Tx] /\ WaitsFor(b) = {}
  BY DEF Displace, StoreTypeOK
<1>2. writes \in [Account -> Name \cup {Untouched}]
  BY TxFields DEF Name
<1>3. tx' = [tx EXCEPT ![b] = new] /\ UNCHANGED <<row, fresh, overlapped>>
  BY <1>1 DEF Displace
<1> HIDE DEF writes
<1>4. /\ new \in Tx /\ new.step = "lock" /\ new.writes = writes /\ new.stored = tx[b].stored
      /\ new.todo = tx[b].todo /\ new.name = tx[b].name
  BY <1>1, <1>2 DEF Tx
<1> HIDE DEF new
<1>5. tx' \in [Batch -> Tx] /\ tx'[b] = new /\ \A c \in Batch : c # b => tx'[c] = tx[c]
  BY <1>1, <1>3, <1>4
<1>6. StoreTypeOK'
  BY <1>3, <1>5 DEF StoreTypeOK
<1> QED  BY <1>1, <1>3, <1>4, <1>5, <1>6 DEF writes

LEMMA LockStep ==
  ASSUME StoreTypeOK, NEW b \in Batch, tx[b].todo # <<>>, LockRow(b)
  PROVE  /\ StoreTypeOK' /\ UNCHANGED <<row, fresh, overlapped>>
         /\ \A c \in Batch : c # b => tx'[c] = tx[c]
         /\ tx[b].step = "lock" /\ tx'[b].step = "write" /\ WaitsFor(b) = {} /\ ~IdTaken(b)
         /\ tx'[b].writes = [tx[b].writes EXCEPT ![Current(b).account] = View(b)[Current(b).account]]
         /\ tx'[b].stored = tx[b].stored /\ tx'[b].todo = tx[b].todo /\ tx'[b].name = tx[b].name
<1> DEFINE writes == [tx[b].writes EXCEPT ![Current(b).account] = View(b)[Current(b).account]]
           new == [tx[b] EXCEPT !.step = "write", !.writes = writes]
<1>1. /\ tx[b].step = "lock" /\ tx[b] \in Tx /\ tx \in [Batch -> Tx] /\ WaitsFor(b) = {}
      /\ ~IdTaken(b)
  BY DEF LockRow, StoreTypeOK
<1>2. writes \in [Account -> Name \cup {Untouched}]
  BY TxFields, CurrentFacts
<1>3. tx' = [tx EXCEPT ![b] = new] /\ UNCHANGED <<row, fresh, overlapped>>
  BY <1>1 DEF LockRow
<1> HIDE DEF writes
<1>4. /\ new \in Tx /\ new.step = "write" /\ new.writes = writes /\ new.stored = tx[b].stored
      /\ new.todo = tx[b].todo /\ new.name = tx[b].name
  BY <1>1, <1>2 DEF Tx
<1> HIDE DEF new
<1>5. tx' \in [Batch -> Tx] /\ tx'[b] = new /\ \A c \in Batch : c # b => tx'[c] = tx[c]
  BY <1>1, <1>3, <1>4
<1>6. StoreTypeOK'
  BY <1>3, <1>5 DEF StoreTypeOK
<1> QED  BY <1>1, <1>3, <1>4, <1>5, <1>6 DEF writes

LEMMA WriteStep ==
  ASSUME StoreTypeOK, NEW b \in Batch, tx[b].todo # <<>>, WriteName(b)
  PROVE  /\ StoreTypeOK' /\ UNCHANGED <<row, fresh, overlapped>>
         /\ \A c \in Batch : c # b => tx'[c] = tx[c]
         /\ tx[b].step = "write" /\ tx'[b].step = "find" /\ WaitsFor(b) = {} /\ ~NameTaken(b)
         /\ tx'[b].writes = [tx[b].writes EXCEPT ![Current(b).account] =
                               IF Renames(b) THEN Current(b).username ELSE @]
         /\ tx'[b].stored = tx[b].stored \cup {Current(b)} /\ tx'[b].todo = Tail(tx[b].todo)
<1> DEFINE writes == [tx[b].writes EXCEPT ![Current(b).account] =
                        IF Renames(b) THEN Current(b).username ELSE @]
           new == [tx[b] EXCEPT !.step = "find", !.todo = Tail(tx[b].todo),
                                !.stored = tx[b].stored \cup {Current(b)}, !.writes = writes]
<1>1. /\ tx[b].step = "write" /\ tx[b] \in Tx /\ tx \in [Batch -> Tx] /\ WaitsFor(b) = {}
      /\ ~NameTaken(b)
  BY DEF WriteName, StoreTypeOK
<1>2. /\ Current(b) \in Profile /\ Tail(tx[b].todo) \in Seq(Profile)
      /\ Current(b).username \in Username /\ Current(b).account \in Account
      /\ tx[b].writes \in [Account -> Name \cup {Untouched}] /\ tx[b].stored \in SUBSET Profile
  BY TxFields, CurrentFacts
<1>3. writes \in [Account -> Name \cup {Untouched}]
  BY <1>2 DEF Name
<1>4. tx' = [tx EXCEPT ![b] = new] /\ UNCHANGED <<row, fresh, overlapped>>
  BY <1>1 DEF WriteName
<1> HIDE DEF writes
<1>5. /\ new \in Tx /\ new.step = "find" /\ new.writes = writes
      /\ new.stored = tx[b].stored \cup {Current(b)} /\ new.todo = Tail(tx[b].todo)
  BY <1>1, <1>2, <1>3 DEF Tx
<1> HIDE DEF new
<1>6. tx' \in [Batch -> Tx] /\ tx'[b] = new /\ \A c \in Batch : c # b => tx'[c] = tx[c]
  BY <1>1, <1>4, <1>5
<1>7. StoreTypeOK'
  BY <1>4, <1>6 DEF StoreTypeOK
<1> QED  BY <1>1, <1>4, <1>5, <1>6, <1>7 DEF writes

LEMMA FailStep ==
  ASSUME StoreTypeOK, NEW b \in Batch, FlushFails(b)
  PROVE  /\ StoreTypeOK' /\ UNCHANGED <<row, fresh, overlapped>>
         /\ \A c \in Batch : c # b => tx'[c] = tx[c]
         /\ tx'[b] = NoTx
<1>1. NoTx \in Tx
  BY DEF NoTx, NoWrites, Tx, Name
<1>2. tx' = [tx EXCEPT ![b] = NoTx] /\ UNCHANGED <<row, fresh, overlapped>>
  BY DEF FlushFails
<1> QED  BY <1>1, <1>2 DEF StoreTypeOK

\* The commit makes rows, and takes none away.
LEMMA CommitStep ==
  ASSUME StoreTypeOK, NEW b \in Batch, Present(b), Commit(b)
  PROVE  /\ StoreTypeOK' /\ row' = View(b) /\ UNCHANGED overlapped
         /\ fresh' = fresh \cup {p.account : p \in tx[b].stored}
         /\ \A a \in Account : row[a] # Absent => row'[a] # Absent
         /\ \A c \in Batch : c # b => tx'[c] = tx[c]
         /\ tx'[b] = NoTx /\ tx[b].step = "find" /\ tx[b].todo = <<>>
<1>1. /\ tx[b].step = "find" /\ tx[b].todo = <<>> /\ row' = View(b)
      /\ fresh' = fresh \cup {p.account : p \in tx[b].stored}
      /\ tx' = [tx EXCEPT ![b] = NoTx] /\ UNCHANGED overlapped
  BY DEF Commit
<1>2. NoTx \in Tx
  BY DEF NoTx, NoWrites, Tx, Name
<1>3. tx' \in [Batch -> Tx] /\ tx'[b] = NoTx /\ \A c \in Batch : c # b => tx'[c] = tx[c]
  BY <1>1, <1>2 DEF StoreTypeOK
<1>4. /\ View(b) \in [Account -> Name] /\ tx[b].stored \in SUBSET Profile
      /\ tx[b].writes \in [Account -> Name \cup {Untouched}]
  BY TxFields
<1>5. \A a \in Account : tx[b].writes[a] # Absent
  BY <1>1 DEF Present
<1>6. \A a \in Account : row[a] # Absent => row'[a] # Absent
  BY <1>1, <1>5 DEF View
<1>7. fresh' \subseteq {a \in Account : row'[a] # Absent}
  <2>1. \A a \in fresh : a \in Account /\ row'[a] # Absent
    BY <1>6 DEF StoreTypeOK
  <2>2. \A p \in tx[b].stored : p.account \in Account /\ row'[p.account] # Absent
    BY <1>1, <1>4 DEF Present, Profile
  <2> QED  BY <1>1, <2>1, <2>2
<1>8. StoreTypeOK'
  BY <1>1, <1>3, <1>4, <1>7 DEF StoreTypeOK
<1> QED  BY <1>1, <1>3, <1>6, <1>8

LEMMA TailFacts ==
  ASSUME NEW S, NEW s \in Seq(S), s # <<>>
  PROVE  /\ 1 \in DOMAIN s /\ Head(s) = s[1]
         /\ \A i \in DOMAIN Tail(s) : i \in Nat /\ i + 1 \in DOMAIN s /\ i + 1 # 1 /\ Tail(s)[i] = s[i + 1]
         /\ \A i \in DOMAIN s : i = 1 \/ (i - 1 \in DOMAIN Tail(s) /\ s[i] = Tail(s)[i - 1])
<1> DEFINE n == Len(s)
           t == Tail(s)
<1>1. /\ n \in Nat /\ n > 0 /\ Head(s) = s[1] /\ t \in Seq(S) /\ Len(t) = n - 1
      /\ \A i \in 1 .. Len(t) : t[i] = s[i + 1]
      /\ DOMAIN s = 1 .. n /\ DOMAIN t = 1 .. Len(t)
  BY HeadTailProperties
<1> HIDE DEF n, t
<1>2. \A i \in 1 .. n : i = 1 \/ (i - 1 \in 1 .. n - 1 /\ (i - 1) + 1 = i)
  BY <1>1
<1>3. \A i \in 1 .. n - 1 : i \in Nat /\ i + 1 \in 1 .. n /\ i + 1 # 1
  BY <1>1
<1>4. 1 \in 1 .. n
  BY <1>1
<1>5. \A i \in DOMAIN s : i = 1 \/ (i - 1 \in DOMAIN t /\ s[i] = t[i - 1])
  BY <1>1, <1>2
<1> QED  BY <1>1, <1>3, <1>4, <1>5 DEF t

\* What a batch does while it is not persisted does not touch the store.
Early(b) == UNCHANGED storeVars /\ pc[b] # "persist" /\ pc'[b] # "persist"

LEMMA Steps ==
  ASSUME BasicTypes, NEW b \in Batch, Sound(b), Execute(b)
  PROVE  \/ Early(b) \/ (Analysed(b) /\ b \notin error) \/ PersistFinds(b) \/ PersistWrites(b)
         \/ PersistFails(b) \/ PersistCommits(b)
<1>1. ASSUME Prepare(b) \/ SessionReady(b) \/ LaunchFails(b) \/ OpenPage(b) \/ WorkersDone(b)
             \/ ApifyRun(b)
      PROVE  Early(b)
  BY <1>1 DEF Prepare, SessionReady, LaunchFails, OpenPage, WorkersDone, ApifyRun, Goto, BasicTypes, Early
<1>2. ASSUME NoBrowser(b) \/ NoSession(b) \/ ApifyFails(b)
      PROVE  Early(b)
  BY <1>2 DEF NoBrowser, NoSession, ApifyFails, AllFail, Goto, BasicTypes, Early
<1>3. ASSUME NEW c \in Credential, CredentialFails(b, c)
      PROVE  Early(b)
  BY <1>3 DEF CredentialFails, Early
<1>4. ASSUME NEW u \in Username,
             Scrape(b, u) \/ ScrapeFails(b, u) \/ ClosePage(b, u) \/ CloseFails(b, u)
      PROVE  Early(b)
  <2>1. pages[b] # {} \/ closing[b] # {}
    BY <1>4 DEF Scrape, ScrapeFails, ClosePage, CloseFails
  <2>2. pc[b] # "persist"
    BY <2>1 DEF Sound, Shape
  <2>3. pc' = pc /\ UNCHANGED storeVars
    BY <1>4 DEF Scrape, ScrapeFails, ClosePage, CloseFails
  <2> QED  BY <2>2, <2>3 DEF Early
<1>5. ASSUME Analysed(b), b \in error
      PROVE  Early(b)
  BY <1>5 DEF Analysed, Goto, BasicTypes, Early
<1> QED  BY <1>1, <1>2, <1>3, <1>4, <1>5 DEF Execute

\* What the scraped profiles of a batch are.
LEMMA ProfilesFacts ==
  ASSUME BasicTypes, NEW b \in Batch, Sound(b)
  PROVE  /\ Profiles(b) \in Seq(Profile)
         /\ \A i \in DOMAIN Profiles(b) : Reported(b, Profiles(b)[i])
         /\ \A i, j \in DOMAIN Profiles(b) : Profiles(b)[i].username = Profiles(b)[j].username => i = j
         /\ \A u \in Told(b) : \E i \in DOMAIN Profiles(b) : Profiles(b)[i].username = u
<1> DEFINE s == Successes(b)
           N == Len(s)
           told == {u \in Username : result[b][u].status = "success"}
           profile(u) == [username |-> u, account |-> result[b][u].account,
                          complete |-> result[b][u].complete]
<1>1. /\ order[b] \in Seq(Username) /\ IsInjective(order[b])
      /\ \A u \in Username : (u \in ToSet(order[b]) <=> result[b][u].status # "none") /\ Real(result[b][u])
  BY DEF BasicTypes, Sound, Shape
<1>2. s \in Seq(Username) /\ IsInjective(s) /\ ToSet(s) = ToSet(order[b]) \cap told
  <2> HIDE DEF told
  <2>1. s = Kept(order[b], told)
    BY DEF Successes, told
  <2> HIDE DEF s
  <2> QED  BY <1>1, <2>1, KeptFacts
<1>3. N \in Nat /\ DOMAIN s = 1 .. N /\ \A i \in 1 .. N : s[i] \in told
  BY <1>2, ToSetType
<1>4. Profiles(b) = [i \in 1 .. N |-> profile(s[i])]
  BY DEF Profiles
<1>5. ASSUME NEW u \in told
      PROVE  profile(u) \in Profile /\ Reported(b, profile(u)) /\ profile(u).username = u
  <2>1. u \in Username /\ result[b][u] \in Result /\ result[b][u].status = "success"
        /\ result[b][u].account \in Account
    BY <1>1 DEF BasicTypes, Real
  <2>2. result[b][u] = [status |-> "success", account |-> result[b][u].account,
                        complete |-> result[b][u].complete]
        /\ result[b][u].complete \in BOOLEAN
    BY <2>1 DEF Result
  <2> QED  BY <2>1, <2>2 DEF Profile, Reported, Success
<1>6. \A i \in 1 .. N : /\ profile(s[i]) \in Profile /\ Reported(b, profile(s[i]))
                        /\ profile(s[i]).username = s[i]
  BY <1>3, <1>5
<1>7. \A u \in Told(b) : \E i \in 1 .. N : s[i] = u
  BY <1>1, <1>2, <1>3 DEF Told, ToSet
<1>8. \A i, j \in 1 .. N : s[i] = s[j] => i = j
  BY <1>2, <1>3 DEF IsInjective
<1> HIDE DEF s, N, told, profile
<1>9. DOMAIN Profiles(b) = 1 .. N /\ \A i \in 1 .. N : Profiles(b)[i] = profile(s[i])
  BY <1>4
<1>10. Profiles(b) \in Seq(Profile)
  BY <1>3, <1>4, <1>6
<1> QED  BY <1>6, <1>7, <1>8, <1>9, <1>10

-----------------------------------------------------------------------------
\* What has been looked up, stored and reported

TxInv(b) == TxShape(b) /\ Present(b) /\ TodoTrue(b)

\* The transaction of a batch at rest is disturbed by no commit of another's.
LEMMA RestingTx ==
  ASSUME StoreTypeOK, NEW b \in Batch, TxInv(b), tx'[b] = tx[b], Still(b),
         \A a \in Account : row[a] # Absent => row'[a] # Absent
  PROVE  TxInv(b)'
<1>1. TxShape(b)'
  BY DEF TxInv, TxShape, AtWork, Current, Still
<1>2. Present(b)'
  <2>1. ASSUME NEW a \in Account, View(b)[a] # Absent
        PROVE  View(b)'[a] # Absent
    BY <2>1 DEF View
  <2>2. \A p \in tx[b].stored : p.account \in Account
    BY TxFields DEF Profile
  <2>3. ASSUME AtWork(b), tx[b].name # Absent
        PROVE  View(b)'[Current(b).account] # Absent
    <3>1. Current(b).account \in Account /\ View(b)[Current(b).account] # Absent
      BY <2>3, CurrentFacts DEF TxInv, TxShape, Present
    <3> QED  BY <2>1, <3>1
  <2>4. AtWork(b)' = AtWork(b) /\ Current(b)' = Current(b)
    BY DEF AtWork, Current
  <2>5. \A p \in tx[b].stored : View(b)'[p.account] # Absent
    BY <2>1, <2>2 DEF TxInv, Present
  <2>6. \A a \in Account : tx[b].writes[a] = Absent =>
          tx[b].step = "write" /\ a = Current(b).account /\ tx[b].name = Absent
    BY DEF TxInv, Present
  <2> QED  BY <2>3, <2>4, <2>5, <2>6 DEF Present
<1>3. TodoTrue(b)'
  BY DEF TxInv, TodoTrue, Reported, Told, Still
<1> QED  BY <1>1, <1>2, <1>3 DEF TxInv

LEMMA EarlyTx ==
  ASSUME StoreTypeOK, NEW b \in Batch, TxInv(b), Early(b)
  PROVE  TxInv(b)'
<1>1. tx' = tx /\ row' = row /\ pc[b] # "persist" /\ pc'[b] # "persist" /\ tx[b].step = "none"
  BY DEF Early, storeVars, TxInv, TxShape
<1>2. TxShape(b)'
  BY <1>1 DEF TxInv, TxShape, AtWork, Current
<1>3. Present(b)'
  BY <1>1 DEF TxInv, Present, AtWork, View, Current
<1>4. TodoTrue(b)'
  BY <1>1 DEF TodoTrue
<1> QED  BY <1>2, <1>3, <1>4 DEF TxInv

LEMMA AnalysedTx ==
  ASSUME StoreTypeOK, BasicTypes, NEW b \in Batch, Sound(b), TxInv(b), Analysed(b), b \notin error
  PROVE  StoreTypeOK' /\ TxInv(b)'
<1>1. BeginPersist(b, Profiles(b)) /\ pc'[b] = "persist" /\ result' = result
  BY DEF Analysed, Goto, BasicTypes
<1>2. /\ Profiles(b) \in Seq(Profile)
      /\ \A i \in DOMAIN Profiles(b) : Reported(b, Profiles(b)[i])
      /\ \A i, j \in DOMAIN Profiles(b) : Profiles(b)[i].username = Profiles(b)[j].username => i = j
      /\ \A u \in Told(b) : \E i \in DOMAIN Profiles(b) : Profiles(b)[i].username = u
  BY ProfilesFacts
<1>3. /\ StoreTypeOK' /\ tx'[b].step = "find" /\ tx'[b].todo = Profiles(b)
      /\ tx'[b].writes = NoWrites /\ tx'[b].stored = {}
  BY <1>1, <1>2, BeginStep
<1>4. TxShape(b)'
  BY <1>1, <1>3 DEF TxShape, AtWork
<1>5. Present(b)'
  BY <1>3, Names DEF Present, AtWork, NoWrites
<1>6. TodoTrue(b)'
  <2> DEFINE todo == Profiles(b)
  <2>1. tx'[b].todo = todo /\ tx'[b].stored = {} /\ result' = result
    BY <1>1, <1>3
  <2>2. /\ \A i \in DOMAIN todo : Reported(b, todo[i])
        /\ \A i, j \in DOMAIN todo : todo[i].username = todo[j].username => i = j
        /\ \A u \in Told(b) : \E i \in DOMAIN todo : todo[i].username = u
    BY <1>2
  <2> HIDE DEF todo
  <2> QED  BY <2>1, <2>2 DEF TodoTrue, Reported, Told
<1> QED  BY <1>3, <1>4, <1>5, <1>6 DEF TxInv

LEMMA FindsTx ==
  ASSUME StoreTypeOK, BasicTypes, NEW b \in Batch, Sound(b), TxInv(b), PersistFinds(b)
  PROVE  StoreTypeOK' /\ TxInv(b)'
<1>1. /\ StoreTypeOK' /\ UNCHANGED <<row, fresh, overlapped>>
      /\ tx[b].step = "find" /\ tx[b].todo # <<>>
      /\ tx'[b].writes = tx[b].writes /\ tx'[b].stored = tx[b].stored
      /\ Current(b).complete =>
           tx'[b].step = "claim" /\ tx'[b].name = View(b)[Current(b).account]
           /\ tx'[b].todo = tx[b].todo
      /\ ~Current(b).complete => tx'[b].step = "find" /\ tx'[b].todo = Tail(tx[b].todo)
  BY FindStep DEF PersistFinds
<1>2. /\ pc' = pc /\ pc[b] = "persist"
      /\ Current(b).complete => result' = result
      /\ ~Current(b).complete => result' = [result EXCEPT ![b][Current(b).username].status = "failed"]
  BY <1>1 DEF PersistFinds, TxInv, TxShape
<1>3. View(b)' = View(b)
  BY <1>1 DEF View
<1>4. TxShape(b)'
  BY <1>1, <1>2 DEF TxShape, AtWork, Current
<1>5. Present(b)'
  <2>1. \A a \in Account : tx'[b].writes[a] # Absent
    BY <1>1 DEF TxInv, Present
  <2>2. \A p \in tx'[b].stored : View(b)'[p.account] # Absent
    BY <1>1, <1>3 DEF TxInv, Present
  <2>3. AtWork(b)' => tx'[b].name = View(b)'[Current(b)'.account]
    BY <1>1, <1>3 DEF AtWork, Current
  <2> QED  BY <2>1, <2>2, <2>3 DEF Present
<1>6. TodoTrue(b)'
  <2>1. CASE Current(b).complete
    BY <1>1, <1>2, <2>1 DEF TxInv, TodoTrue, Reported, Told
  <2>2. CASE ~Current(b).complete
    <3> DEFINE u == Current(b).username
               todo == tx[b].todo
               rest == Tail(tx[b].todo)
    <3>1. /\ \A i \in DOMAIN todo : Reported(b, todo[i])
          /\ \A i, j \in DOMAIN todo : todo[i].username = todo[j].username => i = j
          /\ \A p \in tx[b].stored :
               Reported(b, p) /\ \A i \in DOMAIN todo : todo[i].username # p.username
          /\ \A v \in Told(b) : \/ \E p \in tx[b].stored : p.username = v
                                \/ \E i \in DOMAIN todo : todo[i].username = v
      BY <1>2 DEF TxInv, TodoTrue
    <3>2. todo \in Seq(Profile) /\ todo # <<>> /\ u \in Username
      BY <1>1, TxFields, CurrentFacts
    <3>3. u = Head(todo).username /\ tx'[b].todo = rest /\ tx'[b].stored = tx[b].stored
      BY <1>1, <2>2 DEF Current
    <3>4. /\ 1 \in DOMAIN todo /\ u = todo[1].username
          /\ \A i \in DOMAIN rest : i \in Nat /\ i + 1 \in DOMAIN todo /\ i + 1 # 1 /\ rest[i] = todo[i + 1]
          /\ \A i \in DOMAIN todo : i = 1 \/ (i - 1 \in DOMAIN rest /\ todo[i] = rest[i - 1])
      BY <3>2, <3>3, TailFacts
    <3>5. /\ result'[b][u].status = "failed"
          /\ \A v \in Username : v # u => result'[b][v] = result[b][v]
      BY <1>2, <2>2, <3>2 DEF BasicTypes, Result
    <3>6. \A i \in DOMAIN todo : todo[i].username \in Username
      <4>1. \A i \in DOMAIN todo : todo[i] \in Profile
        BY <3>2
      <4> QED  BY <4>1 DEF Profile
    <3>7. \A p \in tx[b].stored : p.username \in Username /\ p.username # u
      <4>1. \A p \in tx[b].stored : p.username \in Username
        BY TxFields DEF Profile
      <4> QED  BY <3>1, <3>4, <4>1
    <3> HIDE DEF u, todo, rest
    <3>8. \A i \in DOMAIN rest : rest[i].username # u /\ rest[i].username \in Username
      BY <3>1, <3>4, <3>6
    <3>9. \A i \in DOMAIN rest :
            result'[b][rest[i].username] = Success(rest[i].account, rest[i].complete)
      BY <3>1, <3>3, <3>4, <3>5, <3>8 DEF Reported
    <3>10. \A p \in tx[b].stored : result'[b][p.username] = Success(p.account, p.complete)
      BY <3>1, <3>5, <3>7 DEF Reported
    <3>11. \A i, j \in DOMAIN rest : rest[i].username = rest[j].username => i = j
      <4> TAKE i, j \in DOMAIN rest
      <4>1. rest[i].username = rest[j].username => i + 1 = j + 1
        BY <3>1, <3>4
      <4> QED  BY <3>4, <4>1
    <3>12. \A p \in tx[b].stored, i \in DOMAIN rest : rest[i].username # p.username
      BY <3>1, <3>4
    <3>13. ASSUME NEW v \in Told(b)'
           PROVE  \/ \E p \in tx[b].stored : p.username = v
                  \/ \E i \in DOMAIN rest : rest[i].username = v
      <4>1. v \in Username /\ v # u /\ v \in Told(b)
        BY <3>5, <3>13 DEF Told
      <4>2. CASE \E p \in tx[b].stored : p.username = v
        BY <4>2
      <4>3. ASSUME NEW i \in DOMAIN todo, todo[i].username = v
            PROVE  \E k \in DOMAIN rest : rest[k].username = v
        BY <3>4, <4>1, <4>3
      <4> QED  BY <3>1, <4>1, <4>2, <4>3
    <3> QED  BY <3>3, <3>9, <3>10, <3>11, <3>12, <3>13 DEF TodoTrue, Reported
  <2> QED  BY <1>1, <2>1, <2>2, CurrentFacts
<1> QED  BY <1>1, <1>4, <1>5, <1>6 DEF TxInv

LEMMA ClaimTx ==
  ASSUME StoreTypeOK, NEW b \in Batch, TxInv(b), Claim(b), UNCHANGED batchVars
  PROVE  StoreTypeOK' /\ TxInv(b)'
<1>1. /\ StoreTypeOK' /\ UNCHANGED <<row, fresh, overlapped>>
      /\ tx[b].step = "claim" /\ tx'[b].step \in {"lock", "displace"}
      /\ tx'[b].writes = tx[b].writes /\ tx'[b].stored = tx[b].stored
      /\ tx'[b].todo = tx[b].todo /\ tx'[b].name = tx[b].name
  BY ClaimStep
<1>2. /\ pc' = pc /\ result' = result /\ pc[b] = "persist" /\ Current(b)' = Current(b)
      /\ tx[b].todo # <<>> /\ Current(b).complete /\ View(b)' = View(b)
  BY <1>1 DEF batchVars, TxInv, TxShape, AtWork, Current, View
<1>3. TxShape(b)'
  BY <1>1, <1>2 DEF TxShape
<1>4. Present(b)'
  BY <1>1, <1>2 DEF TxInv, Present, AtWork
<1>5. TodoTrue(b)'
  BY <1>1, <1>2 DEF TxInv, TodoTrue, Reported, Told
<1> QED  BY <1>1, <1>3, <1>4, <1>5 DEF TxInv

LEMMA DisplaceTx ==
  ASSUME StoreTypeOK, NEW b \in Batch, TxInv(b), Displace(b), UNCHANGED batchVars
  PROVE  StoreTypeOK' /\ TxInv(b)'
<1>1. /\ StoreTypeOK' /\ UNCHANGED <<row, fresh, overlapped>>
      /\ tx[b].step = "displace" /\ tx'[b].step = "lock"
      /\ tx'[b].writes = [a \in Account |-> IF a \in tx[b].owner THEN Stale ELSE tx[b].writes[a]]
      /\ tx'[b].stored = tx[b].stored /\ tx'[b].todo = tx[b].todo /\ tx'[b].name = tx[b].name
  BY DisplaceStep
<1>2. pc' = pc /\ result' = result /\ pc[b] = "persist" /\ Current(b)' = Current(b)
      /\ tx[b].todo # <<>> /\ Current(b).complete
  BY <1>1 DEF batchVars, TxInv, TxShape, AtWork, Current
<1>3. \A a \in Account : View(b)[a] # Absent => View(b)'[a] # Absent
  BY <1>1, Names DEF View
<1>4. TxShape(b)'
  BY <1>1, <1>2 DEF TxShape
<1>5. Present(b)'
  <2>1. \A a \in Account : tx'[b].writes[a] # Absent
    BY <1>1, Names DEF TxInv, Present
  <2>2. \A p \in tx[b].stored : p.account \in Account
    BY TxFields DEF Profile
  <2>3. \A p \in tx'[b].stored : View(b)'[p.account] # Absent
    BY <1>1, <1>3, <2>2 DEF TxInv, Present
  <2>4. tx'[b].name # Absent => View(b)'[Current(b)'.account] # Absent
    <3>1. Current(b).account \in Account
      BY <1>2, CurrentFacts
    <3> QED  BY <1>1, <1>2, <1>3, <3>1 DEF TxInv, Present, AtWork
  <2> QED  BY <2>1, <2>3, <2>4 DEF Present
<1>6. TodoTrue(b)'
  BY <1>1, <1>2 DEF TxInv, TodoTrue, Reported, Told
<1> QED  BY <1>1, <1>4, <1>5, <1>6 DEF TxInv

LEMMA LockTx ==
  ASSUME StoreTypeOK, NEW b \in Batch, TxInv(b), LockRow(b), UNCHANGED batchVars
  PROVE  StoreTypeOK' /\ TxInv(b)' /\ View(b)' = View(b)
<1>a. tx[b].todo # <<>> /\ AtWork(b)
  BY DEF LockRow, TxInv, TxShape, AtWork
<1>1. /\ StoreTypeOK' /\ UNCHANGED <<row, fresh, overlapped>>
      /\ tx[b].step = "lock" /\ tx'[b].step = "write"
      /\ tx'[b].writes = [tx[b].writes EXCEPT ![Current(b).account] = View(b)[Current(b).account]]
      /\ tx'[b].stored = tx[b].stored /\ tx'[b].todo = tx[b].todo /\ tx'[b].name = tx[b].name
  BY <1>a, LockStep
<1>2. pc' = pc /\ result' = result /\ pc[b] = "persist" /\ Current(b)' = Current(b)
      /\ Current(b).complete /\ Current(b).account \in Account
      /\ tx[b].writes \in [Account -> Name \cup {Untouched}] /\ View(b) \in [Account -> Name]
  BY <1>a, <1>1, CurrentFacts, TxFields DEF batchVars, TxInv, TxShape, Current
<1>3. View(b)' = View(b)
  <2>1. \A a \in Account : View(b)'[a] = View(b)[a]
    BY <1>1, <1>2, Names DEF View
  <2> QED  BY <2>1, <1>2 DEF View
<1>4. TxShape(b)'
  BY <1>a, <1>1, <1>2 DEF TxShape
<1>5. Present(b)'
  <2>1. ASSUME NEW a \in Account, tx'[b].writes[a] = Absent
        PROVE  a = Current(b).account /\ tx[b].name = Absent
    <3>1. a = Current(b).account
      BY <1>1, <1>2, <2>1 DEF TxInv, Present
    <3>2. View(b)[Current(b).account] = Absent
      BY <1>1, <1>2, <2>1, <3>1
    <3> QED  BY <1>a, <3>1, <3>2 DEF TxInv, Present
  <2> QED  BY <1>a, <1>1, <1>2, <1>3, <2>1 DEF TxInv, Present
<1>6. TodoTrue(b)'
  BY <1>1, <1>2 DEF TxInv, TodoTrue, Reported, Told
<1> QED  BY <1>1, <1>3, <1>4, <1>5, <1>6 DEF TxInv

LEMMA WriteTx ==
  ASSUME StoreTypeOK, NEW b \in Batch, TxInv(b), WriteName(b), UNCHANGED batchVars
  PROVE  StoreTypeOK' /\ TxInv(b)'
<1> DEFINE p == Current(b)
           todo == tx[b].todo
           rest == Tail(tx[b].todo)
<1>a. todo # <<>> /\ AtWork(b)
  BY DEF WriteName, TxInv, TxShape, AtWork
<1>1. /\ StoreTypeOK' /\ UNCHANGED <<row, fresh, overlapped>>
      /\ tx[b].step = "write" /\ tx'[b].step = "find"
      /\ tx'[b].writes = [tx[b].writes EXCEPT ![p.account] = IF Renames(b) THEN p.username ELSE @]
      /\ tx'[b].stored = tx[b].stored \cup {p} /\ tx'[b].todo = rest
  BY <1>a, WriteStep
<1>2. /\ pc' = pc /\ result' = result /\ pc[b] = "persist"
      /\ p \in Profile /\ p.username \in Username /\ p.account \in Account
      /\ tx[b].writes \in [Account -> Name \cup {Untouched}] /\ todo \in Seq(Profile)
      /\ tx[b].stored \in SUBSET Profile /\ row \in [Account -> Name]
  BY <1>a, <1>1, CurrentFacts, TxFields DEF batchVars, TxInv, TxShape
<1>3. TxShape(b)'
  BY <1>1, <1>2 DEF TxShape, AtWork
<1>4. \A a \in Account : tx'[b].writes[a] # Absent
  <2> TAKE a \in Account
  <2>1. CASE a # p.account
    BY <1>1, <1>2, <2>1 DEF TxInv, Present
  <2>2. CASE a = p.account /\ Renames(b)
    BY <1>1, <1>2, <2>2, Names
  <2>3. CASE a = p.account /\ ~Renames(b)
    <3>1. tx[b].name = p.username
      BY <2>3 DEF Renames
    <3> QED  BY <1>1, <1>2, <2>3, <3>1, Names DEF TxInv, Present
  <2> QED  BY <2>1, <2>2, <2>3
<1>5. Present(b)'
  <2>1. ASSUME NEW q \in tx[b].stored
        PROVE  View(b)'[q.account] # Absent
    <3>1. q.account \in Account /\ View(b)[q.account] # Absent
      BY <1>2 DEF TxInv, Present, Profile
    <3>2. CASE q.account # p.account
      BY <1>1, <1>2, <3>1, <3>2 DEF View
    <3>3. CASE q.account = p.account
      BY <1>1, <1>2, <1>4, <3>1, <3>3, Names DEF View
    <3> QED  BY <3>2, <3>3
  <2>2. View(b)'[p.account] # Absent
    <3>1. CASE Renames(b)
      BY <1>1, <1>2, <3>1, Names DEF View
    <3>2. CASE ~Renames(b)
      <4>1. tx[b].name = p.username /\ tx[b].name # Absent
        BY <1>2, <3>2, Names DEF Renames
      <4>2. View(b)[p.account] # Absent
        BY <1>a, <4>1 DEF TxInv, Present
      <4>3. tx'[b].writes = tx[b].writes
        BY <1>1, <1>2, <3>2
      <4> QED  BY <1>1, <1>2, <4>2, <4>3 DEF View
    <3> QED  BY <3>1, <3>2
  <2>3. \A q \in tx'[b].stored : View(b)'[q.account] # Absent
    BY <1>1, <2>1, <2>2
  <2> QED  BY <1>1, <1>4, <2>3 DEF Present, AtWork
<1>6. TodoTrue(b)'
  <2>1. /\ \A i \in DOMAIN todo : Reported(b, todo[i])
        /\ \A i, j \in DOMAIN todo : todo[i].username = todo[j].username => i = j
        /\ \A q \in tx[b].stored :
             Reported(b, q) /\ \A i \in DOMAIN todo : todo[i].username # q.username
        /\ \A v \in Told(b) : \/ \E q \in tx[b].stored : q.username = v
                              \/ \E i \in DOMAIN todo : todo[i].username = v
    BY <1>2 DEF TxInv, TodoTrue
  <2>2. /\ 1 \in DOMAIN todo /\ p = todo[1]
        /\ \A i \in DOMAIN rest : i \in Nat /\ i + 1 \in DOMAIN todo /\ i + 1 # 1 /\ rest[i] = todo[i + 1]
        /\ \A i \in DOMAIN todo : i = 1 \/ (i - 1 \in DOMAIN rest /\ todo[i] = rest[i - 1])
    BY <1>a, <1>2, TailFacts DEF Current
  <2>3. tx'[b].todo = rest /\ tx'[b].stored = tx[b].stored \cup {p} /\ result' = result
    BY <1>1, <1>2
  <2> HIDE DEF p, todo, rest
  <2>4. \A i \in DOMAIN rest : Reported(b, rest[i]) /\ rest[i].username # p.username
    BY <2>1, <2>2
  <2>5. \A i, j \in DOMAIN rest : rest[i].username = rest[j].username => i = j
    <3> TAKE i, j \in DOMAIN rest
    <3>1. rest[i].username = rest[j].username => i + 1 = j + 1
      BY <2>1, <2>2
    <3> QED  BY <2>2, <3>1
  <2>6. \A q \in tx[b].stored \cup {p} :
          Reported(b, q) /\ \A i \in DOMAIN rest : rest[i].username # q.username
    BY <2>1, <2>2, <2>4
  <2>7. \A v \in Told(b) : \/ \E q \in tx[b].stored \cup {p} : q.username = v
                           \/ \E i \in DOMAIN rest : rest[i].username = v
    BY <2>1, <2>2
  <2> QED  BY <2>3, <2>4, <2>5, <2>6, <2>7 DEF TodoTrue, Reported, Told
<1> QED  BY <1>1, <1>3, <1>5, <1>6 DEF TxInv

\* The transaction is over, one way or the other.
LEMMA EndedTx ==
  ASSUME NEW b \in Batch, tx'[b] = NoTx, pc'[b] # "persist"
  PROVE  TxInv(b)'
<1>1. TxShape(b)'
  BY DEF TxShape, AtWork, NoTx
<1>2. Present(b)'
  BY Names DEF Present, AtWork, NoTx, NoWrites
<1>3. TodoTrue(b)'
  BY DEF TodoTrue
<1> QED  BY <1>1, <1>2, <1>3 DEF TxInv

-----------------------------------------------------------------------------
\* The types and the counters

LEMMA AnalysedSound ==
  ASSUME BasicTypes, NEW b \in Batch, Sound(b), Analysed(b)
  PROVE  BasicTypes' /\ Sound(b)'
<1>1. /\ pc[b] = "analysis" /\ pc'[b] \in {"persist", "done"}
      /\ pc' \in [Batch -> Stage]
      /\ UNCHANGED <<worldVars, tried, queue, pages, closing, order, result, counters, error, doubled>>
  BY DEF Analysed, Goto, BasicTypes, Stage
<1>2. BasicTypes'
  BY <1>1 DEF BasicTypes, worldVars
<1>3. Shape(b)' /\ FewPages(b)'
  BY <1>1 DEF Sound, Shape, FewPages
<1>4. Counted(b)'
  BY <1>1 DEF Sound, Counted
<1> QED  BY <1>2, <1>3, <1>4 DEF Sound

LEMMA FindsSound ==
  ASSUME StoreTypeOK, BasicTypes, NEW b \in Batch, Sound(b), TxInv(b), PersistFinds(b)
  PROVE  BasicTypes' /\ Sound(b)'
<1> DEFINE u == Current(b).username
<1>1. tx[b].step = "find" /\ tx[b].todo # <<>> /\ pc[b] = "persist"
  BY FindStep DEF PersistFinds, TxInv, TxShape
<1>2. /\ UNCHANGED <<worldVars, pc, tried, queue, pages, closing, order, counters, doubled>>
      /\ \/ result' = result /\ error' = error
         \/ result' = [result EXCEPT ![b][u].status = "failed"] /\ error' = error \cup {b}
  BY DEF PersistFinds
<1>3. CASE result' = result /\ error' = error
  <2>1. BasicTypes'
    BY <1>2, <1>3 DEF BasicTypes, worldVars
  <2>2. Still(b)
    BY <1>2, <1>3 DEF Still
  <2> QED  BY <2>1, <2>2, StillSound
<1>4. CASE result' = [result EXCEPT ![b][u].status = "failed"] /\ error' = error \cup {b}
  <2>1. u \in Username /\ result[b][u].status = "success"
    <3>1. tx[b].todo \in Seq(Profile) /\ u \in Username
      BY <1>1, TxFields, CurrentFacts
    <3>2. 1 \in DOMAIN tx[b].todo /\ Current(b) = tx[b].todo[1]
      BY <1>1, <3>1, TailFacts DEF Current
    <3>3. Reported(b, Current(b))
      BY <1>1, <3>2 DEF TxInv, TodoTrue
    <3> QED  BY <3>1, <3>3 DEF Reported, Success
  <2> HIDE DEF u
  <2>2. result' \in [Batch -> [Username -> Result]]
    <3>1. result \in [Batch -> [Username -> Result]] /\ result[b][u] \in Result
      BY <2>1 DEF BasicTypes
    <3>2. [result[b][u] EXCEPT !.status = "failed"] \in Result
      BY <3>1 DEF Result
    <3> QED  BY <1>4, <2>1, <3>1, <3>2
  <2>3. \A v \in Username : /\ result[b][v].status # "none" <=> result'[b][v].status # "none"
                            /\ Real(result[b][v]) => Real(result'[b][v])
    <3>1. result \in [Batch -> [Username -> Result]]
      BY DEF BasicTypes
    <3>2. \A v \in Username : v # u => result'[b][v] = result[b][v]
      BY <1>4, <2>1, <3>1
    <3>3. result'[b][u] = [result[b][u] EXCEPT !.status = "failed"] /\ result[b][u] \in Result
      BY <1>4, <2>1, <3>1
    <3>4. result'[b][u].status = "failed"
      BY <3>3 DEF Result
    <3>5. Real(result'[b][u])
      BY <3>4 DEF Real
    <3> QED  BY <2>1, <3>2, <3>4, <3>5
  <2>4. BasicTypes'
    BY <1>2, <1>4, <2>2 DEF BasicTypes, worldVars
  <2>5. Shape(b)'
    BY <1>2, <2>3 DEF Sound, Shape
  <2>6. Counted(b)'
    BY <1>1, <1>2, <1>4 DEF Counted
  <2>7. FewPages(b)'
    BY <1>2 DEF Sound, FewPages
  <2> QED  BY <2>4, <2>5, <2>6, <2>7 DEF Sound
<1> QED  BY <1>2, <1>3, <1>4

LEMMA PersistSound ==
  ASSUME BasicTypes, NEW b \in Batch, Sound(b), pc[b] = "persist",
         PersistWrites(b) \/ PersistFails(b) \/ PersistCommits(b)
  PROVE  BasicTypes' /\ Sound(b)'
<1>1. CASE PersistWrites(b)
  <2>1. BasicTypes'
    BY <1>1 DEF PersistWrites, batchVars, worldVars, BasicTypes
  <2>2. Still(b)
    BY <1>1 DEF PersistWrites, batchVars, Still
  <2> QED  BY <2>1, <2>2, StillSound
<1>2. CASE PersistFails(b)
  <2>1. BasicTypes'
    BY <1>2 DEF PersistFails, Goto, worldVars, BasicTypes, Stage
  <2>2. Shape(b)' /\ Counted(b)' /\ FewPages(b)'
    BY <1>2 DEF PersistFails, Goto, BasicTypes, Sound, Shape, Counted, FewPages
  <2> QED  BY <2>1, <2>2 DEF Sound
<1>3. CASE PersistCommits(b)
  <2>1. /\ pc' = [pc EXCEPT ![b] = "done"]
        /\ counters' = [counters EXCEPT ![b] = IF b \in error THEN CountersOf(result[b]) ELSE counters[b]]
        /\ UNCHANGED <<worldVars, tried, queue, pages, closing, order, result, error, doubled>>
    BY <1>3 DEF PersistCommits, Goto
  <2>2. CountersOf(result[b]) \in Counters
    <3>1. /\ order[b] \in Seq(Username) /\ result[b] \in [Username -> Result]
          /\ \A u \in Username : u \in ToSet(order[b]) <=> result[b][u].status # "none"
      BY DEF BasicTypes, Sound, Shape
    <3> QED  BY <3>1, TallyFacts
  <2>3. BasicTypes'
    BY <2>1, <2>2 DEF worldVars, BasicTypes, Stage
  <2>4. Shape(b)' /\ FewPages(b)'
    BY <2>1 DEF BasicTypes, Sound, Shape, FewPages
  <2>5. Counted(b)'
    BY <2>1 DEF BasicTypes, Sound, Counted
  <2> QED  BY <2>3, <2>4, <2>5 DEF Sound
<1> QED  BY <1>1, <1>2, <1>3

LEMMA SoundStep ==
  ASSUME StoreTypeOK, BasicTypes, NEW b \in Batch, Sound(b), TxInv(b), Execute(b)
  PROVE  BasicTypes' /\ Sound(b)'
<1>1. CASE Prepare(b)
  BY <1>1, PrepareSound
<1>2. CASE SessionReady(b) \/ NoBrowser(b) \/ NoSession(b) \/ LaunchFails(b)
           \/ \E c \in Credential : CredentialFails(b, c)
  BY <1>2, SessionSound
<1>3. CASE OpenPage(b)
  BY <1>3, OpenPageSound
<1>4. ASSUME NEW u \in Username,
             Scrape(b, u) \/ ScrapeFails(b, u) \/ ClosePage(b, u) \/ CloseFails(b, u)
      PROVE  BasicTypes' /\ Sound(b)'
  BY <1>4, PageSound
<1>5. CASE WorkersDone(b)
  BY <1>5, WorkersDoneSound
<1>6. CASE ApifyRun(b) \/ ApifyFails(b)
  BY <1>6, ApifySound
<1>7. CASE Analysed(b)
  BY <1>7, AnalysedSound
<1>8. CASE PersistFinds(b)
  BY <1>8, FindsSound
<1>9. CASE PersistWrites(b) \/ PersistFails(b) \/ PersistCommits(b)
  <2>1. tx[b].step # "none"
    BY <1>9, VictimWaits
       DEF PersistWrites, PersistFails, PersistCommits, Claim, Displace, LockRow, WriteName, FlushFails, Commit
  <2>2. pc[b] = "persist"
    BY <2>1 DEF TxInv, TxShape
  <2> QED  BY <1>9, <2>2, PersistSound
<1> QED  BY <1>1, <1>2, <1>3, <1>4, <1>5, <1>6, <1>7, <1>8, <1>9 DEF Execute

CountInv ==
  /\ StoreTypeOK /\ BasicTypes
  /\ \A b \in Batch : Sound(b) /\ TxInv(b)

LEMMA CountInit == Init => CountInv
<1> SUFFICES ASSUME Init PROVE CountInv
  OBVIOUS
<1>1. /\ row \in [Account -> Name] /\ fresh \in SUBSET {a \in Account : row[a] \in Username}
      /\ tx = [b \in Batch |-> NoTx] /\ overlapped = {}
  BY DEF Init, StoreInit, Tables
<1>2. NoTx \in Tx
  BY DEF NoTx, NoWrites, Tx, Name
<1>3. StoreTypeOK
  BY <1>1, <1>2, Names DEF StoreTypeOK
<1>4. NoResult \in Result /\ NoResult.status = "none" /\ Real(NoResult)
  BY ResultTypes
<1>5. BasicTypes
  BY <1>4, EmptyFacts, BatchAssumption DEF Init, BasicTypes, Stage, Counters
<1>6. ASSUME NEW b \in Batch
      PROVE  Sound(b) /\ TxInv(b)
  <2>1. /\ pc[b] = "new" /\ queue[b] = <<>> /\ order[b] = <<>> /\ pages[b] = {} /\ closing[b] = {}
        /\ result[b] = [u \in Username |-> NoResult] /\ tx[b] = NoTx
        /\ counters[b] = [successful |-> 0, failed |-> 0, not_found |-> 0]
    BY <1>1 DEF Init
  <2>2. Shape(b)
    BY <1>4, <2>1, EmptyFacts, FS_EmptySet DEF Shape
  <2>3. Counted(b)
    <3>1. \A status \in {"success", "failed", "not_found"} :
            {u \in Username : result[b][u].status = status} = {}
      BY <1>4, <2>1
    <3>2. \A status \in {"success", "failed", "not_found"} : Tally(result[b], status) = 0
      BY <3>1, FS_EmptySet DEF Tally
    <3> QED  BY <2>1, <3>2 DEF Counted, CountersOf
  <2>4. FewPages(b)
    <3>1. pages[b] \cup closing[b] = {}
      BY <2>1
    <3>2. Cardinality(pages[b] \cup closing[b]) = 0
      BY <3>1, FS_EmptySet
    <3> QED  BY <3>2, BatchAssumption DEF FewPages
  <2>5. TxShape(b)
    BY <2>1 DEF TxShape, AtWork, NoTx
  <2>6. Present(b)
    BY <2>1, Names DEF Present, AtWork, NoTx, NoWrites
  <2>7. TodoTrue(b)
    BY <2>1 DEF TodoTrue
  <2> QED  BY <2>2, <2>3, <2>4, <2>5, <2>6, <2>7 DEF Sound, TxInv
<1> QED  BY <1>3, <1>5, <1>6 DEF CountInv

LEMMA CountStep == CountInv /\ [Next]_vars => CountInv'
<1> SUFFICES ASSUME CountInv, [Next]_vars PROVE CountInv'
  OBVIOUS
<1>0. StoreTypeOK /\ BasicTypes /\ \A b \in Batch : Sound(b) /\ TxInv(b)
  BY DEF CountInv
<1>1. ASSUME NEW b \in Batch, Execute(b)
      PROVE  CountInv'
  <2>1. /\ BasicTypes' /\ Sound(b)' /\ StoreTypeOK' /\ TxInv(b)'
        /\ \A c \in Batch : c # b => tx'[c] = tx[c]
        /\ \A a \in Account : row[a] # Absent => row'[a] # Absent
    <3>1. CASE Early(b)
      <4>1. BasicTypes' /\ Sound(b)'
        BY <1>0, <1>1, SoundStep
      <4>2. row' = row /\ fresh' = fresh /\ tx' = tx /\ overlapped' = overlapped
        BY <3>1 DEF Early, storeVars
      <4>3. StoreTypeOK'
        BY <1>0, <4>2 DEF StoreTypeOK
      <4>4. TxInv(b)'
        BY <1>0, <3>1, EarlyTx
      <4> QED  BY <4>1, <4>2, <4>3, <4>4
    <3>2. CASE Analysed(b) /\ b \notin error
      <4>1. BeginPersist(b, Profiles(b)) /\ Profiles(b) \in Seq(Profile)
        BY <1>0, <3>2, ProfilesFacts DEF Analysed
      <4>2. row' = row /\ \A c \in Batch : c # b => tx'[c] = tx[c]
        BY <1>0, <4>1, BeginStep
      <4> QED  BY <1>0, <3>2, <4>2, AnalysedSound, AnalysedTx
    <3>3. CASE PersistFinds(b)
      <4>1. row' = row /\ \A c \in Batch : c # b => tx'[c] = tx[c]
        BY <1>0, <3>3, FindStep DEF PersistFinds
      <4> QED  BY <1>0, <3>3, <4>1, FindsSound, FindsTx
    <3>4. CASE PersistWrites(b)
      <4>1. /\ tx[b].step \in {"claim", "displace", "lock", "write"} /\ pc[b] = "persist" /\ tx[b].todo # <<>>
            /\ UNCHANGED batchVars
        BY <1>0, <3>4 DEF PersistWrites, Claim, Displace, LockRow, WriteName, TxInv, TxShape, AtWork
      <4>2. StoreTypeOK' /\ TxInv(b)'
        BY <1>0, <3>4, <4>1, ClaimTx, DisplaceTx, LockTx, WriteTx DEF PersistWrites
      <4>3. row' = row /\ \A c \in Batch : c # b => tx'[c] = tx[c]
        BY <1>0, <3>4, <4>1, ClaimStep, DisplaceStep, LockStep, WriteStep DEF PersistWrites
      <4>4. BasicTypes' /\ Sound(b)'
        BY <1>0, <1>1, SoundStep
      <4> QED  BY <4>2, <4>3, <4>4
    <3>5. CASE PersistFails(b)
      <4>1. FlushFails(b) /\ pc'[b] = "raised" /\ pc[b] = "persist"
        <5>1. FlushFails(b) /\ pc'[b] = "raised"
          BY <1>0, <3>5 DEF PersistFails, Goto, BasicTypes
        <5>2. tx[b].step # "none"
          BY <5>1, VictimWaits DEF FlushFails
        <5> QED  BY <1>0, <5>1, <5>2 DEF TxInv, TxShape
      <4>2. StoreTypeOK' /\ row' = row /\ tx'[b] = NoTx /\ \A c \in Batch : c # b => tx'[c] = tx[c]
        BY <1>0, <4>1, FailStep
      <4> QED  BY <1>0, <3>5, <4>1, <4>2, PersistSound, EndedTx
    <3>6. CASE PersistCommits(b)
      <4>1. Commit(b) /\ pc'[b] = "done" /\ pc[b] = "persist"
        BY <1>0, <3>6 DEF PersistCommits, Commit, Goto, BasicTypes, TxInv, TxShape
      <4>2. /\ StoreTypeOK' /\ tx'[b] = NoTx /\ \A c \in Batch : c # b => tx'[c] = tx[c]
            /\ \A a \in Account : row[a] # Absent => row'[a] # Absent
        BY <1>0, <4>1, CommitStep DEF TxInv
      <4> QED  BY <1>0, <3>6, <4>1, <4>2, PersistSound, EndedTx
    <3> QED  BY <1>0, <1>1, <3>1, <3>2, <3>3, <3>4, <3>5, <3>6, Steps
  <2>2. ASSUME NEW c \in Batch, c # b
        PROVE  Sound(c)' /\ TxInv(c)'
    <3>1. Still(c) /\ tx'[c] = tx[c]
      BY <1>0, <1>1, <2>1, <2>2, OthersStill
    <3> QED  BY <1>0, <2>1, <3>1, StillSound, RestingTx
  <2> QED  BY <2>1, <2>2 DEF CountInv
<1>2. CASE Rename \/ UNCHANGED vars
  <2>1. /\ UNCHANGED <<storeVars, batchVars>> /\ holder' \in Holders
        /\ renames' \in 0..MaxRenames /\ faults' = faults
    BY <1>0, <1>2, BatchAssumption DEF Rename, vars, worldVars, BasicTypes
  <2>2. StoreTypeOK'
    BY <1>0, <2>1 DEF storeVars, StoreTypeOK
  <2>3. BasicTypes'
    BY <1>0, <2>1 DEF batchVars, BasicTypes
  <2>4. ASSUME NEW b \in Batch
        PROVE  Sound(b)' /\ TxInv(b)'
    <3>1. Still(b) /\ tx'[b] = tx[b] /\ row' = row
      BY <2>1 DEF Still, batchVars, storeVars
    <3> QED  BY <1>0, <3>1, StillSound, RestingTx
  <2> QED  BY <2>2, <2>3, <2>4 DEF CountInv
<1> QED  BY <1>1, <1>2 DEF Next

(* Whatever batches run side by side, the counters of a finished batch, by which
   its owner is charged, are those of the results it reports. *)
THEOREM CountersCorrect == Spec => []CounterInv
<1>1. CountInv => CounterInv
  <2> SUFFICES ASSUME CountInv PROVE CounterInv
    OBVIOUS
  <2>1. StoreTypeOK /\ BasicTypes /\ \A b \in Batch : Sound(b)
    BY DEF CountInv
  <2>2. \A b \in Batch : Cardinality(pages[b] \cup closing[b]) <= MaxConcurrent
    BY <2>1 DEF Sound, FewPages
  <2>3. TypeOK
    BY <2>1, <2>2 DEF BasicTypes, TypeOK
  <2>4. CountersAgree
    BY <2>1 DEF CountersAgree, Sound, Shape, Counted, Scraped
  <2> QED  BY <2>3, <2>4 DEF CounterInv
<1> QED  BY CountInit, CountStep, <1>1, PTL DEF Spec

-----------------------------------------------------------------------------
\* A transaction that is alone

LEMMA BeginAlone ==
  ASSUME NEW b \in Batch, tx'[b].step = "find", tx'[b].writes = NoWrites, tx'[b].stored = {}
  PROVE  WritesTrue(b)' /\ Alone(b)'
<1>1. \A a \in Account : tx'[b].writes[a] = Untouched
  BY DEF NoWrites
<1> QED  BY <1>1, Names DEF WritesTrue, Alone, AtWork

LEMMA FindAlone ==
  ASSUME StoreTypeOK, NEW b \in Batch, WritesTrue(b), Find(b)
  PROVE  WritesTrue(b)' /\ (Alone(b) => Alone(b)')
<1>1. /\ UNCHANGED <<row, fresh, overlapped>>
      /\ tx[b].step = "find" /\ tx[b].todo # <<>>
      /\ tx'[b].writes = tx[b].writes /\ tx'[b].stored = tx[b].stored
      /\ Current(b).complete =>
           tx'[b].step = "claim" /\ tx'[b].name = View(b)[Current(b).account]
           /\ tx'[b].todo = tx[b].todo
      /\ ~Current(b).complete => tx'[b].step = "find"
  BY FindStep
<1>2. View(b)' = View(b)
  BY <1>1 DEF View
<1>3. tx'[b].step \in {"find", "claim"} /\ (AtWork(b)' => tx'[b].step = "claim")
  BY <1>1, CurrentFacts DEF AtWork
<1>4. tx'[b].step = "claim" => tx'[b].name = View(b)'[Current(b)'.account]
  BY <1>1, <1>2, <1>3 DEF Current
<1>5. WritesTrue(b)'
  BY <1>1 DEF WritesTrue
<1>6. ASSUME Alone(b)
      PROVE  Alone(b)'
  <2>1. \A p \in tx'[b].stored :
          \E q \in tx'[b].stored : q.account = p.account /\ View(b)'[p.account] = q.username
    BY <1>1, <1>2, <1>6 DEF Alone
  <2>2. \A a \in Account : tx'[b].writes[a] = Stale /\ row'[a] # Stale =>
          \E p \in tx'[b].stored : row'[a] = p.username
    BY <1>1, <1>6 DEF Alone
  <2> QED  BY <1>3, <1>4, <2>1, <2>2 DEF Alone
<1> QED  BY <1>5, <1>6

\* The names of what is stored and of what is left to do are not the current one.
LEMMA OtherNames ==
  ASSUME StoreTypeOK, NEW b \in Batch, TxInv(b), AtWork(b)
  PROVE  /\ tx[b].todo # <<>> /\ \A p \in tx[b].stored : p.username # Current(b).username
         /\ Current(b).username \in Username /\ Current(b).account \in Account
<1>1. tx[b].todo # <<>> /\ tx[b].todo \in Seq(Profile) /\ pc[b] = "persist"
  BY TxFields DEF TxInv, TxShape, AtWork
<1>2. 1 \in DOMAIN tx[b].todo /\ Current(b) = tx[b].todo[1]
  BY <1>1, TailFacts DEF Current
<1> QED  BY <1>1, <1>2, CurrentFacts DEF TxInv, TodoTrue

LEMMA ClaimAlone ==
  ASSUME StoreTypeOK, NEW b \in Batch, TxInv(b), WritesTrue(b), Claim(b)
  PROVE  WritesTrue(b)' /\ (Alone(b) => Alone(b)')
<1>1. /\ UNCHANGED <<row, fresh, overlapped>>
      /\ tx[b].step = "claim" /\ tx'[b].owner = Displaced(b)
      /\ tx'[b].step = IF Displaced(b) = {} THEN "lock" ELSE "displace"
      /\ tx'[b].writes = tx[b].writes /\ tx'[b].stored = tx[b].stored
      /\ tx'[b].todo = tx[b].todo /\ tx'[b].name = tx[b].name
  BY ClaimStep
<1>2. /\ Current(b)' = Current(b) /\ View(b)' = View(b)
      /\ AtWork(b)
  BY <1>1 DEF Current, View, AtWork
<1>3. Displaced(b)' = Displaced(b)
  BY <1>2 DEF Displaced, OwnersOf
<1>4. WritesTrue(b)'
  BY <1>1 DEF WritesTrue
<1> HIDE DEF Displaced
<1>5. ASSUME Alone(b)
      PROVE  Alone(b)'
  <2>1. /\ tx'[b].name = View(b)'[Current(b)'.account]
        /\ \A p \in tx'[b].stored :
             \E q \in tx'[b].stored : q.account = p.account /\ View(b)'[p.account] = q.username
        /\ \A a \in Account : tx'[b].writes[a] = Stale /\ row'[a] # Stale =>
             \E p \in tx'[b].stored : row'[a] = p.username
    BY <1>1, <1>2, <1>5 DEF Alone
  <2> QED  BY <1>1, <1>3, <2>1 DEF Alone
<1> QED  BY <1>4, <1>5

LEMMA DisplaceAlone ==
  ASSUME StoreTypeOK, NEW b \in Batch, TxInv(b), WritesTrue(b), Displace(b)
  PROVE  WritesTrue(b)' /\ (Alone(b) => Alone(b)')
<1> DEFINE p == Current(b)
<1>1. /\ UNCHANGED <<row, fresh, overlapped>>
      /\ tx[b].step = "displace" /\ tx'[b].step = "lock"
      /\ tx'[b].writes = [a \in Account |-> IF a \in tx[b].owner THEN Stale ELSE tx[b].writes[a]]
      /\ tx'[b].stored = tx[b].stored /\ tx'[b].todo = tx[b].todo /\ tx'[b].name = tx[b].name
  BY DisplaceStep
<1>2. AtWork(b) /\ Current(b)' = p
  BY <1>1 DEF AtWork, Current
<1>3. /\ \A q \in tx[b].stored : q.username # p.username
      /\ p.username \in Username /\ p.account \in Account
  BY <1>2, OtherNames
<1>4. \A a \in Account : a \in Displaced(b) <=> View(b)[a] = p.username /\ a # p.account
  BY DEF Displaced, OwnersOf
<1>5. \A a \in Account : View(b)'[a] = IF a \in tx[b].owner THEN Stale ELSE View(b)[a]
  BY <1>1, Names DEF View
<1> HIDE DEF p
<1>6. WritesTrue(b)'
  BY <1>1 DEF WritesTrue
<1>7. ASSUME Alone(b)
      PROVE  Alone(b)'
  <2>0. tx[b].owner = Displaced(b)
    BY <1>1, <1>7 DEF Alone
  <2>1. tx'[b].name = View(b)'[Current(b)'.account]
    <3>1. tx[b].name = View(b)[p.account]
      BY <1>2, <1>7 DEF Alone, p
    <3> QED  BY <1>1, <1>2, <1>3, <1>4, <1>5, <2>0, <3>1
  <2>2. Displaced(b)' = {}
    <3>1. \A a \in Account : View(b)'[a] = p.username => a = p.account
      BY <1>3, <1>4, <1>5, <2>0, Names
    <3> QED  BY <1>2, <3>1 DEF Displaced, OwnersOf
  <2>3. ASSUME NEW q \in tx[b].stored
        PROVE  \E r \in tx[b].stored : r.account = q.account /\ View(b)'[q.account] = r.username
    <3>1. PICK r \in tx[b].stored : r.account = q.account /\ View(b)[q.account] = r.username
      BY <1>7 DEF Alone
    <3>2. q.account \in Account /\ q.account \notin Displaced(b)
      <4>1. q.account \in Account
        BY TxFields DEF Profile
      <4> QED  BY <1>3, <1>4, <3>1, <4>1
    <3> QED  BY <1>5, <2>0, <3>1, <3>2
  <2>4. ASSUME NEW a \in Account, tx'[b].writes[a] = Stale, row[a] # Stale
        PROVE  (\E q \in tx[b].stored : row[a] = q.username) \/ row[a] = p.username
    <3>1. CASE a \notin Displaced(b)
      <4>1. tx[b].writes[a] = Stale
        BY <1>1, <2>0, <2>4, <3>1
      <4> QED  BY <1>1, <1>7, <2>4, <4>1 DEF Alone
    <3>2. CASE a \in Displaced(b) /\ tx[b].writes[a] = Untouched
      BY <1>4, <3>2 DEF View
    <3>3. CASE a \in Displaced(b) /\ tx[b].writes[a] # Untouched
      <4>1. tx[b].writes[a] = p.username
        BY <1>4, <3>3 DEF View
      <4>2. PICK q \in tx[b].stored : q.account = a
        BY <1>1, <1>3, <4>1, Names DEF WritesTrue
      <4>3. PICK r \in tx[b].stored : r.account = q.account /\ View(b)[q.account] = r.username
        BY <1>7 DEF Alone
      <4>4. r.username = p.username
        BY <1>4, <3>3, <4>2, <4>3
      <4> QED  BY <1>3, <4>4
    <3> QED  BY <3>1, <3>2, <3>3
  <2> QED  BY <1>1, <1>2, <2>1, <2>2, <2>3, <2>4 DEF Alone
<1> QED  BY <1>6, <1>7

LEMMA LockAlone ==
  ASSUME StoreTypeOK, NEW b \in Batch, TxInv(b), WritesTrue(b), LockRow(b), UNCHANGED batchVars
  PROVE  WritesTrue(b)' /\ (Alone(b) => Alone(b)')
<1> DEFINE p == Current(b)
<1>a. AtWork(b)
  BY DEF LockRow, AtWork
<1>1. tx[b].todo # <<>> /\ p.account \in Account /\ View(b)' = View(b)
  BY <1>a, OtherNames, LockTx
<1>2. /\ UNCHANGED <<row, fresh, overlapped>>
      /\ tx[b].step = "lock" /\ tx'[b].step = "write"
      /\ tx'[b].writes = [tx[b].writes EXCEPT ![p.account] = View(b)[p.account]]
      /\ tx'[b].stored = tx[b].stored /\ tx'[b].todo = tx[b].todo /\ tx'[b].name = tx[b].name
  BY <1>1, LockStep
<1>3. Current(b)' = p /\ tx[b].writes \in [Account -> Name \cup {Untouched}]
  BY <1>2, TxFields DEF Current
<1>4. Displaced(b)' = Displaced(b)
  BY <1>1, <1>3 DEF Displaced, OwnersOf
<1> HIDE DEF p
<1>5. WritesTrue(b)'
  BY <1>2, <1>3 DEF WritesTrue
<1>6. ASSUME Alone(b)
      PROVE  Alone(b)'
  <2>1. tx'[b].name = View(b)'[Current(b)'.account] /\ Displaced(b)' = {}
    BY <1>a, <1>1, <1>2, <1>3, <1>4, <1>6 DEF Alone, p
  <2>2. \A q \in tx'[b].stored :
          \E r \in tx'[b].stored : r.account = q.account /\ View(b)'[q.account] = r.username
    BY <1>1, <1>2, <1>6 DEF Alone
  <2>3. ASSUME NEW a \in Account, tx'[b].writes[a] = Stale, row[a] # Stale
        PROVE  (\E q \in tx[b].stored : row[a] = q.username) \/ row[a] = p.username
    <3>1. tx[b].writes[a] = Stale
      BY <1>1, <1>2, <1>3, <2>3 DEF View
    <3> QED  BY <1>2, <1>6, <2>3, <3>1 DEF Alone, p
  <2> QED  BY <1>2, <1>3, <2>1, <2>2, <2>3 DEF Alone
<1> QED  BY <1>5, <1>6

LEMMA WriteAlone ==
  ASSUME StoreTypeOK, NEW b \in Batch, TxInv(b), WritesTrue(b), WriteName(b)
  PROVE  WritesTrue(b)' /\ (Alone(b) => Alone(b)')
<1> DEFINE p == Current(b)
<1>a. AtWork(b)
  BY DEF WriteName, AtWork
<1>1. tx[b].todo # <<>> /\ p.account \in Account /\ p.username \in Username
  BY <1>a, OtherNames
<1>2. /\ UNCHANGED <<row, fresh, overlapped>>
      /\ tx[b].step = "write" /\ tx'[b].step = "find"
      /\ tx'[b].writes = [tx[b].writes EXCEPT ![p.account] = IF Renames(b) THEN p.username ELSE @]
      /\ tx'[b].stored = tx[b].stored \cup {p}
  BY <1>1, WriteStep
<1>3. /\ tx[b].writes \in [Account -> Name \cup {Untouched}]
      /\ \A q \in tx[b].stored : q.account \in Account
      /\ Renames(b) <=> tx[b].name # p.username
  BY TxFields DEF Profile, Renames
<1>4. tx[b].name = View(b)[p.account] \/ ~Alone(b)
  BY <1>a DEF Alone
<1>5. tx[b].step = "write" => \A a \in Account : a # p.account =>
        tx[b].writes[a] \in {Untouched, Stale} \/ \E q \in tx[b].stored : q.account = a
  BY DEF WritesTrue
<1>6. Alone(b) =>
        /\ \A q \in tx[b].stored :
             \E r \in tx[b].stored : r.account = q.account /\ View(b)[q.account] = r.username
        /\ \A a \in Account : tx[b].writes[a] = Stale /\ row[a] # Stale =>
             (\E q \in tx[b].stored : row[a] = q.username) \/ row[a] = p.username
  BY DEF Alone
<1> HIDE DEF p
<1>7. WritesTrue(b)'
  BY <1>2, <1>3, <1>5 DEF WritesTrue
<1>8. ASSUME Alone(b)
      PROVE  Alone(b)'
  <2>1. View(b)'[p.account] = p.username
    <3>1. CASE Renames(b)
      BY <1>1, <1>2, <1>3, <3>1, Names DEF View
    <3>2. CASE ~Renames(b)
      <4>1. tx'[b].writes = tx[b].writes
        BY <1>2, <1>3, <3>2
      <4> QED  BY <1>1, <1>2, <1>3, <1>4, <1>8, <3>2, <4>1 DEF View
    <3> QED  BY <3>1, <3>2
  <2>2. \A a \in Account : a # p.account => View(b)'[a] = View(b)[a]
    BY <1>2, <1>3 DEF View
  <2>3. \A q \in tx'[b].stored :
          \E r \in tx'[b].stored : r.account = q.account /\ View(b)'[q.account] = r.username
    <3> TAKE q \in tx'[b].stored
    <3>1. CASE q.account = p.account
      BY <1>2, <2>1, <3>1
    <3>2. CASE q.account # p.account
      BY <1>2, <1>3, <1>6, <1>8, <2>2, <3>2
    <3> QED  BY <3>1, <3>2
  <2>4. ASSUME NEW a \in Account, tx'[b].writes[a] = Stale, row'[a] # Stale
        PROVE  \E q \in tx'[b].stored : row'[a] = q.username
    <3>1. a # p.account
      <4>1. View(b)'[a] = Stale
        BY <2>4, Names DEF View
      <4> QED  BY <1>1, <2>1, <4>1, Names
    <3>2. tx[b].writes[a] = Stale /\ row[a] # Stale
      BY <1>2, <1>3, <2>4, <3>1
    <3> QED  BY <1>2, <1>6, <1>8, <3>2
  <2> QED  BY <1>2, <2>3, <2>4 DEF Alone, AtWork
<1> QED  BY <1>7, <1>8

StoreInv ==
  /\ CountInv
  /\ \A b \in Batch : WritesTrue(b)
  /\ AloneInv

LEMMA StoreInvInit == Init => StoreInv
<1> SUFFICES ASSUME Init PROVE StoreInv
  OBVIOUS
<1>1. tx = [b \in Batch |-> NoTx]
  BY DEF Init, StoreInit
<1>2. Open = {} /\ \A b \in Batch : WritesTrue(b)
  BY <1>1 DEF Open, WritesTrue, NoTx, NoWrites
<1>3. AloneInv
  BY <1>2 DEF AloneInv, Together
<1> QED  BY <1>2, <1>3, CountInit DEF StoreInv

\* What a step of a batch does to its own transaction, and to who is noted as not alone.
LEMMA OwnStep ==
  ASSUME StoreInv, NEW b \in Batch, Execute(b)
  PROVE  /\ \A c \in Batch : c # b => tx'[c] = tx[c]
         /\ WritesTrue(b)' /\ overlapped \subseteq overlapped'
         /\ b \in Open' /\ b \notin overlapped' => Alone(b)'
         /\ Early(b) \/ b \in Open \/ Open \ {b} \subseteq overlapped'
         /\ b \in Open' /\ b \notin Open => Open = {} \/ Open \cup {b} \subseteq overlapped'
<1>0. StoreTypeOK /\ BasicTypes /\ Sound(b) /\ TxInv(b) /\ WritesTrue(b)
  BY DEF StoreInv, CountInv
<1>1. b \in Open /\ b \notin overlapped => Alone(b)
  BY DEF StoreInv, AloneInv
<1>2. \A c \in Batch : c \in Open <=> tx[c].step # "none"
  BY DEF Open
<1>3. b \in Open' <=> tx'[b].step # "none"
  BY DEF Open
<1>4. CASE Early(b)
  <2>1. tx' = tx /\ row' = row /\ overlapped' = overlapped /\ tx[b].step = "none"
    BY <1>0, <1>4 DEF Early, storeVars, TxInv, TxShape
  <2>2. WritesTrue(b)'
    BY <1>0, <2>1 DEF WritesTrue, Current
  <2> QED  BY <1>2, <1>3, <1>4, <2>1, <2>2
<1>5. CASE Analysed(b) /\ b \notin error
  <2>1. BeginPersist(b, Profiles(b)) /\ Profiles(b) \in Seq(Profile) /\ pc[b] = "analysis"
    BY <1>0, <1>5, ProfilesFacts DEF Analysed
  <2>2. /\ \A c \in Batch : c # b => tx'[c] = tx[c]
        /\ tx'[b].step = "find" /\ tx'[b].writes = NoWrites /\ tx'[b].stored = {}
        /\ overlapped' = IF Open = {} THEN overlapped ELSE overlapped \cup Open \cup {b}
    BY <1>0, <2>1, BeginStep
  <2>3. WritesTrue(b)' /\ Alone(b)'
    BY <2>2, BeginAlone
  <2> QED  BY <2>2, <2>3
<1>6. CASE PersistFinds(b)
  <2>1. /\ overlapped' = overlapped /\ \A c \in Batch : c # b => tx'[c] = tx[c]
        /\ tx[b].step = "find"
    BY <1>0, <1>6, FindStep DEF PersistFinds
  <2>2. WritesTrue(b)' /\ (Alone(b) => Alone(b)')
    BY <1>0, <1>6, FindAlone DEF PersistFinds
  <2> QED  BY <1>1, <1>2, <2>1, <2>2
<1>7. CASE PersistWrites(b)
  <2>1. AtWork(b) /\ UNCHANGED batchVars /\ (Claim(b) \/ Displace(b) \/ LockRow(b) \/ WriteName(b))
    BY <1>7 DEF PersistWrites, Claim, Displace, LockRow, WriteName, AtWork
  <2>2. tx[b].todo # <<>> /\ b \in Open
    BY <1>0, <1>2, <2>1 DEF TxInv, TxShape, AtWork
  <2>3. overlapped' = overlapped /\ \A c \in Batch : c # b => tx'[c] = tx[c]
    BY <1>0, <2>1, <2>2, ClaimStep, DisplaceStep, LockStep, WriteStep
  <2>4. WritesTrue(b)' /\ (Alone(b) => Alone(b)')
    BY <1>0, <2>1, ClaimAlone, DisplaceAlone, LockAlone, WriteAlone
  <2> QED  BY <1>1, <2>2, <2>3, <2>4
<1>8. CASE PersistFails(b) \/ PersistCommits(b)
  <2>1. /\ overlapped' = overlapped /\ tx'[b] = NoTx
        /\ \A c \in Batch : c # b => tx'[c] = tx[c]
    BY <1>0, <1>8, FailStep, CommitStep DEF PersistFails, PersistCommits, TxInv
  <2>2. tx[b].step # "none"
    BY <1>8, VictimWaits DEF PersistFails, PersistCommits, FlushFails, Commit
  <2>3. WritesTrue(b)' /\ tx'[b].step = "none"
    BY <2>1 DEF WritesTrue, NoTx, NoWrites
  <2> QED  BY <1>2, <1>3, <2>1, <2>2, <2>3
<1> QED  BY <1>0, <1>4, <1>5, <1>6, <1>7, <1>8, Steps

LEMMA StoreInvStep == StoreInv /\ [Next]_vars => StoreInv'
<1> SUFFICES ASSUME StoreInv, [Next]_vars PROVE StoreInv'
  OBVIOUS
<1>0. CountInv' /\ Together /\ \A b \in Batch : WritesTrue(b)
  BY CountStep DEF StoreInv, AloneInv
<1>1. ASSUME NEW b \in Batch, Execute(b)
      PROVE  StoreInv'
  <2>1. /\ \A c \in Batch : c # b => tx'[c] = tx[c]
        /\ WritesTrue(b)' /\ overlapped \subseteq overlapped'
        /\ b \in Open' /\ b \notin overlapped' => Alone(b)'
        /\ Early(b) \/ b \in Open \/ Open \ {b} \subseteq overlapped'
        /\ b \in Open' /\ b \notin Open => Open = {} \/ Open \cup {b} \subseteq overlapped'
    BY <1>1, OwnStep
  <2>2. \A c \in Batch : c # b => (c \in Open' <=> c \in Open)
    BY <2>1 DEF Open
  <2>3. Together'
    <3> SUFFICES ASSUME NEW c \in Open', NEW d \in Open', c # d
                 PROVE  c \in overlapped'
      BY DEF Together
    <3>1. c \in Batch /\ d \in Batch
      BY DEF Open
    <3>2. CASE c \in Open /\ d \in Open
      BY <1>0, <2>1, <3>2 DEF Together
    <3>3. CASE c = b /\ b \notin Open
      <4>1. d \in Open
        BY <2>2, <3>1, <3>3
      <4> QED  BY <2>1, <3>3, <4>1
    <3>4. CASE d = b /\ b \notin Open
      <4>1. c \in Open
        BY <2>2, <3>1, <3>4
      <4> QED  BY <2>1, <3>4, <4>1
    <3> QED  BY <2>2, <3>1, <3>2, <3>3, <3>4
  <2>4. ASSUME NEW c \in Open', c \notin overlapped'
        PROVE  Alone(c)'
    <3>1. c \in Batch
      BY DEF Open
    <3>2. CASE c = b
      BY <2>1, <2>4, <3>2
    <3>3. CASE c # b
      <4>1. c \in Open /\ c \notin overlapped /\ Alone(c)
        BY <2>1, <2>2, <2>4, <3>1, <3>3 DEF StoreInv, AloneInv
      <4>2. b \notin Open
        BY <1>0, <3>3, <4>1 DEF Together
      <4>3. Early(b)
        BY <2>1, <2>4, <3>3, <4>1, <4>2
      <4>4. tx' = tx /\ row' = row
        BY <4>3 DEF Early, storeVars
      <4>5. /\ View(c)' = View(c) /\ Current(c)' = Current(c) /\ (AtWork(c)' <=> AtWork(c))
            /\ Displaced(c)' = Displaced(c)
        BY <4>4 DEF AtWork, View, Current, Displaced, OwnersOf
      <4> QED  BY <4>1, <4>4, <4>5 DEF Alone
    <3> QED  BY <3>2, <3>3
  <2>5. ASSUME NEW c \in Batch, c # b
        PROVE  WritesTrue(c)'
    <3>1. WritesTrue(c) /\ tx'[c] = tx[c]
      BY <1>0, <2>1, <2>5
    <3> QED  BY <3>1 DEF WritesTrue, Current
  <2> QED  BY <1>0, <2>1, <2>3, <2>4, <2>5 DEF StoreInv, AloneInv
<1>2. CASE Rename \/ UNCHANGED vars
  <2>1. tx' = tx /\ row' = row /\ overlapped' = overlapped
    BY <1>2 DEF Rename, vars, storeVars
  <2>2. \A b \in Batch : WritesTrue(b)'
    BY <1>0, <2>1 DEF WritesTrue, Current
  <2>3. Open' = Open /\ Together'
    BY <1>0, <2>1 DEF Open, Together
  <2>4. \A b \in Open \ overlapped : Alone(b)'
    BY <2>1 DEF StoreInv, AloneInv, Alone, AtWork, View, Current, Displaced, OwnersOf
  <2> QED  BY <1>0, <2>1, <2>2, <2>3, <2>4 DEF StoreInv, AloneInv
<1> QED  BY <1>1, <1>2 DEF Next

\* The steps that end the persisting of a batch.
LEMMA EndSteps ==
  ASSUME StoreInv, [Next]_vars, NEW b \in Batch, pc[b] = "persist", pc'[b] # "persist"
  PROVE  /\ pc'[b] = "raised" => FlushFails(b)
         /\ pc'[b] = "done" => Commit(b) /\ result' = result
<1>0. BasicTypes /\ \A c \in Batch : Sound(c)
  BY DEF StoreInv, CountInv
<1>1. Execute(b)
  <2>1. ASSUME NEW c \in Batch, Execute(c)
        PROVE  c = b
    BY <1>0, <2>1, OthersStill DEF Still
  <2>2. ~(Rename \/ UNCHANGED vars)
    BY DEF Rename, vars, batchVars
  <2> QED  BY <2>1, <2>2 DEF Next
<1>2. ~Early(b) /\ ~Analysed(b) /\ ~PersistFinds(b) /\ ~PersistWrites(b)
  BY DEF Early, Analysed, PersistFinds, PersistWrites, batchVars
<1>3. PersistFails(b) \/ PersistCommits(b)
  BY <1>0, <1>1, <1>2, Steps
<1>4. PersistFails(b) => FlushFails(b) /\ pc'[b] = "raised"
  BY <1>0 DEF PersistFails, Goto, BasicTypes
<1>5. PersistCommits(b) => Commit(b) /\ result' = result /\ pc'[b] = "done"
  BY <1>0 DEF PersistCommits, Goto, BasicTypes
<1> QED  BY <1>3, <1>4, <1>5

(* Only another batch that is persisted at the same time makes a statement of a
   transaction fail: names that were passed on, in a ring too, do not. *)
THEOREM AloneSucceeds == Spec => AloneNeverFails
<1>1. ASSUME StoreInv, [Next]_vars, NEW b \in Batch, pc[b] = "persist", pc'[b] = "raised"
      PROVE  b \in overlapped
  <2>1. FlushFails(b)
    BY <1>1, EndSteps
  <2>2. TxInv(b) /\ StoreTypeOK
    BY <1>1 DEF StoreInv, CountInv
  <2>3. b \in Open
    BY <1>1, <2>2 DEF TxInv, TxShape, Open
  <2>4. SUFFICES ASSUME b \notin overlapped
                 PROVE  FALSE
    OBVIOUS
  <2>5. Alone(b)
    BY <1>1, <2>3, <2>4 DEF StoreInv, AloneInv
  <2>6. CASE tx[b].step = "lock" /\ IdTaken(b)
    <3>1. AtWork(b) /\ tx[b].name = Absent /\ row[Current(b).account] # Absent
      BY <2>6 DEF AtWork, IdTaken
    <3>2. View(b)[Current(b).account] = Absent /\ Current(b).account \in Account
      BY <2>2, <2>5, <3>1, OtherNames DEF Alone
    <3>3. tx[b].writes[Current(b).account] # Absent
      BY <2>2, <2>6, <3>2 DEF TxInv, Present
    <3> QED  BY <3>1, <3>2, <3>3 DEF View
  <2>7. CASE tx[b].step = "write" /\ NameTaken(b)
    BY <2>5, <2>7 DEF Alone, NameTaken
  <2>8. CASE WaitsFor(b) # {}
    BY <1>1, <2>3, <2>4, <2>8 DEF WaitsFor, StoreInv, AloneInv, Together
  <2> QED  BY <2>1, <2>6, <2>7, <2>8, VictimWaits DEF FlushFails
<1>2. StoreInv /\ [Next]_vars =>
        [\A b \in Batch : pc[b] = "persist" /\ pc'[b] = "raised" => b \in overlapped]_vars
  BY <1>1
<1> QED  BY StoreInvInit, StoreInvStep, <1>2, PTL DEF Spec, AloneNeverFails

(* What a commit stores are the accounts the batch reports as scraped, each under
   the username asked for when no other batch was persisted at the time. *)
THEOREM ReportsStored == Spec => ReportedIsStored
<1>1. ASSUME StoreInv, [Next]_vars, NEW b \in Batch, pc[b] = "persist", pc'[b] = "done"
      PROVE  StoresWhatItReports(b)
  <2> DEFINE told == Told(b)
             account(u) == result[b][u].account
             sent == tx[b].stored
  <2>1. Commit(b) /\ result' = result
    BY <1>1, EndSteps
  <2>2. TxInv(b) /\ StoreTypeOK /\ WritesTrue(b)
    BY <1>1 DEF StoreInv, CountInv
  <2>3. /\ row' = View(b) /\ tx[b].step = "find" /\ tx[b].todo = <<>>
        /\ fresh' = fresh \cup {p.account : p \in sent}
    BY <2>1, <2>2, CommitStep DEF TxInv
  <2>4. \A p \in sent : p.account \in Account /\ p.username \in Username
    BY <2>2, TxFields DEF Profile
  <2>5. \A p \in sent : p.username \in told /\ account(p.username) = p.account
    <3> TAKE p \in sent
    <3>1. result[b][p.username] = Success(p.account, p.complete) /\ p.username \in Username
      BY <1>1, <2>2, <2>4 DEF TxInv, TodoTrue, Reported
    <3>2. result[b][p.username].status = "success" /\ result[b][p.username].account = p.account
      BY <3>1 DEF Success
    <3> QED  BY <3>1, <3>2 DEF Told
  <2>6. \A u \in told : \E p \in sent : p.username = u
    BY <1>1, <2>2, <2>3 DEF TxInv, TodoTrue
  <2>7. \A p \in sent : p.account \in fresh' /\ row'[p.account] # Absent
    BY <2>2, <2>3 DEF TxInv, Present
  <2>8. b \in Open
    BY <1>1, <2>2 DEF TxInv, TxShape, Open
  <2>9. ASSUME NEW a \in Account, row'[a] # row[a]
        PROVE  a \in {account(u) : u \in told} \/ row'[a] = Stale
    <3>1. row'[a] = tx[b].writes[a] /\ tx[b].writes[a] # Untouched
      BY <2>3, <2>9 DEF View
    <3>2. CASE tx[b].writes[a] = Stale
      BY <3>1, <3>2
    <3>3. CASE tx[b].writes[a] # Stale
      <4>1. PICK p \in sent : p.account = a
        BY <2>2, <2>3, <3>1, <3>3 DEF WritesTrue
      <4> QED  BY <2>5, <4>1
    <3> QED  BY <3>2, <3>3
  <2>10. ASSUME b \notin overlapped
         PROVE  /\ \A u \in told :
                     \E v \in told : account(v) = account(u) /\ row'[account(u)] = v
                /\ \A a \in Account : row'[a] = Stale /\ row[a] # Stale => row[a] \in told
    <3>1. Alone(b)
      BY <1>1, <2>8, <2>10 DEF StoreInv, AloneInv
    <3>2. ASSUME NEW u \in told
          PROVE  \E v \in told : account(v) = account(u) /\ row'[account(u)] = v
      <4>1. PICK p \in sent : p.username = u
        BY <2>6
      <4>2. PICK q \in sent : q.account = p.account /\ View(b)[p.account] = q.username
        BY <3>1 DEF Alone
      <4>3. account(u) = p.account /\ account(q.username) = p.account /\ q.username \in told
        BY <2>5, <4>1, <4>2
      <4> QED  BY <2>3, <4>2, <4>3
    <3>3. ASSUME NEW a \in Account, row'[a] = Stale, row[a] # Stale
          PROVE  row[a] \in told
      <4>1. tx[b].writes[a] = Stale
        BY <2>3, <3>3 DEF View
      <4>2. PICK p \in sent : row[a] = p.username
        BY <2>3, <3>1, <3>3, <4>1 DEF Alone
      <4> QED  BY <2>5, <4>2
    <3> QED  BY <3>2, <3>3
  <2>11. Told(b)' = told /\ \A u \in told : result'[b][u].account = account(u)
    BY <2>1 DEF Told
  <2>12. \A u \in told : account(u) \in fresh' /\ row'[account(u)] # Absent
    BY <2>5, <2>6, <2>7
  <2> HIDE DEF told, sent
  <2> QED  BY <2>1, <2>9, <2>10, <2>11, <2>12 DEF StoresWhatItReports
<1>2. StoreInv /\ [Next]_vars =>
        [\A b \in Batch : pc[b] = "persist" /\ pc'[b] = "done" => StoresWhatItReports(b)]_vars
  BY <1>1
<1> QED  BY StoreInvInit, StoreInvStep, <1>2, PTL DEF Spec, ReportedIsStored

-----------------------------------------------------------------------------
\* Batches that go on: of transactions that wait one can be failed

\* The transactions b waits for, and those these wait for.
Reach(b) ==
  {c \in Open : \A waiting \in SUBSET Open :
     (\A d \in waiting \cup {b} : WaitsFor(d) \subseteq waiting) => c \in waiting}

LEMMA ReachFacts ==
  ASSUME NEW b \in Open
  PROVE  /\ WaitsFor(b) \subseteq Reach(b) /\ Reach(b) \subseteq Open
         /\ \A c \in Reach(b) : Reach(c) \subseteq Reach(b)
         /\ b \in Reach(b) => Deadlocked(b)
<1>1. WaitsFor(b) \subseteq Reach(b)
  <2>1. WaitsFor(b) \subseteq Open
    BY DEF WaitsFor
  <2> HIDE DEF Open
  <2> QED  BY <2>1 DEF Reach
<1>2. ASSUME NEW c \in Reach(b), NEW d \in Reach(c)
      PROVE  d \in Reach(b)
  <2>1. d \in Open
    BY DEF Reach
  <2>2. ASSUME NEW waiting \in SUBSET Open,
               \A e \in waiting \cup {b} : WaitsFor(e) \subseteq waiting
        PROVE  d \in waiting
    <3>1. c \in waiting
      BY <2>2 DEF Reach
    <3>2. \A e \in waiting \cup {c} : WaitsFor(e) \subseteq waiting
      BY <2>2, <3>1
    <3> QED  BY <3>2 DEF Reach
  <2> QED  BY <2>1, <2>2 DEF Reach
<1>3. b \in Reach(b) => Deadlocked(b)
  BY DEF Reach, Deadlocked
<1>4. Reach(b) \subseteq Open
  BY DEF Reach
<1> QED  BY <1>1, <1>2, <1>3, <1>4

\* Where everyone waits, the transaction from which the fewest can be reached is
\* in a ring: those it waits for reach no fewer.
LEMMA SomeVictim ==
  ASSUME Open # {}, \A b \in Open : WaitsFor(b) # {}
  PROVE  \E b \in Open : Deadlocked(b)
<1> SUFFICES ASSUME \A b \in Open : ~Deadlocked(b)
             PROVE  FALSE
  OBVIOUS
<1>1. ASSUME NEW b \in Open
      PROVE  IsFiniteSet(Reach(b)) /\ Cardinality(Reach(b)) \in Nat
  <2>1. Reach(b) \subseteq Batch /\ IsFiniteSet(Batch)
    BY ReachFacts, BatchAssumption DEF Open
  <2> QED  BY <2>1, FS_Subset, FS_CardinalityType
<1> DEFINE S == {Cardinality(Reach(b)) : b \in Open}
<1>2. PICK n \in S : \A k \in S : n <= k
  <2>1. S \subseteq Nat /\ S # {}
    BY <1>1
  <2> HIDE DEF S
  <2> QED  BY <2>1, Smallest
<1>3. PICK b \in Open : n = Cardinality(Reach(b))
  OBVIOUS
<1>4. PICK c \in WaitsFor(b) : TRUE
  OBVIOUS
<1>5. c \in Open /\ c \in Reach(b) /\ Reach(c) \subseteq Reach(b) /\ c \notin Reach(c)
  BY ReachFacts
<1>6. Cardinality(Reach(c)) <= Cardinality(Reach(b)) /\ Cardinality(Reach(c)) # Cardinality(Reach(b))
  BY <1>1, <1>5, FS_Subset
<1>7. Cardinality(Reach(b)) <= Cardinality(Reach(c))
  BY <1>2, <1>3, <1>5
<1>8. Cardinality(Reach(b)) \in Nat /\ Cardinality(Reach(c)) \in Nat
  BY <1>1, <1>5
<1> QED  BY <1>6, <1>7, <1>8

(* However many batches run side by side, the transactions they wait for never
   block all of them: while one is unfinished, one waits for nobody or is the
   victim of a deadlock. *)
THEOREM BatchesGoOn == Spec => []SomeoneMoves
<1>1. CountInv => SomeoneMoves
  <2> SUFFICES ASSUME CountInv, NEW b \in Batch, ~Ended(b)
               PROVE  \E c \in Batch : Moves(c)
    BY DEF SomeoneMoves
  <2>1. \A c \in Batch : c \in Open <=> pc[c] = "persist"
    BY DEF CountInv, TxInv, TxShape, Open
  <2>2. Open \subseteq Batch
    BY DEF Open
  <2>3. CASE pc[b] # "persist"
    BY <2>3 DEF Moves
  <2>4. CASE pc[b] = "persist"
    <3>1. PICK c \in Open : WaitsFor(c) = {} \/ Deadlocked(c)
      <4>1. Open # {}
        BY <2>1, <2>4
      <4> QED  BY <4>1, SomeVictim
    <3>2. Moves(c)
      BY <2>1, <2>2, <3>1 DEF Moves, Ended
    <3> QED  BY <2>2, <3>2
  <2> QED  BY <2>3, <2>4
<1> QED  BY CountInit, CountStep, <1>1, PTL DEF Spec

-----------------------------------------------------------------------------
\* Batches that end: every step leaves fewer to take

\* How many stages are before a batch, and how many steps at most within its stage:
\* credentials to try; three steps of a username's page; five statements of a profile.
StagesLeft(b) ==
  CASE pc[b] = "new" -> 5 [] pc[b] = "session" -> 4 [] pc[b] = "scrape" -> 3
    [] pc[b] = "analysis" -> 2 [] pc[b] = "persist" -> 1 [] OTHER -> 0

StatementsDone(b) ==
  CASE tx[b].step = "claim" -> 1 [] tx[b].step = "displace" -> 2
    [] tx[b].step = "lock" -> 3 [] tx[b].step = "write" -> 4 [] OTHER -> 0

StepsLeft(b) ==
  CASE pc[b] = "session" -> MaxLoginAttempts - Cardinality(tried[b])
    [] pc[b] = "scrape" ->
         3 * Len(queue[b]) + 2 * Cardinality(pages[b]) + Cardinality(closing[b])
    [] pc[b] = "persist" -> 5 * Len(tx[b].todo) - StatementsDone(b)
    [] OTHER -> 0

StepsCount == \A b \in Batch : StepsLeft(b) \in Nat

NearerItsEnd(b) ==
  \/ StagesLeft(b)' < StagesLeft(b)
  \/ StagesLeft(b)' = StagesLeft(b) /\ StepsLeft(b)' < StepsLeft(b)

(* Every step of a batch brings it nearer its end, whichever of its pages, logins
   and statements fail, and no step of another batch or of Instagram takes it
   further off: with SomeoneMoves, batches that are executed end. *)
AllEnd ==
  [][\A b \in Batch : IF Execute(b) THEN NearerItsEnd(b)
                      ELSE UNCHANGED <<StagesLeft(b), StepsLeft(b)>>]_vars

\* Credentials are tried once, and a batch that failed has closed its pages.
Limited(b) ==
  /\ IsFiniteSet(tried[b]) /\ Cardinality(tried[b]) <= MaxLoginAttempts
  /\ pc[b] = "raised" => pages[b] = {} /\ closing[b] = {}

EndInv == StoreInv /\ \A b \in Batch : Limited(b)

LEMMA LengthFacts ==
  ASSUME NEW S, NEW s \in Seq(S)
  PROVE  /\ Len(s) \in Nat
         /\ s # <<>> => Len(s) > 0 /\ Len(Tail(s)) = Len(s) - 1
<1>1. Len(s) \in Nat
  OBVIOUS
<1>2. ASSUME s # <<>>
      PROVE  Len(s) > 0 /\ Len(Tail(s)) = Len(s) - 1
  <2>1. Len(s) \in Nat /\ Len(s) # 0 /\ Len(Tail(s)) = Len(s) - 1
    BY <1>2, HeadTailProperties
  <2> QED  BY <2>1
<1> QED  BY <1>1, <1>2

LEMMA OneMoreElement ==
  ASSUME NEW S, IsFiniteSet(S), NEW x, x \notin S
  PROVE  /\ IsFiniteSet(S \cup {x}) /\ Cardinality(S) \in Nat
         /\ Cardinality(S \cup {x}) = Cardinality(S) + 1
  BY FS_AddElement, FS_CardinalityType

LEMMA OneElementLess ==
  ASSUME NEW S, IsFiniteSet(S), NEW x \in S
  PROVE  /\ IsFiniteSet(S \ {x}) /\ Cardinality(S) \in Nat /\ Cardinality(S) > 0
         /\ Cardinality(S \ {x}) = Cardinality(S) - 1
<1>1. IsFiniteSet(S \ {x}) /\ x \notin S \ {x} /\ (S \ {x}) \cup {x} = S
  BY FS_RemoveElement
<1> DEFINE T == S \ {x}
<1>2. IsFiniteSet(T) /\ x \notin T /\ T \cup {x} = S
  BY <1>1
<1> HIDE DEF T
<1>3. Cardinality(T) \in Nat /\ Cardinality(S) = Cardinality(T) + 1
  BY <1>2, OneMoreElement
<1> QED  BY <1>1, <1>3 DEF T

LEMMA StatementFacts ==
  ASSUME StoreTypeOK, NEW b \in Batch, TxInv(b)
  PROVE  /\ Len(tx[b].todo) \in Nat /\ StatementsDone(b) \in 0 .. 4
         /\ 5 * Len(tx[b].todo) - StatementsDone(b) \in Nat
<1>1. tx[b].todo \in Seq(Profile) /\ tx[b].step \in {"none", "find", "claim", "displace", "lock", "write"}
  BY TxFields
<1>2. Len(tx[b].todo) \in Nat /\ (tx[b].todo # <<>> => Len(tx[b].todo) > 0)
  BY <1>1, LengthFacts
<1>3. StatementsDone(b) \in 0 .. 4 /\ (StatementsDone(b) # 0 => AtWork(b))
  BY <1>1 DEF StatementsDone, AtWork
<1>4. AtWork(b) => tx[b].todo # <<>>
  BY DEF TxInv, TxShape
<1>5. \A n \in Nat, k \in 0 .. 4 : (k # 0 => n > 0) => 5 * n - k \in Nat
  OBVIOUS
<1> QED  BY <1>2, <1>3, <1>4, <1>5

LEMMA StepsCounted ==
  ASSUME StoreTypeOK, BasicTypes, NEW b \in Batch, Sound(b), TxInv(b), Limited(b)
  PROVE  StepsLeft(b) \in Nat
<1>1. Cardinality(tried[b]) \in Nat /\ MaxLoginAttempts - Cardinality(tried[b]) \in Nat
  BY FS_CardinalityType, BatchAssumption DEF Limited
<1>2. /\ Len(queue[b]) \in Nat /\ Cardinality(pages[b]) \in Nat
      /\ Cardinality(closing[b]) \in Nat
  BY FS_CardinalityType, LengthFacts DEF BasicTypes, Sound, Shape
<1>3. 3 * Len(queue[b]) + 2 * Cardinality(pages[b]) + Cardinality(closing[b]) \in Nat
  BY <1>2
<1>4. 5 * Len(tx[b].todo) - StatementsDone(b) \in Nat
  BY StatementFacts
<1> QED  BY <1>1, <1>3, <1>4 DEF StepsLeft

\* What a step of a batch on its way to the analysis leaves to do.
LEMMA EarlyNearer ==
  ASSUME BasicTypes, NEW b \in Batch, Sound(b), Limited(b),
         \/ Prepare(b) \/ SessionReady(b) \/ NoBrowser(b) \/ NoSession(b) \/ LaunchFails(b)
         \/ WorkersDone(b) \/ ApifyRun(b) \/ ApifyFails(b)
  PROVE  NearerItsEnd(b) /\ Limited(b)'
<1>1. /\ tried' = tried /\ pages' = pages /\ closing' = closing
      /\ \/ pc[b] = "new" /\ pc'[b] \in {"done", "scrape", "session"}
         \/ pc[b] = "session" /\ pc'[b] \in {"scrape", "analysis"}
         \/ pc[b] = "scrape" /\ pc'[b] = "analysis"
         \/ pc[b] = "scrape" /\ pc'[b] = "raised" /\ order[b] = <<>> /\ pages[b] = {}
  BY DEF Prepare, SessionReady, NoBrowser, NoSession, LaunchFails, WorkersDone, ApifyRun, ApifyFails,
         AllFail, Goto, BasicTypes
<1>2. NearerItsEnd(b)
  BY <1>1 DEF NearerItsEnd, StagesLeft
<1>3. order[b] = <<>> => closing[b] = {}
  BY EmptyFacts DEF Sound, Shape
<1>4. pc'[b] = "raised" => pages'[b] = {} /\ closing'[b] = {}
  BY <1>1, <1>3
<1> QED  BY <1>1, <1>2, <1>4 DEF Limited

LEMMA CredentialNearer ==
  ASSUME BasicTypes, NEW b \in Batch, Limited(b), NEW c \in Credential, CredentialFails(b, c)
  PROVE  NearerItsEnd(b) /\ Limited(b)'
<1>1. /\ pc[b] = "session" /\ Cardinality(tried[b]) < MaxLoginAttempts /\ c \notin tried[b]
      /\ tried'[b] = tried[b] \cup {c} /\ pc' = pc /\ pages' = pages /\ closing' = closing
  BY DEF CredentialFails, BasicTypes
<1>2. /\ IsFiniteSet(tried'[b]) /\ Cardinality(tried[b]) \in Nat
      /\ Cardinality(tried'[b]) = Cardinality(tried[b]) + 1
  BY <1>1, OneMoreElement DEF Limited
<1>3. MaxLoginAttempts \in Nat
  BY BatchAssumption
<1>4. Cardinality(tried'[b]) <= MaxLoginAttempts
  BY <1>1, <1>2, <1>3
<1>5. Limited(b)'
  BY <1>1, <1>2, <1>4 DEF Limited
<1>6. MaxLoginAttempts - Cardinality(tried'[b]) < MaxLoginAttempts - Cardinality(tried[b])
  BY <1>2, <1>3
<1>7. StepsLeft(b)' < StepsLeft(b) /\ StagesLeft(b)' = StagesLeft(b)
  BY <1>1, <1>6 DEF StepsLeft, StagesLeft
<1> QED  BY <1>5, <1>7 DEF NearerItsEnd

LEMMA PageNearer ==
  ASSUME BasicTypes, NEW b \in Batch, Sound(b), Limited(b),
         \/ OpenPage(b)
         \/ \E u \in Username : \/ Scrape(b, u) \/ ScrapeFails(b, u)
                                \/ ClosePage(b, u) \/ CloseFails(b, u)
  PROVE  NearerItsEnd(b) /\ Limited(b)'
<1> DEFINE q == Len(queue[b])
           p == Cardinality(pages[b])
           c == Cardinality(closing[b])
           left == 3 * q + 2 * p + c
           left1 == 3 * q' + 2 * p' + c'
<1>1. /\ queue[b] \in Seq(Username) /\ q \in Nat
      /\ IsFiniteSet(pages[b]) /\ p \in Nat /\ IsFiniteSet(closing[b]) /\ c \in Nat
  BY LengthFacts, FS_CardinalityType DEF BasicTypes, Sound, Shape
<1>2. CASE OpenPage(b)
  <2>1. /\ pc[b] = "scrape" /\ queue[b] # <<>> /\ pages'[b] = pages[b] \cup {Head(queue[b])}
        /\ queue'[b] = Tail(queue[b]) /\ closing' = closing /\ pc' = pc /\ tried' = tried
    BY <1>2 DEF OpenPage, BasicTypes
  <2>2. Head(queue[b]) \notin pages[b]
    BY <1>1, <2>1, ToSetTail DEF Sound, Shape
  <2>3. q' = q - 1 /\ p' = p + 1 /\ c' = c
    BY <1>1, <2>1, <2>2, LengthFacts, OneMoreElement
  <2>4. left1 < left
    <3>1. \A x, y, z \in Nat : 3 * (x - 1) + 2 * (y + 1) + z < 3 * x + 2 * y + z
      OBVIOUS
    <3> HIDE DEF q, p, c
    <3> QED  BY <1>1, <2>3, <3>1
  <2> QED  BY <2>1, <2>4 DEF NearerItsEnd, StagesLeft, StepsLeft, Limited
<1>3. ASSUME NEW u \in Username,
             Scrape(b, u) \/ ScrapeFails(b, u) \/ ClosePage(b, u) \/ CloseFails(b, u)
      PROVE  NearerItsEnd(b) /\ Limited(b)'
  <2>1. pc' = pc /\ tried' = tried /\ queue' = queue
    BY <1>3 DEF Scrape, ScrapeFails, ClosePage, CloseFails
  <2>2. pages[b] # {} \/ closing[b] # {}
    BY <1>3 DEF Scrape, ScrapeFails, ClosePage, CloseFails
  <2>3. pc[b] = "scrape"
    BY <2>2 DEF Sound, Shape, Limited, BasicTypes, Stage
  <2>4. left1 < left
    <3>1. CASE Scrape(b, u) \/ ScrapeFails(b, u)
      <4>1. /\ u \in pages[b] /\ pages'[b] = pages[b] \ {u}
            /\ closing'[b] = closing[b] \cup {u}
        BY <3>1 DEF Scrape, ScrapeFails, BasicTypes
      <4>2. u \notin closing[b]
        BY <4>1 DEF Sound, Shape
      <4>3. q' = q /\ p' = p - 1 /\ c' = c + 1 /\ p > 0
        BY <1>1, <2>1, <4>1, <4>2, OneMoreElement, OneElementLess
      <4> HIDE DEF q, p, c
      <4> QED  BY <1>1, <4>3
    <3>2. CASE ClosePage(b, u) \/ CloseFails(b, u)
      <4>1. u \in closing[b] /\ closing'[b] = closing[b] \ {u} /\ pages' = pages
        BY <3>2 DEF ClosePage, CloseFails, BasicTypes
      <4>2. q' = q /\ p' = p /\ c' = c - 1 /\ c > 0
        BY <1>1, <2>1, <4>1, OneElementLess
      <4> HIDE DEF q, p, c
      <4> QED  BY <1>1, <4>2
    <3> QED  BY <1>3, <3>1, <3>2
  <2> QED  BY <2>1, <2>3, <2>4 DEF NearerItsEnd, StagesLeft, StepsLeft, Limited
<1> QED  BY <1>2, <1>3

\* A statement, a profile that is given up, and the end of the transaction.
LEMMA PersistNearer ==
  ASSUME StoreTypeOK, BasicTypes, NEW b \in Batch, Sound(b), TxInv(b), Limited(b),
         Analysed(b) \/ PersistFinds(b) \/ PersistWrites(b) \/ PersistFails(b) \/ PersistCommits(b)
  PROVE  NearerItsEnd(b) /\ Limited(b)'
<1>1. /\ tx[b].step # "none" <=> pc[b] = "persist"
      /\ AtWork(b) => tx[b].todo # <<>>
      /\ pc[b] = "persist" => pages[b] = {} /\ closing[b] = {}
      /\ tx[b].todo \in Seq(Profile)
  BY TxFields DEF TxInv, TxShape, Sound, Shape
<1>2. CASE Analysed(b)
  <2>1. /\ pc[b] = "analysis" /\ pc'[b] \in {"done", "persist"}
        /\ tried' = tried /\ pages' = pages /\ closing' = closing
    BY <1>2 DEF Analysed, Goto, BasicTypes
  <2> QED  BY <2>1 DEF NearerItsEnd, StagesLeft, Limited
<1>3. CASE PersistFails(b) \/ PersistCommits(b)
  <2>1. tx[b].step # "none"
    BY <1>3, VictimWaits DEF PersistFails, PersistCommits, FlushFails, Commit
  <2>2. pc'[b] \in {"raised", "done"} /\ tried' = tried /\ pages' = pages /\ closing' = closing
    BY <1>3 DEF PersistFails, PersistCommits, Goto, BasicTypes
  <2> QED  BY <1>1, <2>1, <2>2 DEF NearerItsEnd, StagesLeft, Limited
<1> DEFINE n == Len(tx[b].todo)
           k == StatementsDone(b)
<1>4. n \in Nat /\ k \in 0 .. 4
  BY StatementFacts
<1>5. ASSUME pc[b] = "persist", pc' = pc, tried' = tried, pages' = pages, closing' = closing,
             \/ tx'[b].todo = tx[b].todo /\ StatementsDone(b)' \in k + 1 .. 4
             \/ tx'[b].todo = Tail(tx[b].todo) /\ tx[b].todo # <<>> /\ StatementsDone(b)' = 0
      PROVE  NearerItsEnd(b) /\ Limited(b)'
  <2>1. tx'[b].todo = Tail(tx[b].todo) /\ tx[b].todo # <<>> => Len(tx'[b].todo) = n - 1
    BY <1>1, LengthFacts
  <2>2. 5 * Len(tx'[b].todo) - StatementsDone(b)' < 5 * n - k
    <3> HIDE DEF k
    <3>1. CASE tx'[b].todo = tx[b].todo /\ StatementsDone(b)' \in k + 1 .. 4
      BY <1>4, <3>1
    <3>2. CASE tx'[b].todo = Tail(tx[b].todo) /\ tx[b].todo # <<>> /\ StatementsDone(b)' = 0
      <4>1. Len(tx'[b].todo) = n - 1
        BY <2>1, <3>2
      <4> HIDE DEF n
      <4> QED  BY <1>4, <3>2, <4>1
    <3> QED  BY <1>5, <3>1, <3>2
  <2>3. StepsLeft(b)' < StepsLeft(b) /\ StagesLeft(b)' = StagesLeft(b)
    BY <1>5, <2>2 DEF StepsLeft, StagesLeft
  <2> QED  BY <1>5, <2>3 DEF NearerItsEnd, Limited
<1>6. CASE PersistFinds(b)
  <2>1. /\ tx[b].step = "find" /\ tx[b].todo # <<>>
        /\ \/ tx'[b].step = "claim" /\ tx'[b].todo = tx[b].todo
           \/ tx'[b].step = "find" /\ tx'[b].todo = Tail(tx[b].todo)
    BY <1>6, FindStep DEF PersistFinds
  <2>2. pc' = pc /\ tried' = tried /\ pages' = pages /\ closing' = closing
    BY <1>6 DEF PersistFinds
  <2> QED  BY <1>1, <1>5, <2>1, <2>2 DEF StatementsDone
<1>7. CASE PersistWrites(b)
  <2>1. /\ Claim(b) \/ Displace(b) \/ LockRow(b) \/ WriteName(b)
        /\ pc' = pc /\ tried' = tried /\ pages' = pages /\ closing' = closing
    BY <1>7 DEF PersistWrites, batchVars
  <2>2. tx[b].todo # <<>> /\ pc[b] = "persist"
    BY <1>1, <2>1 DEF Claim, Displace, LockRow, WriteName, AtWork
  <2>3. \/ tx[b].step = "claim" /\ tx'[b].step \in {"displace", "lock"} /\ tx'[b].todo = tx[b].todo
        \/ tx[b].step = "displace" /\ tx'[b].step = "lock" /\ tx'[b].todo = tx[b].todo
        \/ tx[b].step = "lock" /\ tx'[b].step = "write" /\ tx'[b].todo = tx[b].todo
        \/ tx[b].step = "write" /\ tx'[b].step = "find" /\ tx'[b].todo = Tail(tx[b].todo)
    BY <2>1, <2>2, ClaimStep, DisplaceStep, LockStep, WriteStep
  <2> QED  BY <1>5, <2>1, <2>2, <2>3 DEF StatementsDone
<1> QED  BY <1>2, <1>3, <1>6, <1>7

LEMMA StepNearer ==
  ASSUME EndInv, NEW b \in Batch, Execute(b)
  PROVE  NearerItsEnd(b) /\ Limited(b)'
<1>0. StoreTypeOK /\ BasicTypes /\ Sound(b) /\ TxInv(b) /\ Limited(b)
  BY DEF EndInv, StoreInv, CountInv
<1>1. CASE Prepare(b) \/ SessionReady(b) \/ NoBrowser(b) \/ NoSession(b) \/ LaunchFails(b)
           \/ WorkersDone(b) \/ ApifyRun(b) \/ ApifyFails(b)
  BY <1>0, <1>1, EarlyNearer
<1>2. ASSUME NEW c \in Credential, CredentialFails(b, c)
      PROVE  NearerItsEnd(b) /\ Limited(b)'
  BY <1>0, <1>2, CredentialNearer
<1>3. CASE \/ OpenPage(b)
           \/ \E u \in Username : \/ Scrape(b, u) \/ ScrapeFails(b, u)
                                  \/ ClosePage(b, u) \/ CloseFails(b, u)
  BY <1>0, <1>3, PageNearer
<1>4. CASE Analysed(b) \/ PersistFinds(b) \/ PersistWrites(b) \/ PersistFails(b) \/ PersistCommits(b)
  BY <1>0, <1>4, PersistNearer
<1> QED  BY <1>1, <1>2, <1>3, <1>4 DEF Execute

\* The credentials of one batch are no other's.
LEMMA OthersTried ==
  ASSUME BasicTypes, NEW b \in Batch, Execute(b), NEW c \in Batch, c # b
  PROVE  tried'[c] = tried[c]
<1>1. ASSUME NEW k \in Credential, CredentialFails(b, k)
      PROVE  tried'[c] = tried[c]
  BY <1>1 DEF CredentialFails, BasicTypes
<1>2. ASSUME NEW u \in Username,
             Scrape(b, u) \/ ScrapeFails(b, u) \/ ClosePage(b, u) \/ CloseFails(b, u)
      PROVE  tried' = tried
  BY <1>2 DEF Scrape, ScrapeFails, ClosePage, CloseFails
<1>3. ASSUME \/ Prepare(b) \/ SessionReady(b) \/ NoBrowser(b) \/ NoSession(b) \/ LaunchFails(b)
             \/ OpenPage(b) \/ WorkersDone(b) \/ ApifyRun(b) \/ ApifyFails(b)
      PROVE  tried' = tried
  BY <1>3 DEF Prepare, SessionReady, NoBrowser, NoSession, LaunchFails, OpenPage, WorkersDone,
              ApifyRun, ApifyFails
<1>4. ASSUME Analysed(b) \/ PersistFinds(b) \/ PersistWrites(b) \/ PersistFails(b) \/ PersistCommits(b)
      PROVE  tried' = tried
  BY <1>4 DEF Analysed, PersistFinds, PersistWrites, PersistFails, PersistCommits, batchVars
<1> QED  BY <1>1, <1>2, <1>3, <1>4 DEF Execute

\* Who takes no step has as many left as before.
LEMMA OthersNoFurther ==
  ASSUME EndInv, [Next]_vars, NEW b \in Batch, ~Execute(b)
  PROVE  UNCHANGED <<StagesLeft(b), StepsLeft(b)>> /\ Limited(b)'
<1>0. BasicTypes /\ Limited(b) /\ \A c \in Batch : Sound(c)
  BY DEF EndInv, StoreInv, CountInv
<1>1. /\ pc'[b] = pc[b] /\ tried'[b] = tried[b] /\ queue'[b] = queue[b]
      /\ pages'[b] = pages[b] /\ closing'[b] = closing[b] /\ tx'[b] = tx[b]
  <2>1. ASSUME NEW c \in Batch, Execute(c)
        PROVE  Still(b) /\ tried'[b] = tried[b] /\ tx'[b] = tx[b]
    <3>1. c # b
      BY <2>1
    <3> QED  BY <1>0, <2>1, <3>1, OthersStill, OthersTried, OwnStep DEF EndInv
  <2>2. CASE Rename \/ UNCHANGED vars
    BY <2>2 DEF Rename, vars, storeVars, batchVars
  <2> QED  BY <2>1, <2>2 DEF Next, Still
<1>2. StagesLeft(b)' = StagesLeft(b)
  BY <1>1 DEF StagesLeft
<1>3. StatementsDone(b)' = StatementsDone(b)
  BY <1>1 DEF StatementsDone
<1>4. StepsLeft(b)' = StepsLeft(b)
  BY <1>1, <1>3 DEF StepsLeft
<1> QED  BY <1>0, <1>1, <1>2, <1>4 DEF Limited

LEMMA EndInvInit == Init => EndInv
<1> SUFFICES ASSUME Init PROVE EndInv
  OBVIOUS
<1>1. \A b \in Batch : tried[b] = {} /\ pc[b] = "new"
  BY DEF Init
<1>2. IsFiniteSet({}) /\ Cardinality({}) = 0 /\ MaxLoginAttempts \in Nat
  BY FS_EmptySet, BatchAssumption
<1>3. 0 <= MaxLoginAttempts
  BY <1>2
<1> QED  BY <1>1, <1>2, <1>3, StoreInvInit DEF EndInv, Limited

LEMMA EndInvStep == EndInv /\ [Next]_vars => EndInv'
<1> SUFFICES ASSUME EndInv, [Next]_vars PROVE EndInv'
  OBVIOUS
<1>1. StoreInv'
  BY StoreInvStep DEF EndInv
<1>2. \A b \in Batch : Limited(b)'
  BY StepNearer, OthersNoFurther
<1> QED  BY <1>1, <1>2 DEF EndInv

(* No step of a batch can be taken for ever: each leaves the batch nearer its end,
   by a measure that only counts down and that nobody else's step raises. *)
THEOREM BatchesEnd == Spec => []StepsCount /\ AllEnd
<1>1. EndInv => StepsCount
  BY StepsCounted DEF EndInv, StoreInv, CountInv, StepsCount
<1>2. EndInv /\ [Next]_vars =>
        [\A b \in Batch : IF Execute(b) THEN NearerItsEnd(b)
                          ELSE UNCHANGED <<StagesLeft(b), StepsLeft(b)>>]_vars
  BY StepNearer, OthersNoFurther
<1> QED  BY EndInvInit, EndInvStep, <1>1, <1>2, PTL DEF Spec, AllEnd

-----------------------------------------------------------------------------
\* The command line tools: the types, and what their actions change

Results == UNION {[S -> {"done", "failed", "not_found"}] : S \in SUBSET Username}

LEMMA ResultsFacts ==
  /\ <<>> \in Results
  /\ \A S \in SUBSET Username : [S -> {"done", "failed", "not_found"}] \subseteq Results
  /\ \A r \in Results : \A u \in DOMAIN r : u \in Username /\ r[u] \in {"done", "failed", "not_found"}
<1>1. <<>> \in [{} -> {"done", "failed", "not_found"}]
  OBVIOUS
<1>2. {} \in SUBSET Username
  OBVIOUS
<1> QED  BY <1>1, <1>2 DEF Results

LEMMA FollowFields ==
  ASSUME FollowTypeOK, NEW o \in Operator
  PROVE  /\ follow[o] \in Follow /\ follow \in [Operator -> Follow]
         /\ follow[o].stage \in {"idle", "existing", "precheck", "persist", "save"}
         /\ follow[o].status \in [Username -> Status]
         /\ follow[o].todo \in Seq(Username) /\ follow[o].to_scrape \in Seq(Username)
         /\ follow[o].profiles \in Nat /\ follow[o].prechecks \in Nat
         /\ follow[o].result \in Results /\ progress \in [Username -> Status]
  BY DEF FollowTypeOK, Follow, Results

LEMMA NoFollowFacts ==
  /\ NoFollow \in Follow /\ NoFollow.stage = "idle" /\ NoFollow.to_scrape = <<>>
  /\ NoFollow.result = <<>> /\ DOMAIN NoFollow.result = {}
<1>1. /\ <<>> \in Results /\ <<>> \in Seq(Username) /\ DOMAIN <<>> = {}
      /\ [u \in Username |-> "none"] \in [Username -> Status]
  BY ResultsFacts, EmptyFacts DEF Status
<1>2. NoFollow \in Follow
  BY <1>1 DEF NoFollow, Follow, Results
<1> QED  BY <1>1, <1>2 DEF NoFollow

\* The usernames a run goes through, in the order of the input.
LEMMA InputKept ==
  ASSUME NEW S
  PROVE  /\ Kept(Input, S) \in Seq(Username) /\ ToSet(Kept(Input, S)) = Username \cap S
         /\ IsInjective(Kept(Input, S))
  BY CuratedAssumption, KeptFacts

\* A username has or had a row.
LEMMA RowKnown ==
  ASSUME ProfilesTypeOK, NEW u \in Username
  PROVE  /\ HasRow(u) \/ RowTakenAway(u) <=> stored[u] # "absent"
         /\ ~HasRow(u) /\ stored[u] # "absent" <=> RowTakenAway(u)
  BY DEF ProfilesTypeOK, Presence, Picture, HasRow, RowTakenAway

\* A username that has or had a row is never one that had none, and the runs that
\* overlapped stay so.
StoreGrows ==
  /\ \A u \in Username : stored[u] # "absent" => stored'[u] # "absent"
  /\ raced => raced'

LEMMA StoreUnchanged == UNCHANGED <<stored, raced>> => StoreGrows
  BY DEF StoreGrows

\* What a batch that was scraped and stored changes.
LEMMA ScrapesFacts ==
  ASSUME ProfilesTypeOK, NEW batch \in Seq(Username),
         NEW outcome \in [ToSet(batch) -> {"done", "failed", "not_found"}], Scrapes(batch, outcome)
  PROVE  /\ outcome \in Results /\ DOMAIN outcome = ToSet(batch) /\ ToSet(batch) \subseteq Username
         /\ asked' = ToSet(batch) /\ asked' \subseteq Username /\ faults' \in 0 .. MaxFaults
<1>1. ToSet(batch) \in SUBSET Username
  BY ToSetType
<1>2. faults' \in 0 .. MaxFaults
  <2>1. MaxFaults \in Nat /\ faults \in 0 .. MaxFaults
    BY CuratedAssumption DEF ProfilesTypeOK
  <2>2. Fault \/ UNCHANGED faults
    BY DEF Scrapes
  <2> QED  BY <2>1, <2>2 DEF Fault
<1>3. outcome \in Results
  BY <1>1, ResultsFacts
<1> QED  BY <1>1, <1>2, <1>3 DEF Scrapes

LEMMA StoresFacts ==
  ASSUME ProfilesTypeOK, NEW S \in SUBSET Username, Stores(S)
  PROVE  /\ stored' \in [Username -> Presence]
         /\ \A u \in Username : stored[u] # "absent" => stored'[u] # "absent"
         /\ \A u \in S : stored'[u] # "absent"
<1>1. PICK former \in [S -> Username] :
        LET moved == {u \in Username : \E w \in S \ {u} : former[w] = u} IN
        stored' = [u \in Username |->
          CASE u \in S \ moved -> "fresh"
            [] u \in moved /\ (u \in S \/ HasRow(u)) -> "removed"
            [] OTHER -> stored[u]]
  BY DEF Stores
<1> DEFINE moved == {u \in Username : \E w \in S \ {u} : former[w] = u}
<1>2. stored' = [u \in Username |->
        CASE u \in S \ moved -> "fresh"
          [] u \in moved /\ (u \in S \/ HasRow(u)) -> "removed"
          [] OTHER -> stored[u]]
  BY <1>1
<1> HIDE DEF moved
<1>3. ASSUME NEW u \in Username
      PROVE  /\ stored'[u] \in Presence /\ (u \in S => stored'[u] # "absent")
             /\ stored[u] # "absent" => stored'[u] # "absent"
  BY <1>2 DEF ProfilesTypeOK, Presence, Picture
<1> QED  BY <1>2, <1>3

LEMMA PersistsFacts ==
  ASSUME ProfilesTypeOK, NEW outcome \in Results, Persists(outcome)
  PROVE  /\ stored' \in [Username -> Presence]
         /\ \A u \in Username : stored[u] # "absent" => stored'[u] # "absent"
         /\ \A u \in DOMAIN outcome : outcome[u] = "done" => stored'[u] # "absent"
<1> DEFINE S == {u \in DOMAIN outcome : outcome[u] = "done"}
<1>1. S \in SUBSET Username /\ \A u \in DOMAIN outcome : outcome[u] = "done" => u \in S
  BY ResultsFacts
<1>2. Stores(S)
  BY DEF Persists
<1> HIDE DEF S
<1>3. /\ stored' \in [Username -> Presence]
      /\ \A u \in Username : stored[u] # "absent" => stored'[u] # "absent"
      /\ \A u \in S : stored'[u] # "absent"
  BY <1>1, <1>2, StoresFacts
<1> QED  BY <1>1, <1>3

LEMMA FaultType ==
  ASSUME ProfilesTypeOK, Fault
  PROVE  faults' \in 0 .. MaxFaults
<1>1. MaxFaults \in Nat /\ faults \in 0 .. MaxFaults
  BY CuratedAssumption DEF ProfilesTypeOK
<1> QED  BY <1>1 DEF Fault

\* The following pipeline.  What a step of one run leaves alone:
OthersFollow(o) == \A p \in Operator : p # o => follow'[p] = follow[p]

LEMMA StartFollowingStep ==
  ASSUME ProfilesTypeOK, FollowTypeOK, NEW o \in Operator, NEW force_refresh \in BOOLEAN,
         NEW retry_failed \in BOOLEAN, NEW limits \in Limits,
         StartFollowing(o, force_refresh, retry_failed, limits)
  PROVE  /\ ProfilesTypeOK' /\ FollowTypeOK' /\ OthersFollow(o)
         /\ UNCHANGED <<progress, stored, kind, faults>> /\ asked' = {}
         /\ raced' = (raced \/ \E p \in Operator : follow[p].stage # "idle")
         /\ follow'[o].stage \in {"existing", "precheck"} /\ follow'[o].status = progress
         /\ follow'[o].to_scrape = <<>> /\ DOMAIN follow'[o].result = {}
         /\ IsInjective(follow'[o].todo)
         /\ \A u \in ToSet(follow'[o].todo) : progress[u] \notin TERMINAL_STATUSES
<1> DEFINE todo == Kept(Input, {u \in Username : is_processable(progress[u], retry_failed)})
           new == [NoFollow EXCEPT !.stage = IF force_refresh THEN "precheck" ELSE "existing",
                        !.status = progress, !.todo = todo,
                        !.profiles = limits.profiles, !.prechecks = limits.prechecks]
<1>1. /\ follow' = [follow EXCEPT ![o] = new] /\ UNCHANGED <<progress, stored, kind, faults>>
      /\ raced' = (raced \/ \E p \in Operator : follow[p].stage # "idle") /\ asked' = {}
  BY DEF StartFollowing
<1>2. todo \in Seq(Username) /\ IsInjective(todo)
      /\ ToSet(todo) = Username \cap {u \in Username : is_processable(progress[u], retry_failed)}
  BY InputKept
<1> HIDE DEF todo
<1>3. \A u \in ToSet(todo) : progress[u] \notin TERMINAL_STATUSES
  BY <1>2 DEF is_processable
<1>4. limits.profiles \in Nat /\ limits.prechecks \in Nat
  BY FollowingAssumption
<1>5. /\ new \in Follow /\ new.stage \in {"existing", "precheck"} /\ new.status = progress
      /\ new.to_scrape = <<>> /\ DOMAIN new.result = {} /\ new.todo = todo
  <2>1. progress \in [Username -> Status] /\ NoFollow \in Follow
    BY NoFollowFacts DEF FollowTypeOK
  <2>2. new \in Follow /\ new.stage \in {"existing", "precheck"} /\ new.status = progress
        /\ new.todo = todo /\ new.to_scrape = NoFollow.to_scrape /\ new.result = NoFollow.result
    BY <1>2, <1>4, <2>1 DEF Follow
  <2> QED  BY <2>2, NoFollowFacts
<1> HIDE DEF new
<1>6. follow' \in [Operator -> Follow] /\ follow'[o] = new /\ OthersFollow(o)
  BY <1>1, <1>5 DEF FollowTypeOK, OthersFollow
<1>7. FollowTypeOK' /\ ProfilesTypeOK'
  BY <1>1, <1>6 DEF FollowTypeOK, ProfilesTypeOK
<1> QED  BY <1>1, <1>2, <1>3, <1>5, <1>6, <1>7

LEMMA SkipExistingStep ==
  ASSUME ProfilesTypeOK, FollowTypeOK, NEW o \in Operator, SkipExisting(o)
  PROVE  /\ ProfilesTypeOK' /\ FollowTypeOK' /\ OthersFollow(o)
         /\ UNCHANGED <<stored, kind, raced, faults>> /\ asked' = {}
         /\ follow[o].stage = "existing"
         /\ progress' = [u \in Username |-> IF u \in ToSet(follow[o].todo) /\ stored[u] = "fresh"
                                            THEN "skipped_existing" ELSE follow[o].status[u]]
         /\ \/ follow'[o] = NoFollow
            \/ /\ follow'[o].stage = "precheck" /\ follow'[o].status = progress'
               /\ follow'[o].to_scrape = follow[o].to_scrape /\ follow'[o].result = follow[o].result
               /\ ToSet(follow'[o].todo) = {u \in ToSet(follow[o].todo) : stored[u] # "fresh"}
               /\ IsInjective(follow[o].todo) => IsInjective(follow'[o].todo)
<1> DEFINE status == [u \in Username |-> IF u \in ToSet(follow[o].todo) /\ stored[u] = "fresh"
                                         THEN "skipped_existing" ELSE follow[o].status[u]]
           todo == Kept(follow[o].todo, {u \in Username : stored[u] # "fresh"})
           new == [follow[o] EXCEPT !.stage = "precheck", !.status = status, !.todo = todo]
<1>1. /\ follow[o].stage = "existing" /\ progress' = status
      /\ follow' = [follow EXCEPT ![o] = IF todo = <<>> THEN NoFollow ELSE new]
      /\ UNCHANGED <<stored, kind, raced, faults>> /\ asked' = {}
  BY DEF SkipExisting
<1>2. status \in [Username -> Status]
  BY FollowFields DEF Status, TERMINAL_STATUSES
<1>3. todo \in Seq(Username) /\ (IsInjective(follow[o].todo) => IsInjective(todo))
      /\ ToSet(todo) = {u \in ToSet(follow[o].todo) : stored[u] # "fresh"}
  BY FollowFields, KeptFacts, ToSetType
<1> HIDE DEF status, todo
<1>4. /\ new \in Follow /\ new.stage = "precheck" /\ new.status = status /\ new.todo = todo
      /\ new.to_scrape = follow[o].to_scrape /\ new.result = follow[o].result
  BY <1>2, <1>3, FollowFields DEF Follow
<1> HIDE DEF new
<1>5. follow' \in [Operator -> Follow] /\ follow'[o] \in {NoFollow, new} /\ OthersFollow(o)
  BY <1>1, <1>4, FollowFields, NoFollowFacts DEF OthersFollow
<1>6. FollowTypeOK' /\ ProfilesTypeOK'
  BY <1>1, <1>2, <1>5 DEF FollowTypeOK, ProfilesTypeOK
<1> QED  BY <1>1, <1>3, <1>4, <1>5, <1>6 DEF status

LEMMA PrecheckStep ==
  ASSUME ProfilesTypeOK, FollowTypeOK, NEW o \in Operator, Precheck(o)
  PROVE  /\ ProfilesTypeOK' /\ FollowTypeOK' /\ OthersFollow(o)
         /\ UNCHANGED <<stored, kind, raced>>
         /\ follow[o].stage = "precheck" /\ follow[o].todo # <<>> /\ asked' = {Head(follow[o].todo)}
         /\ follow'[o].stage = "precheck" /\ follow'[o].status = progress'
         /\ follow'[o].todo = Tail(follow[o].todo) /\ follow'[o].result = follow[o].result
         /\ \E status \in {"not_found", "precheck_failed", "passed_precheck", "skipped_low_followers"} :
              /\ progress' = [follow[o].status EXCEPT ![Head(follow[o].todo)] = status]
              /\ follow'[o].to_scrape = IF status = "passed_precheck"
                   THEN Append(follow[o].to_scrape, Head(follow[o].todo)) ELSE follow[o].to_scrape
<1> DEFINE u == Head(follow[o].todo)
           Outcomes == {"not_found", "precheck_failed", "passed_precheck", "skipped_low_followers"}
<1>1. /\ follow[o].stage = "precheck" /\ follow[o].todo # <<>> /\ asked' = {u}
      /\ UNCHANGED <<stored, kind, raced>> /\ follow[o].profiles > 0 /\ follow[o].prechecks > 0
  BY DEF Precheck, PrecheckGoesOn
<1>2. PICK status \in Outcomes :
        /\ (status = "precheck_failed" /\ Fault) \/ UNCHANGED faults
        /\ progress' = [follow[o].status EXCEPT ![u] = status]
        /\ follow' = [follow EXCEPT
             ![o].status = progress', ![o].todo = Tail(@), ![o].prechecks = @ - 1,
             ![o].profiles = IF status = "passed_precheck" THEN @ - 1 ELSE @,
             ![o].to_scrape = IF status = "passed_precheck" THEN Append(@, u) ELSE @]
  BY DEF Precheck
<1>3. u \in Username /\ Tail(follow[o].todo) \in Seq(Username)
  BY <1>1, FollowFields, ToSetTail
<1>4. Append(follow[o].to_scrape, u) \in Seq(Username)
  BY <1>3, FollowFields, ToSetAppend
<1>5. progress' \in [Username -> Status]
  BY <1>2, <1>3, FollowFields DEF Status, TERMINAL_STATUSES, RETRYABLE_FAILURE_STATUSES
<1>6. follow[o].prechecks - 1 \in Nat /\ follow[o].profiles - 1 \in Nat
  BY <1>1, FollowFields
<1> HIDE DEF u
<1> DEFINE to_scrape == IF status = "passed_precheck" THEN Append(follow[o].to_scrape, u)
                        ELSE follow[o].to_scrape
           new == [follow[o] EXCEPT
                     !.status = progress', !.todo = Tail(follow[o].todo),
                     !.prechecks = follow[o].prechecks - 1,
                     !.profiles = IF status = "passed_precheck" THEN follow[o].profiles - 1
                                  ELSE follow[o].profiles,
                     !.to_scrape = to_scrape]
<1>7. follow' = [follow EXCEPT ![o] = new]
  BY <1>2
<1>8. to_scrape \in Seq(Username)
  BY <1>4, FollowFields
<1> HIDE DEF to_scrape
<1>9. /\ new \in Follow /\ new.stage = "precheck" /\ new.status = progress'
      /\ new.todo = Tail(follow[o].todo) /\ new.to_scrape = to_scrape
      /\ new.result = follow[o].result
  BY <1>1, <1>3, <1>5, <1>6, <1>8, FollowFields DEF Follow
<1> HIDE DEF new
<1>10. follow' \in [Operator -> Follow] /\ follow'[o] = new /\ OthersFollow(o)
  BY <1>7, <1>9, FollowFields DEF OthersFollow
<1>11. faults' \in 0 .. MaxFaults /\ asked' \subseteq Username
  BY <1>1, <1>2, <1>3, FaultType DEF ProfilesTypeOK
<1>12. FollowTypeOK' /\ ProfilesTypeOK'
  BY <1>1, <1>5, <1>10, <1>11 DEF FollowTypeOK, ProfilesTypeOK
<1> QED  BY <1>1, <1>2, <1>9, <1>10, <1>12 DEF u, to_scrape

LEMMA PrecheckOverStep ==
  ASSUME ProfilesTypeOK, FollowTypeOK, NEW o \in Operator, PrecheckOver(o)
  PROVE  /\ ProfilesTypeOK' /\ FollowTypeOK' /\ OthersFollow(o)
         /\ UNCHANGED <<progress, stored, kind, raced, faults>> /\ asked' = {}
         /\ follow[o].stage = "precheck"
         /\ \/ follow'[o] = NoFollow
            \/ /\ follow'[o].stage = "persist" /\ follow'[o].status = follow[o].status
               /\ follow'[o].todo = <<>> /\ follow'[o].to_scrape = follow[o].to_scrape
               /\ follow'[o].result = follow[o].result
<1> DEFINE new == [follow[o] EXCEPT !.stage = "persist", !.todo = <<>>,
                                    !.profiles = 0, !.prechecks = 0]
<1>1. /\ follow[o].stage = "precheck"
      /\ follow' = [follow EXCEPT ![o] = IF follow[o].to_scrape = <<>> THEN NoFollow ELSE new]
      /\ UNCHANGED <<progress, stored, kind, raced, faults>> /\ asked' = {}
  BY DEF PrecheckOver
<1>2. /\ new \in Follow /\ new.stage = "persist" /\ new.status = follow[o].status
      /\ new.todo = <<>> /\ new.to_scrape = follow[o].to_scrape /\ new.result = follow[o].result
  BY FollowFields, EmptyFacts DEF Follow
<1> HIDE DEF new
<1>3. follow' \in [Operator -> Follow] /\ follow'[o] \in {NoFollow, new} /\ OthersFollow(o)
  BY <1>1, <1>2, FollowFields, NoFollowFacts DEF OthersFollow
<1>4. FollowTypeOK' /\ ProfilesTypeOK'
  BY <1>1, <1>3 DEF FollowTypeOK, ProfilesTypeOK
<1> QED  BY <1>1, <1>2, <1>3, <1>4

LEMMA ScrapeAndPersistStep ==
  ASSUME ProfilesTypeOK, FollowTypeOK, NEW o \in Operator, ScrapeAndPersist(o)
  PROVE  /\ ProfilesTypeOK' /\ FollowTypeOK' /\ OthersFollow(o) /\ StoreGrows
         /\ UNCHANGED <<progress, kind, raced>>
         /\ asked' = ToSet(FirstBatch(follow[o].to_scrape)) /\ follow[o].stage = "persist"
         /\ follow'[o].stage = "save" /\ follow'[o].status = follow[o].status
         /\ follow'[o].todo = follow[o].todo /\ follow'[o].to_scrape = follow[o].to_scrape
         /\ DOMAIN follow'[o].result = ToSet(FirstBatch(follow[o].to_scrape))
         /\ \A u \in DOMAIN follow'[o].result : follow'[o].result[u] = "done" => stored'[u] # "absent"
<1> DEFINE batch == FirstBatch(follow[o].to_scrape)
<1>1. follow[o].stage = "persist" /\ UNCHANGED <<progress, kind, raced>>
  BY DEF ScrapeAndPersist
<1>2. batch \in Seq(Username)
  BY FollowFields, BatchFacts
<1>3. PICK outcome \in [ToSet(batch) -> {"done", "failed", "not_found"}] :
        /\ Scrapes(batch, outcome) /\ Persists(outcome)
        /\ follow' = [follow EXCEPT ![o].stage = "save", ![o].result = outcome]
  BY DEF ScrapeAndPersist
<1> HIDE DEF batch
<1>4. /\ outcome \in Results /\ DOMAIN outcome = ToSet(batch) /\ asked' = ToSet(batch)
      /\ asked' \subseteq Username /\ faults' \in 0 .. MaxFaults
  BY <1>2, <1>3, ScrapesFacts
<1>5. /\ stored' \in [Username -> Presence]
      /\ \A u \in Username : stored[u] # "absent" => stored'[u] # "absent"
      /\ \A u \in DOMAIN outcome : outcome[u] = "done" => stored'[u] # "absent"
  BY <1>3, <1>4, PersistsFacts
<1> DEFINE new == [follow[o] EXCEPT !.stage = "save", !.result = outcome]
<1>6. follow' = [follow EXCEPT ![o] = new]
  BY <1>3
<1>7. /\ new \in Follow /\ new.stage = "save" /\ new.status = follow[o].status
      /\ new.todo = follow[o].todo /\ new.to_scrape = follow[o].to_scrape /\ new.result = outcome
  BY <1>4, FollowFields DEF Follow, Results
<1> HIDE DEF new
<1>8. follow' \in [Operator -> Follow] /\ follow'[o] = new /\ OthersFollow(o)
  BY <1>6, <1>7, FollowFields DEF OthersFollow
<1>9. FollowTypeOK' /\ ProfilesTypeOK' /\ StoreGrows
  BY <1>1, <1>4, <1>5, <1>8 DEF FollowTypeOK, ProfilesTypeOK, StoreGrows
<1> QED  BY <1>1, <1>4, <1>5, <1>7, <1>8, <1>9 DEF batch

LEMMA SaveBatchStep ==
  ASSUME ProfilesTypeOK, FollowTypeOK, NEW o \in Operator, SaveBatch(o)
  PROVE  /\ ProfilesTypeOK' /\ FollowTypeOK' /\ OthersFollow(o)
         /\ UNCHANGED <<stored, kind, raced, faults>> /\ asked' = {}
         /\ follow[o].stage = "save"
         /\ progress' = [u \in Username |-> IF u \in DOMAIN follow[o].result
                                            THEN follow[o].result[u] ELSE follow[o].status[u]]
         /\ \/ follow'[o] = NoFollow
            \/ /\ follow'[o].stage = "persist" /\ follow'[o].status = progress'
               /\ follow'[o].todo = follow[o].todo /\ DOMAIN follow'[o].result = {}
               /\ follow'[o].to_scrape = OtherBatches(follow[o].to_scrape)
<1> DEFINE status == [u \in Username |-> IF u \in DOMAIN follow[o].result
                                         THEN follow[o].result[u] ELSE follow[o].status[u]]
           others == OtherBatches(follow[o].to_scrape)
           none == <<>>
           new == [follow[o] EXCEPT !.stage = "persist", !.status = status,
                                    !.to_scrape = others, !.result = none]
<1>1. /\ follow[o].stage = "save" /\ progress' = status
      /\ follow' = [follow EXCEPT ![o] = IF others = <<>> THEN NoFollow ELSE new]
      /\ UNCHANGED <<stored, kind, raced, faults>> /\ asked' = {}
  BY DEF SaveBatch
<1>2. status \in [Username -> Status]
  BY FollowFields, ResultsFacts DEF Status, TERMINAL_STATUSES, RETRYABLE_FAILURE_STATUSES
<1>3. others \in Seq(Username)
  BY FollowFields, BatchFacts
<1>4. none \in Results /\ DOMAIN none = {}
  BY ResultsFacts
<1> HIDE DEF status, others, none
<1>5. /\ new \in Follow /\ new.stage = "persist" /\ new.status = status
      /\ new.todo = follow[o].todo /\ new.to_scrape = others /\ DOMAIN new.result = {}
  BY <1>2, <1>3, <1>4, FollowFields DEF Follow, Results
<1> HIDE DEF new
<1>6. follow' \in [Operator -> Follow] /\ follow'[o] \in {NoFollow, new} /\ OthersFollow(o)
  BY <1>1, <1>5, FollowFields, NoFollowFacts DEF OthersFollow
<1>7. FollowTypeOK' /\ ProfilesTypeOK'
  BY <1>1, <1>2, <1>6 DEF FollowTypeOK, ProfilesTypeOK
<1> QED  BY <1>1, <1>5, <1>6, <1>7 DEF status, others

LEMMA FollowingCutOffStep ==
  ASSUME ProfilesTypeOK, FollowTypeOK, NEW o \in Operator, FollowingCutOff(o)
  PROVE  /\ ProfilesTypeOK' /\ FollowTypeOK' /\ OthersFollow(o)
         /\ UNCHANGED <<progress, stored, kind, raced>> /\ asked' = {}
         /\ follow'[o] = NoFollow
<1>1. /\ follow' = [follow EXCEPT ![o] = NoFollow] /\ Fault
      /\ UNCHANGED <<progress, stored, kind, raced>> /\ asked' = {}
  BY DEF FollowingCutOff
<1>2. follow' \in [Operator -> Follow] /\ follow'[o] = NoFollow /\ OthersFollow(o)
  BY <1>1, FollowFields, NoFollowFacts DEF OthersFollow
<1>3. faults' \in 0 .. MaxFaults
  BY <1>1, FaultType
<1> QED  BY <1>1, <1>2, <1>3 DEF FollowTypeOK, ProfilesTypeOK

\* The recommended pipeline.
LEMMA CurateFields ==
  ASSUME RecommendTypeOK, NEW o \in Operator
  PROVE  /\ curate[o] \in Curate /\ curate \in [Operator -> Curate]
         /\ curate[o].stage \in {"idle", "discover", "write_export", "write_discovered",
                                 "persist", "write_persisted"}
         /\ curate[o].export \in [Username -> RowStatus]
         /\ curate[o].list \in [Username -> Row] /\ curate[o].todo \in Seq(Username)
         /\ exported \in [Username -> RowStatus] /\ listed \in [Username -> Row]
  BY DEF RecommendTypeOK, Curate

LEMMA NoCurateFacts ==
  /\ NoCurate \in Curate /\ NoCurate.stage = "idle"
  /\ NoCurate.list = [u \in Username |-> NoRow] /\ NoRow \in Row
  /\ NoRow.status = "absent"
<1>1. NoRow \in Row /\ NoRow.status = "absent"
  BY DEF NoRow, Row, RowStatus
<1>2. /\ [u \in Username |-> "absent"] \in [Username -> RowStatus]
      /\ [u \in Username |-> NoRow] \in [Username -> Row] /\ <<>> \in Seq(Username)
  BY <1>1, EmptyFacts DEF RowStatus
<1>3. NoCurate \in Curate
  BY <1>2 DEF NoCurate, Curate
<1> QED  BY <1>1, <1>3 DEF NoCurate

OthersCurate(o) == \A p \in Operator : p # o => curate'[p] = curate[p]

LEMMA ExportProfilesStep ==
  ASSUME ProfilesTypeOK, RecommendTypeOK, ExportProfiles
  PROVE  /\ ProfilesTypeOK' /\ RecommendTypeOK'
         /\ UNCHANGED <<listed, curate, torn, stored, kind, faults>> /\ asked' = {}
         /\ raced' = (raced \/ Running # {}) /\ exports' # exports
         /\ \A u \in Username : exported'[u] \in {"pending", "absent"}
<1>1. /\ UNCHANGED <<listed, curate, torn, stored, kind, faults>> /\ asked' = {}
      /\ raced' = (raced \/ Running # {}) /\ exports < MaxExports /\ exports' = exports + 1
  BY DEF ExportProfiles
<1>2. PICK chosen : exported' = [u \in Username |-> IF u \in chosen THEN "pending" ELSE "absent"]
  BY DEF ExportProfiles
<1>3. exports' \in 0 .. MaxExports /\ exports' # exports
  <2>1. MaxExports \in Nat /\ exports \in 0 .. MaxExports
    BY RecommendedAssumption DEF RecommendTypeOK
  <2> QED  BY <1>1, <2>1
<1>4. exported' \in [Username -> RowStatus] /\ \A u \in Username : exported'[u] \in {"pending", "absent"}
  BY <1>2 DEF RowStatus
<1> QED  BY <1>1, <1>3, <1>4 DEF RecommendTypeOK, ProfilesTypeOK

LEMMA StartStep ==
  ASSUME ProfilesTypeOK, RecommendTypeOK, NEW o \in Operator, NEW stage \in {"discover", "persist"},
         NEW todo \in Seq(Username), Start(o, stage, todo)
  PROVE  /\ ProfilesTypeOK' /\ RecommendTypeOK' /\ OthersCurate(o)
         /\ UNCHANGED <<exported, listed, torn, exports, stored, kind, faults>> /\ asked' = {}
         /\ o \notin Running /\ raced' = (raced \/ Running # {})
         /\ curate'[o].stage = stage /\ curate'[o].todo = todo
         /\ curate'[o].export = exported /\ curate'[o].list = listed
<1> DEFINE new == [stage |-> stage, export |-> exported, list |-> listed, todo |-> todo]
<1>1. /\ UNCHANGED <<exported, listed, torn, exports, stored, kind, faults>> /\ asked' = {}
      /\ curate' = [curate EXCEPT ![o] = new]
      /\ o \notin Running /\ raced' = (raced \/ Running # {})
  BY DEF Start
<1>2. /\ new \in Curate /\ new.stage = stage /\ new.todo = todo /\ new.export = exported
      /\ new.list = listed
  BY DEF Curate, RecommendTypeOK
<1> HIDE DEF new
<1>3. curate' \in [Operator -> Curate] /\ curate'[o] = new /\ OthersCurate(o)
  BY <1>1, <1>2, CurateFields DEF OthersCurate
<1> QED  BY <1>1, <1>2, <1>3 DEF RecommendTypeOK, ProfilesTypeOK

\* What discovery adds to the list: a source of an account that is not stored.
LEMMA UpsertedFacts ==
  ASSUME ProfilesTypeOK, NEW list \in [Username -> Row], NEW S \in SUBSET Username
  PROVE  /\ Upserted(list, S) \in [Username -> Row]
         /\ \A v \in Username :
              /\ list[v].sources \subseteq Upserted(list, S)[v].sources
              /\ \A u \in S : v \in Recommends[u] =>
                   stored[v] # "absent" \/ u \in Upserted(list, S)[v].sources
              /\ list[v].status # "absent" => Upserted(list, S)[v].status = list[v].status
              /\ Upserted(list, S)[v].status = "done" => list[v].status = "done"
<1>1. SUFFICES ASSUME NEW v \in Username
               PROVE  /\ Upserted(list, S)[v] \in Row
                      /\ list[v].sources \subseteq Upserted(list, S)[v].sources
                      /\ \A u \in S : v \in Recommends[u] =>
                           stored[v] # "absent" \/ u \in Upserted(list, S)[v].sources
                      /\ list[v].status # "absent" => Upserted(list, S)[v].status = list[v].status
                      /\ Upserted(list, S)[v].status = "done" => list[v].status = "done"
  BY DEF Upserted
<1> DEFINE found == {u \in S : v \in Recommends[u] /\ ~HasRow(v)}
           new == [status |-> IF list[v].status = "absent" THEN "pending" ELSE list[v].status,
                   sources |-> list[v].sources \cup found]
<1>2. Upserted(list, S)[v] = IF found = {} THEN list[v] ELSE new
  BY DEF Upserted
<1>3. list[v] \in Row /\ list[v].status \in RowStatus /\ list[v].sources \subseteq Username
  BY DEF Row
<1>4. found \subseteq Username
  OBVIOUS
<1>5. \A u \in S : v \in Recommends[u] => stored[v] # "absent" \/ u \in found
  BY RowKnown
<1> HIDE DEF found
<1>6. /\ new \in Row /\ new.sources = list[v].sources \cup found
      /\ new.status = IF list[v].status = "absent" THEN "pending" ELSE list[v].status
  BY <1>3, <1>4 DEF Row, RowStatus
<1> HIDE DEF new
<1> QED  BY <1>2, <1>3, <1>5, <1>6

LEMMA DiscoverBatchStep ==
  ASSUME ProfilesTypeOK, RecommendTypeOK, NEW o \in Operator, DiscoverBatch(o)
  PROVE  /\ ProfilesTypeOK' /\ RecommendTypeOK' /\ OthersCurate(o)
         /\ UNCHANGED <<exported, listed, torn, exports, stored, kind, raced>>
         /\ asked' = ToSet(FirstBatch(curate[o].todo)) /\ curate[o].stage = "discover"
         /\ curate'[o].stage = "write_export" /\ curate'[o].todo = curate[o].todo
         /\ \A u \in Username \ ToSet(FirstBatch(curate[o].todo)) :
              curate'[o].export[u] = curate[o].export[u]
         /\ \A v \in Username :
              /\ curate[o].list[v].sources \subseteq curate'[o].list[v].sources
              /\ \A u \in ToSet(FirstBatch(curate[o].todo)) :
                   v \in Recommends[u] /\ curate'[o].export[u] = "done" =>
                     stored[v] # "absent" \/ u \in curate'[o].list[v].sources
              /\ curate[o].list[v].status # "absent" =>
                   curate'[o].list[v].status = curate[o].list[v].status
              /\ curate'[o].list[v].status = "done" => curate[o].list[v].status = "done"
<1> DEFINE batch == FirstBatch(curate[o].todo)
<1>1. curate[o].stage = "discover" /\ UNCHANGED <<exported, listed, torn, exports, stored, kind, raced>>
  BY DEF DiscoverBatch
<1>2. batch \in Seq(Username)
  BY CurateFields, BatchFacts
<1>3. PICK outcome \in [ToSet(batch) -> {"done", "failed", "not_found"}] :
        /\ Scrapes(batch, outcome)
        /\ curate' = [curate EXCEPT ![o] =
             [stage |-> "write_export",
              export |-> [u \in Username |-> IF u \in DOMAIN outcome THEN outcome[u]
                                             ELSE curate[o].export[u]],
              list |-> Upserted(curate[o].list, {u \in DOMAIN outcome : outcome[u] = "done"}),
              todo |-> curate[o].todo]]
  BY DEF DiscoverBatch
<1> HIDE DEF batch
<1>4. /\ outcome \in Results /\ DOMAIN outcome = ToSet(batch) /\ asked' = ToSet(batch)
      /\ asked' \subseteq Username /\ faults' \in 0 .. MaxFaults /\ ToSet(batch) \subseteq Username
  BY <1>2, <1>3, ScrapesFacts
<1> DEFINE S == {u \in DOMAIN outcome : outcome[u] = "done"}
           export == [u \in Username |-> IF u \in DOMAIN outcome THEN outcome[u]
                                         ELSE curate[o].export[u]]
           list == Upserted(curate[o].list, S)
           new == [stage |-> "write_export", export |-> export, list |-> list,
                   todo |-> curate[o].todo]
<1>5. S \in SUBSET Username
  BY <1>4
<1>6. export \in [Username -> RowStatus]
  BY <1>4, CurateFields, ResultsFacts DEF RowStatus
<1>7. \A u \in Username : IF u \in ToSet(batch) THEN export[u] = "done" => u \in S
                          ELSE export[u] = curate[o].export[u]
  BY <1>4
<1>8. curate' = [curate EXCEPT ![o] = new]
  BY <1>3
<1> HIDE DEF S, export
<1>9. /\ list \in [Username -> Row]
      /\ \A v \in Username :
           /\ curate[o].list[v].sources \subseteq list[v].sources
           /\ \A u \in S : v \in Recommends[u] => stored[v] # "absent" \/ u \in list[v].sources
           /\ curate[o].list[v].status # "absent" => list[v].status = curate[o].list[v].status
           /\ list[v].status = "done" => curate[o].list[v].status = "done"
  BY <1>5, CurateFields, UpsertedFacts
<1> HIDE DEF list
<1>10. /\ new \in Curate /\ new.stage = "write_export" /\ new.export = export /\ new.list = list
       /\ new.todo = curate[o].todo
  BY <1>6, <1>9, CurateFields DEF Curate
<1> HIDE DEF new
<1>11. curate' \in [Operator -> Curate] /\ curate'[o] = new /\ OthersCurate(o)
  BY <1>8, <1>10, CurateFields DEF OthersCurate
<1>12. RecommendTypeOK' /\ ProfilesTypeOK'
  BY <1>1, <1>4, <1>11 DEF RecommendTypeOK, ProfilesTypeOK
<1> USE DEF batch
<1>13. \A u \in Username \ ToSet(batch) : curate'[o].export[u] = curate[o].export[u]
  BY <1>7, <1>10, <1>11
<1>14. ASSUME NEW v \in Username
       PROVE  /\ curate[o].list[v].sources \subseteq curate'[o].list[v].sources
              /\ \A u \in ToSet(batch) :
                   v \in Recommends[u] /\ curate'[o].export[u] = "done" =>
                     stored[v] # "absent" \/ u \in curate'[o].list[v].sources
              /\ curate[o].list[v].status # "absent" =>
                   curate'[o].list[v].status = curate[o].list[v].status
              /\ curate'[o].list[v].status = "done" => curate[o].list[v].status = "done"
  BY <1>4, <1>7, <1>9, <1>10, <1>11
<1> QED  BY <1>1, <1>4, <1>10, <1>11, <1>12, <1>13, <1>14

LEMMA WriteExportStep ==
  ASSUME ProfilesTypeOK, RecommendTypeOK, NEW o \in Operator, WriteExport(o)
  PROVE  /\ ProfilesTypeOK' /\ RecommendTypeOK' /\ OthersCurate(o)
         /\ UNCHANGED <<listed, torn, exports, stored, kind, raced, faults>> /\ asked' = {}
         /\ curate[o].stage = "write_export" /\ exported' = curate[o].export
         /\ curate'[o].stage = "write_discovered" /\ curate'[o].export = curate[o].export
         /\ curate'[o].list = curate[o].list /\ curate'[o].todo = curate[o].todo
<1> DEFINE new == [curate[o] EXCEPT !.stage = "write_discovered"]
<1>1. /\ UNCHANGED <<listed, torn, exports, stored, kind, raced, faults>> /\ asked' = {}
      /\ curate[o].stage = "write_export" /\ exported' = curate[o].export
      /\ curate' = [curate EXCEPT ![o] = new]
  BY DEF WriteExport
<1>2. /\ new \in Curate /\ new.stage = "write_discovered" /\ new.export = curate[o].export
      /\ new.list = curate[o].list /\ new.todo = curate[o].todo
  BY CurateFields DEF Curate
<1> HIDE DEF new
<1>3. curate' \in [Operator -> Curate] /\ curate'[o] = new /\ OthersCurate(o)
  BY <1>1, <1>2, CurateFields DEF OthersCurate
<1>4. exported' \in [Username -> RowStatus]
  BY <1>1, CurateFields
<1> QED  BY <1>1, <1>2, <1>3, <1>4 DEF RecommendTypeOK, ProfilesTypeOK

LEMMA WriteListStep ==
  ASSUME ProfilesTypeOK, RecommendTypeOK, NEW o \in Operator, WriteList(o)
  PROVE  /\ ProfilesTypeOK' /\ RecommendTypeOK' /\ OthersCurate(o)
         /\ UNCHANGED <<exported, torn, exports, stored, kind, raced, faults>> /\ asked' = {}
         /\ curate[o].stage \in {"write_discovered", "write_persisted"} /\ listed' = curate[o].list
         /\ \/ curate'[o] = NoCurate
            \/ /\ curate'[o].stage = IF curate[o].stage = "write_discovered" THEN "discover"
                                     ELSE "persist"
               /\ curate'[o].todo = OtherBatches(curate[o].todo)
               /\ curate'[o].export = curate[o].export /\ curate'[o].list = curate[o].list
<1> DEFINE others == OtherBatches(curate[o].todo)
           stage == IF curate[o].stage = "write_discovered" THEN "discover" ELSE "persist"
           new == [curate[o] EXCEPT !.todo = others, !.stage = stage]
<1>1. /\ UNCHANGED <<exported, torn, exports, stored, kind, raced, faults>> /\ asked' = {}
      /\ curate[o].stage \in {"write_discovered", "write_persisted"} /\ listed' = curate[o].list
      /\ curate' = [curate EXCEPT ![o] = IF others = <<>> THEN NoCurate ELSE new]
  BY DEF WriteList
<1>2. others \in Seq(Username)
  BY CurateFields, BatchFacts
<1> HIDE DEF others
<1>3. /\ new \in Curate /\ new.stage = stage /\ new.export = curate[o].export
      /\ new.list = curate[o].list /\ new.todo = others
  BY <1>2, CurateFields DEF Curate
<1> HIDE DEF new
<1>4. curate' \in [Operator -> Curate] /\ curate'[o] \in {NoCurate, new} /\ OthersCurate(o)
  BY <1>1, <1>3, CurateFields, NoCurateFacts DEF OthersCurate
<1>5. listed' \in [Username -> Row]
  BY <1>1, CurateFields
<1>6. RecommendTypeOK' /\ ProfilesTypeOK'
  BY <1>1, <1>4, <1>5 DEF RecommendTypeOK, ProfilesTypeOK
<1> QED  BY <1>1, <1>3, <1>4, <1>6 DEF others

LEMMA PersistBatchStep ==
  ASSUME ProfilesTypeOK, RecommendTypeOK, NEW o \in Operator, PersistBatch(o)
  PROVE  /\ ProfilesTypeOK' /\ RecommendTypeOK' /\ OthersCurate(o) /\ StoreGrows
         /\ UNCHANGED <<exported, listed, torn, exports, kind, raced>>
         /\ asked' = ToSet(FirstBatch(curate[o].todo)) /\ curate[o].stage = "persist"
         /\ curate'[o].stage = "write_persisted" /\ curate'[o].todo = curate[o].todo
         /\ curate'[o].export = curate[o].export
         /\ \A u \in Username \ ToSet(FirstBatch(curate[o].todo)) :
              curate'[o].list[u] = curate[o].list[u]
         /\ \A u \in Username :
              /\ curate'[o].list[u].sources = curate[o].list[u].sources
              /\ u \in ToSet(FirstBatch(curate[o].todo)) /\ curate'[o].list[u].status = "done" =>
                   stored'[u] # "absent"
<1> DEFINE batch == FirstBatch(curate[o].todo)
<1>1. curate[o].stage = "persist" /\ UNCHANGED <<exported, listed, torn, exports, kind, raced>>
  BY DEF PersistBatch
<1>2. batch \in Seq(Username)
  BY CurateFields, BatchFacts
<1>3. PICK outcome \in [ToSet(batch) -> {"done", "failed", "not_found"}] :
        /\ Scrapes(batch, outcome) /\ Persists(outcome)
        /\ curate' = [curate EXCEPT
             ![o].stage = "write_persisted",
             ![o].list = [u \in Username |->
                IF u \in DOMAIN outcome THEN [@[u] EXCEPT !.status = outcome[u]] ELSE @[u]]]
  BY DEF PersistBatch
<1> HIDE DEF batch
<1>4. /\ outcome \in Results /\ DOMAIN outcome = ToSet(batch) /\ asked' = ToSet(batch)
      /\ asked' \subseteq Username /\ faults' \in 0 .. MaxFaults /\ ToSet(batch) \subseteq Username
  BY <1>2, <1>3, ScrapesFacts
<1>5. /\ stored' \in [Username -> Presence]
      /\ \A u \in Username : stored[u] # "absent" => stored'[u] # "absent"
      /\ \A u \in DOMAIN outcome : outcome[u] = "done" => stored'[u] # "absent"
  BY <1>3, <1>4, PersistsFacts
<1> DEFINE list == [u \in Username |->
             IF u \in DOMAIN outcome THEN [curate[o].list[u] EXCEPT !.status = outcome[u]]
             ELSE curate[o].list[u]]
           new == [curate[o] EXCEPT !.stage = "write_persisted", !.list = list]
<1>6. curate' = [curate EXCEPT ![o] = new]
  BY <1>3
<1>7. ASSUME NEW u \in Username
      PROVE  /\ list[u] \in Row /\ list[u].sources = curate[o].list[u].sources
             /\ u \notin DOMAIN outcome => list[u] = curate[o].list[u]
             /\ u \in DOMAIN outcome => list[u].status = outcome[u]
  <2>1. curate[o].list[u] \in Row
    BY CurateFields
  <2>2. u \in DOMAIN outcome => outcome[u] \in RowStatus
    BY <1>4, ResultsFacts DEF RowStatus
  <2> QED  BY <2>1, <2>2 DEF Row
<1>8. list \in [Username -> Row]
  BY <1>7
<1> HIDE DEF list
<1>9. /\ new \in Curate /\ new.stage = "write_persisted" /\ new.export = curate[o].export
      /\ new.list = list /\ new.todo = curate[o].todo
  BY <1>8, CurateFields DEF Curate
<1> HIDE DEF new
<1>10. curate' \in [Operator -> Curate] /\ curate'[o] = new /\ OthersCurate(o)
  BY <1>6, <1>9, CurateFields DEF OthersCurate
<1>11. RecommendTypeOK' /\ ProfilesTypeOK' /\ StoreGrows
  BY <1>1, <1>4, <1>5, <1>10 DEF RecommendTypeOK, ProfilesTypeOK, StoreGrows
<1>12. \A u \in Username : u \in ToSet(batch) /\ list[u].status = "done" => stored'[u] # "absent"
  BY <1>4, <1>5, <1>7
<1> USE DEF batch
<1> QED  BY <1>1, <1>4, <1>7, <1>9, <1>10, <1>11, <1>12

LEMMA CurateCutOffStep ==
  ASSUME ProfilesTypeOK, RecommendTypeOK, NEW o \in Operator, CurateCutOff(o)
  PROVE  /\ ProfilesTypeOK' /\ RecommendTypeOK' /\ OthersCurate(o)
         /\ UNCHANGED <<exported, listed, exports, stored, kind, raced>> /\ asked' = {}
         /\ o \in Running /\ curate'[o] = NoCurate
         /\ torn' = IF curate[o].stage = "write_discovered"
                    THEN torn \cup ToSet(FirstBatch(curate[o].todo)) ELSE torn
<1>1. /\ UNCHANGED <<exported, listed, exports, stored, kind, raced>> /\ asked' = {}
      /\ o \in Running /\ Fault /\ curate' = [curate EXCEPT ![o] = NoCurate]
      /\ torn' = IF curate[o].stage = "write_discovered"
                 THEN torn \cup ToSet(FirstBatch(curate[o].todo)) ELSE torn
  BY DEF CurateCutOff
<1>2. curate' \in [Operator -> Curate] /\ curate'[o] = NoCurate /\ OthersCurate(o)
  BY <1>1, CurateFields, NoCurateFacts DEF OthersCurate
<1>3. faults' \in 0 .. MaxFaults
  BY <1>1, FaultType
<1>4. torn' \subseteq Username
  <2>1. ToSet(FirstBatch(curate[o].todo)) \subseteq Username
    BY CurateFields, BatchFacts
  <2> QED  BY <1>1, <2>1 DEF RecommendTypeOK
<1> QED  BY <1>1, <1>2, <1>3, <1>4 DEF RecommendTypeOK, ProfilesTypeOK

LEMMA WorldStep ==
  ASSUME ProfilesTypeOK, World
  PROVE  ProfilesTypeOK' /\ StoreGrows /\ asked' = {} /\ UNCHANGED raced
<1> DEFINE Typed == /\ stored' \in [Username -> Presence]
                    /\ \A w \in Username : stored[w] # "absent" => stored'[w] # "absent"
                    /\ kind' \in [Username -> Kind] /\ faults' \in 0 .. MaxFaults
<1>1. /\ asked' = {} /\ UNCHANGED raced
      /\ stored \in [Username -> Presence] /\ kind \in [Username -> Kind]
      /\ faults \in 0 .. MaxFaults
  BY DEF World, ProfilesTypeOK
<1> SUFFICES Typed
  BY <1>1 DEF ProfilesTypeOK, StoreGrows
<1>2. PICK u \in Username :
        \/ Expire(u) \/ StoredByJob(u) \/ Vanish(u) \/ EditProfile(u) \/ DeleteProfile(u)
        \/ \E v \in Username : RenameProfile(u, v)
  BY DEF World
<1>3. CASE Expire(u)
  BY <1>1, <1>3 DEF Expire, Presence, Picture
<1>4. CASE StoredByJob(u)
  <2>1. Stores({u}) /\ UNCHANGED <<kind, faults>> /\ {u} \in SUBSET Username
    BY <1>4 DEF StoredByJob
  <2> QED  BY <1>1, <2>1, StoresFacts
<1>5. CASE Vanish(u)
  <2>1. faults' \in 0 .. MaxFaults /\ UNCHANGED stored
    BY <1>5, FaultType DEF Vanish
  <2>2. kind' \in [Username -> Kind]
    BY <1>1, <1>5 DEF Vanish, Kind
  <2> QED  BY <1>1, <2>1, <2>2
<1>6. CASE EditProfile(u)
  BY <1>1, <1>6 DEF EditProfile, Presence, Picture
<1>7. CASE DeleteProfile(u)
  BY <1>1, <1>7 DEF DeleteProfile, Presence
<1>8. ASSUME NEW v \in Username, RenameProfile(u, v)  PROVE Typed
  <2>1. /\ stored[u] \in Picture /\ UNCHANGED <<kind, faults>>
        /\ stored' = [stored EXCEPT ![u] = "removed", ![v] = stored[u]]
    BY <1>8 DEF RenameProfile, HasRow
  <2> QED  BY <1>1, <2>1 DEF Presence, Picture
<1> QED  BY <1>2, <1>3, <1>4, <1>5, <1>6, <1>7, <1>8

-----------------------------------------------------------------------------
\* The command line tools: the inductive invariant

\* ProgressIsTrue, with "has or had a row" as one condition on the profile.
DoneHadRow ==
  \A u \in Username :
    progress[u] \in {"done", "skipped_existing"} \/ listed[u].status = "done"
    => stored[u] # "absent"
ListedHadRow ==
  \A u \in Username : \A v \in Recommends[u] :
    exported[u] = "done" =>
      \/ stored[v] # "absent"
      \/ u \in listed[v].sources
      \/ u \in torn \/ raced
      \/ \E o \in Running : /\ curate[o].stage = "write_discovered"
                             /\ u \in ToSet(FirstBatch(curate[o].todo))

FilesTrue == ToolsTypeOK /\ DoneHadRow /\ ListedHadRow

LEMMA FilesAreTrue == FilesTrue => ProgressIsTrue
<1> SUFFICES ASSUME FilesTrue
             PROVE  ProgressIsTrue
  OBVIOUS
<1>1. \A u \in Username : stored[u] # "absent" => HasRow(u) \/ RowTakenAway(u)
  BY RowKnown DEF FilesTrue, ToolsTypeOK
<1>2. \A u \in Username : Recommends[u] \subseteq Username
  BY RecommendedAssumption
<1>3. DoneIsStored
  BY <1>1 DEF FilesTrue, DoneHadRow, DoneIsStored
<1>4. DiscoveriesListed
  BY <1>1, <1>2 DEF FilesTrue, ListedHadRow, DiscoveriesListed
<1> QED  BY <1>3, <1>4 DEF FilesTrue, ProgressIsTrue

\* What a run is about to write as done has been done as well.
FollowTrue(o) ==
  \A u \in Username :
    \/ follow[o].status[u] \in {"done", "skipped_existing"}
    \/ u \in DOMAIN follow[o].result /\ follow[o].result[u] = "done"
    => stored[u] # "absent"
CurateTrue(o) ==
  \A u \in Username : curate[o].list[u].status = "done" => stored[u] # "absent"

CopiesTrue == \A o \in Operator : FollowTrue(o) /\ CurateTrue(o)

\* A run of the following pipeline, alone: its copy is the file, and it looks at and
\* scrapes usernames that are not final, each once.
FollowShape(o) ==
  LET run == follow[o] IN
  /\ run.status = progress
  /\ IsInjective(run.todo) /\ IsInjective(run.to_scrape)
  /\ ToSet(run.todo) \cap ToSet(run.to_scrape) = {}
  /\ \A u \in ToSet(run.todo) \cup ToSet(run.to_scrape) : progress[u] \notin TERMINAL_STATUSES
  /\ run.stage = "existing" => run.to_scrape = <<>>
  /\ run.stage \in {"persist", "save"} => run.todo = <<>>
  /\ run.stage = "save" => DOMAIN run.result = ToSet(FirstBatch(run.to_scrape))

FollowSound(o) ==
  follow[o].stage # "idle" =>
    FollowShape(o) /\ \A p \in Operator : follow[p].stage # "idle" => p = o

\* A run over the two CSV files, alone.  Its copy of the export is the file but for the
\* batch just scraped, its copy of the list has what the file has, and what is to be
\* scraped is pending or failed.
Final == {"done", "not_found"}
ExportSound(run) ==
  LET batch == ToSet(FirstBatch(run.todo)) IN
  /\ run.stage \in {"discover", "write_discovered"} => run.export = exported
  /\ run.stage = "write_export" => \A u \in Username \ batch : run.export[u] = exported[u]
  /\ run.stage \in {"discover", "write_export"} =>
       \A u \in ToSet(run.todo) : exported[u] \in RETRYABLE_STATUSES
  /\ run.stage = "write_discovered" =>
       \A u \in ToSet(OtherBatches(run.todo)) : exported[u] \in RETRYABLE_STATUSES
  /\ run.stage \in {"write_export", "write_discovered"} =>
       \A u \in batch : \A v \in Recommends[u] :
         run.export[u] = "done" => stored[v] # "absent" \/ u \in run.list[v].sources

ListSound(run) ==
  LET batch == ToSet(FirstBatch(run.todo)) IN
  /\ run.stage \in {"discover", "persist"} => run.list = listed
  /\ run.stage = "write_persisted" => \A u \in Username \ batch : run.list[u] = listed[u]
  /\ run.stage \in {"persist", "write_persisted"} =>
       \A u \in ToSet(run.todo) : listed[u].status \in RETRYABLE_STATUSES
  /\ \A v \in Username :
       /\ listed[v].sources \subseteq run.list[v].sources
       /\ listed[v].status \in Final => run.list[v].status = listed[v].status

CurateShape(o) ==
  IsInjective(curate[o].todo) /\ ExportSound(curate[o]) /\ ListSound(curate[o])

CurateSound(o) == o \in Running => CurateShape(o) /\ \A p \in Running : p = o

RunsSound == ~raced => \A o \in Operator : FollowSound(o) /\ CurateSound(o)

\* The files of the tool that is not used stay empty.
OneTool ==
  /\ tool = "recommended" => \A u \in Username : progress[u] = "none"
  /\ tool = "following" => \A u \in Username : listed[u].status = "absent"

ToolsInv == FilesTrue /\ CopiesTrue /\ RunsSound /\ OneTool

LEMMA ToolsInvInit == ToolsInit => ToolsInv
<1> SUFFICES ASSUME ToolsInit
             PROVE  ToolsInv
  OBVIOUS
<1>1. ProfilesTypeOK
  <2>1. 0 \in 0 .. MaxFaults
    BY CuratedAssumption
  <2>2. /\ stored \in [Username -> Presence] /\ kind \in [Username -> Kind]
        /\ asked = {} /\ raced = FALSE /\ faults = 0
    BY DEF ToolsInit, ProfilesInit, Presence
  <2> QED  BY <2>1, <2>2 DEF ProfilesTypeOK
<1>2. progress = [u \in Username |-> "none"] /\ follow = [o \in Operator |-> NoFollow]
  BY DEF ToolsInit, FollowInit
<1>3. /\ exported = [u \in Username |-> "absent"] /\ listed = [u \in Username |-> NoRow]
      /\ curate = [o \in Operator |-> NoCurate] /\ torn = {} /\ exports = 0
  BY DEF ToolsInit, RecommendInit
<1>4. FollowTypeOK
  BY <1>2, NoFollowFacts DEF FollowTypeOK, Status
<1>5. RecommendTypeOK
  <2>1. 0 \in 0 .. MaxExports
    BY RecommendedAssumption
  <2> QED  BY <1>3, <2>1, NoCurateFacts DEF RecommendTypeOK, RowStatus
<1>6. ToolsTypeOK
  BY <1>1, <1>4, <1>5 DEF ToolsInit, ToolsTypeOK
<1>7. DoneHadRow
  BY <1>2, <1>3, NoCurateFacts DEF DoneHadRow
<1>8. ListedHadRow
  BY <1>3 DEF ListedHadRow
<1>9. CopiesTrue
  <2> SUFFICES ASSUME NEW o \in Operator
               PROVE  FollowTrue(o) /\ CurateTrue(o)
    BY DEF CopiesTrue
  <2>1. follow[o] = NoFollow /\ curate[o] = NoCurate
    BY <1>2, <1>3
  <2>2. NoFollow.status = [u \in Username |-> "none"]
    BY DEF NoFollow
  <2>3. FollowTrue(o)
    BY <2>1, <2>2, NoFollowFacts DEF FollowTrue
  <2>4. CurateTrue(o)
    BY <2>1, NoCurateFacts DEF CurateTrue
  <2> QED  BY <2>3, <2>4
<1>10. RunsSound
  BY <1>2, <1>3, NoFollowFacts, NoCurateFacts DEF RunsSound, FollowSound, CurateSound, Running
<1>11. OneTool
  BY <1>2, <1>3, NoCurateFacts DEF OneTool
<1> QED  BY <1>6, <1>7, <1>8, <1>9, <1>10, <1>11 DEF ToolsInv, FilesTrue

\* A step that leaves the files and runs of a tool alone keeps what is said of them.
LEMMA CurateKept ==
  ASSUME ToolsTypeOK, UNCHANGED <<exported, listed, curate, torn>>, StoreGrows
  PROVE  /\ ListedHadRow => ListedHadRow'
         /\ \A o \in Operator : /\ CurateTrue(o) => CurateTrue(o)'
                                /\ CurateSound(o) => CurateSound(o)'
<1>1. \A u \in Username : Recommends[u] \subseteq Username
  BY RecommendedAssumption
<1>2. ListedHadRow => ListedHadRow'
  BY <1>1 DEF StoreGrows, ListedHadRow, Running
<1>3. ASSUME NEW o \in Operator
      PROVE  CurateTrue(o) => CurateTrue(o)'
  BY DEF StoreGrows, CurateTrue
<1>4. ASSUME NEW o \in Operator, CurateSound(o)
      PROVE  CurateSound(o)'
  <2>1. SUFFICES ASSUME o \in Running
                 PROVE  ExportSound(curate[o])'
    BY <1>4 DEF CurateSound, CurateShape, ListSound, Running
  <2>2. ExportSound(curate[o]) /\ ToSet(FirstBatch(curate[o].todo)) \subseteq Username
    BY <1>4, <2>1, CurateFields, BatchFacts DEF CurateSound, CurateShape, ToolsTypeOK
  <2> QED  BY <1>1, <2>2 DEF ExportSound, StoreGrows
<1> QED  BY <1>2, <1>3, <1>4

LEMMA FollowKept ==
  ASSUME UNCHANGED followVars, StoreGrows, NEW o \in Operator
  PROVE  /\ FollowTrue(o) => FollowTrue(o)'
         /\ FollowSound(o) => FollowSound(o)'
  BY DEF followVars, StoreGrows, FollowTrue, FollowSound, FollowShape

\* What is left to show of a step of one run of a tool: what it writes is true, and its
\* copy stays as it should be.
LEMMA FollowOthersKept ==
  ASSUME ToolsInv, NEW o \in Operator, OthersFollow(o), StoreGrows, ProfilesTypeOK', FollowTypeOK',
         UNCHANGED <<recommendVars, tool>>, tool = "following",
         \A u \in Username : progress'[u] \in {"done", "skipped_existing"} => stored'[u] # "absent",
         FollowTrue(o)',
         ~raced' => /\ \A p \in Operator : p # o => follow[p].stage = "idle"
                    /\ follow'[o].stage # "idle" => FollowShape(o)'
  PROVE  ToolsInv'
<1>1. ToolsTypeOK /\ DoneHadRow /\ ListedHadRow /\ CopiesTrue /\ RunsSound /\ OneTool
  BY DEF ToolsInv, FilesTrue
<1>2. ToolsTypeOK'
  BY <1>1 DEF ToolsTypeOK, recommendVars, RecommendTypeOK
<1>3. DoneHadRow'
  BY <1>1 DEF DoneHadRow, StoreGrows, recommendVars
<1>4. ListedHadRow' /\ \A p \in Operator : /\ CurateTrue(p) => CurateTrue(p)'
                                           /\ CurateSound(p) => CurateSound(p)'
  BY <1>1, CurateKept DEF recommendVars
<1>5. \A p \in Operator : p # o => FollowTrue(p)'
  BY <1>1 DEF CopiesTrue, FollowTrue, StoreGrows, OthersFollow
<1>6. CopiesTrue'
  BY <1>1, <1>4, <1>5 DEF CopiesTrue
<1>7. ASSUME ~raced'
      PROVE  \A p \in Operator : FollowSound(p)' /\ CurateSound(p)'
  <2>1. \A p \in Operator : p # o => follow'[p].stage = "idle"
    BY <1>7 DEF OthersFollow
  <2>2. \A p \in Operator : FollowSound(p)'
    BY <1>7, <2>1 DEF FollowSound
  <2>3. ~raced
    BY <1>7 DEF StoreGrows
  <2> QED  BY <1>1, <1>4, <2>2, <2>3 DEF RunsSound
<1>8. OneTool'
  BY <1>1 DEF OneTool, recommendVars
<1> QED  BY <1>2, <1>3, <1>4, <1>6, <1>7, <1>8 DEF ToolsInv, FilesTrue, RunsSound

LEMMA CurateOthersKept ==
  ASSUME ToolsInv, NEW o \in Operator, OthersCurate(o), StoreGrows, ProfilesTypeOK', RecommendTypeOK',
         UNCHANGED <<followVars, tool>>, tool = "recommended",
         \A u \in Username : listed'[u].status = "done" => stored'[u] # "absent",
         ListedHadRow', CurateTrue(o)',
         ~raced' => /\ \A p \in Running : p = o
                    /\ curate'[o].stage # "idle" => CurateShape(o)'
  PROVE  ToolsInv'
<1>1. ToolsTypeOK /\ DoneHadRow /\ CopiesTrue /\ RunsSound /\ OneTool
  BY DEF ToolsInv, FilesTrue
<1>2. ToolsTypeOK'
  BY <1>1 DEF ToolsTypeOK, followVars, FollowTypeOK
<1>3. DoneHadRow'
  BY <1>1 DEF DoneHadRow, StoreGrows, followVars
<1>4. \A p \in Operator : p # o => CurateTrue(p)'
  BY <1>1 DEF CopiesTrue, CurateTrue, StoreGrows, OthersCurate
<1>5. CopiesTrue'
  BY <1>1, <1>4, FollowKept DEF CopiesTrue
<1>6. ASSUME ~raced'
      PROVE  \A p \in Operator : FollowSound(p)' /\ CurateSound(p)'
  <2>1. \A p \in Running' : p = o
    BY <1>6 DEF OthersCurate, Running
  <2>2. \A p \in Operator : CurateSound(p)'
    BY <1>6, <2>1 DEF CurateSound, Running
  <2>3. ~raced
    BY <1>6 DEF StoreGrows
  <2> QED  BY <1>1, <2>2, <2>3, FollowKept DEF RunsSound
<1>7. OneTool'
  BY <1>1 DEF OneTool, followVars
<1> QED  BY <1>2, <1>3, <1>5, <1>6, <1>7 DEF ToolsInv, FilesTrue, RunsSound

\* One run of the following pipeline.
LEMMA FollowInvStep ==
  ASSUME ToolsInv, NEW o \in Operator, StartAnyFollowing(o) \/ FollowSteps(o) \/ FollowingCutOff(o),
         UNCHANGED <<recommendVars, tool>>, tool = "following"
  PROVE  ToolsInv'
<1>1. /\ ProfilesTypeOK /\ FollowTypeOK /\ RecommendTypeOK /\ DoneHadRow /\ FollowTrue(o)
      /\ ~raced => \A p \in Operator : FollowSound(p)
  BY DEF ToolsInv, FilesTrue, ToolsTypeOK, CopiesTrue, RunsSound
<1>2. ASSUME ~raced, follow[o].stage # "idle"
      PROVE  FollowShape(o) /\ \A p \in Operator : p # o => follow[p].stage = "idle"
  BY <1>1, <1>2 DEF FollowSound
<1>3. CASE StartAnyFollowing(o)
  <2>1. PICK force_refresh \in BOOLEAN, retry_failed \in BOOLEAN, limits \in Limits :
          StartFollowing(o, force_refresh, retry_failed, limits)
    BY <1>3 DEF StartAnyFollowing
  <2>2. /\ ProfilesTypeOK' /\ FollowTypeOK' /\ OthersFollow(o)
        /\ UNCHANGED <<progress, stored>>
        /\ raced' = (raced \/ \E p \in Operator : follow[p].stage # "idle")
        /\ follow'[o].stage \in {"existing", "precheck"} /\ follow'[o].status = progress
        /\ follow'[o].to_scrape = <<>> /\ DOMAIN follow'[o].result = {}
        /\ IsInjective(follow'[o].todo)
        /\ \A u \in ToSet(follow'[o].todo) : progress[u] \notin TERMINAL_STATUSES
    BY <1>1, <2>1, StartFollowingStep
  <2>3. StoreGrows
    BY <2>2 DEF StoreGrows
  <2>4. FollowTrue(o)'
    BY <1>1, <2>2 DEF FollowTrue, DoneHadRow
  <2>5. FollowShape(o)'
    BY <2>2, EmptyFacts DEF FollowShape
  <2> QED  BY <1>1, <2>2, <2>3, <2>4, <2>5, FollowOthersKept DEF DoneHadRow
<1>4. CASE SkipExisting(o)
  <2>1. /\ ProfilesTypeOK' /\ FollowTypeOK' /\ OthersFollow(o)
        /\ UNCHANGED <<stored, raced>> /\ follow[o].stage = "existing"
        /\ progress' = [u \in Username |-> IF u \in ToSet(follow[o].todo) /\ stored[u] = "fresh"
                                           THEN "skipped_existing" ELSE follow[o].status[u]]
        /\ \/ follow'[o] = NoFollow
           \/ /\ follow'[o].stage = "precheck" /\ follow'[o].status = progress'
              /\ follow'[o].to_scrape = follow[o].to_scrape /\ follow'[o].result = follow[o].result
              /\ ToSet(follow'[o].todo) = {u \in ToSet(follow[o].todo) : stored[u] # "fresh"}
              /\ IsInjective(follow[o].todo) => IsInjective(follow'[o].todo)
    BY <1>1, <1>4, SkipExistingStep
  <2>2. StoreGrows
    BY <2>1 DEF StoreGrows
  <2>3. \A u \in Username : progress'[u] \in {"done", "skipped_existing"} => stored'[u] # "absent"
    BY <1>1, <2>1 DEF FollowTrue
  <2>4. FollowTrue(o)'
    BY <1>1, <2>1, <2>3, NoFollowFacts DEF FollowTrue, NoFollow
  <2>5. ASSUME FollowShape(o), follow'[o].stage # "idle"
        PROVE  FollowShape(o)'
    <3>1. /\ follow'[o].stage = "precheck" /\ follow'[o].status = progress'
          /\ follow'[o].to_scrape = <<>> /\ IsInjective(follow'[o].todo)
          /\ ToSet(follow'[o].todo) = {u \in ToSet(follow[o].todo) : stored[u] # "fresh"}
      BY <2>1, <2>5, NoFollowFacts DEF FollowShape
    <3>2. \A u \in ToSet(follow'[o].todo) : progress'[u] \notin TERMINAL_STATUSES
      <4> TAKE u \in ToSet(follow'[o].todo)
      <4>1. u \in Username /\ u \in ToSet(follow[o].todo) /\ stored[u] # "fresh"
        BY <1>1, <3>1, FollowFields, ToSetType
      <4> QED  BY <2>1, <2>5, <4>1 DEF FollowShape
    <3> QED  BY <3>1, <3>2, EmptyFacts DEF FollowShape
  <2> QED  BY <1>2, <2>1, <2>2, <2>3, <2>4, <2>5, FollowOthersKept DEF StoreGrows
<1>5. CASE Precheck(o)
  <2> DEFINE u == Head(follow[o].todo)
             Outcomes == {"not_found", "precheck_failed", "passed_precheck", "skipped_low_followers"}
  <2>1. /\ ProfilesTypeOK' /\ FollowTypeOK' /\ OthersFollow(o)
        /\ UNCHANGED <<stored, raced>> /\ follow[o].stage = "precheck" /\ follow[o].todo # <<>>
        /\ follow'[o].stage = "precheck" /\ follow'[o].status = progress'
        /\ follow'[o].todo = Tail(follow[o].todo) /\ follow'[o].result = follow[o].result
        /\ \E status \in Outcomes :
             /\ progress' = [follow[o].status EXCEPT ![u] = status]
             /\ follow'[o].to_scrape = IF status = "passed_precheck"
                  THEN Append(follow[o].to_scrape, u) ELSE follow[o].to_scrape
    BY <1>1, <1>5, PrecheckStep
  <2>2. PICK status \in Outcomes :
          /\ progress' = [follow[o].status EXCEPT ![u] = status]
          /\ follow'[o].to_scrape = IF status = "passed_precheck"
               THEN Append(follow[o].to_scrape, u) ELSE follow[o].to_scrape
    BY <2>1
  <2>3. /\ follow[o].todo \in Seq(Username) /\ follow[o].to_scrape \in Seq(Username)
        /\ follow[o].status \in [Username -> Status] /\ u \in Username
        /\ ToSet(follow[o].todo) = ToSet(Tail(follow[o].todo)) \cup {u}
        /\ IsInjective(follow[o].todo) =>
             IsInjective(Tail(follow[o].todo)) /\ u \notin ToSet(Tail(follow[o].todo))
    BY <1>1, <2>1, FollowFields, ToSetTail
  <2>4. /\ ToSet(Append(follow[o].to_scrape, u)) = ToSet(follow[o].to_scrape) \cup {u}
        /\ IsInjective(follow[o].to_scrape) /\ u \notin ToSet(follow[o].to_scrape) =>
             IsInjective(Append(follow[o].to_scrape, u))
    BY <2>3, ToSetAppend, InjectiveAppend
  <2> HIDE DEF u
  <2>5. StoreGrows
    BY <2>1 DEF StoreGrows
  <2>6. \A x \in Username : progress'[x] = IF x = u THEN status ELSE follow[o].status[x]
    BY <2>2, <2>3
  <2>7. \A x \in Username : progress'[x] \in {"done", "skipped_existing"} => stored'[x] # "absent"
    BY <1>1, <2>1, <2>6 DEF FollowTrue
  <2>8. FollowTrue(o)'
    BY <1>1, <2>1, <2>7 DEF FollowTrue
  <2>9. ASSUME FollowShape(o)
        PROVE  FollowShape(o)'
    <3>1. /\ IsInjective(follow[o].todo) /\ IsInjective(follow[o].to_scrape)
          /\ ToSet(follow[o].todo) \cap ToSet(follow[o].to_scrape) = {}
          /\ \A x \in ToSet(follow[o].todo) \cup ToSet(follow[o].to_scrape) :
               follow[o].status[x] \notin TERMINAL_STATUSES
      BY <2>9 DEF FollowShape
    <3>2. /\ IsInjective(follow'[o].to_scrape)
          /\ ToSet(follow'[o].to_scrape) = IF status = "passed_precheck"
               THEN ToSet(follow[o].to_scrape) \cup {u} ELSE ToSet(follow[o].to_scrape)
      BY <2>2, <2>3, <2>4, <3>1
    <3>3. /\ IsInjective(follow'[o].todo) /\ u \notin ToSet(follow'[o].todo)
          /\ ToSet(follow'[o].todo) \cup {u} = ToSet(follow[o].todo)
      BY <2>1, <2>3, <3>1
    <3>4. ToSet(follow'[o].todo) \cap ToSet(follow'[o].to_scrape) = {}
      BY <3>1, <3>2, <3>3
    <3>5. \A x \in ToSet(follow'[o].todo) \cup ToSet(follow'[o].to_scrape) :
            progress'[x] \notin TERMINAL_STATUSES
      <4> TAKE x \in ToSet(follow'[o].todo) \cup ToSet(follow'[o].to_scrape)
      <4>1. x \in ToSet(follow[o].todo) \cup ToSet(follow[o].to_scrape)
            /\ (x = u => status = "passed_precheck")
        BY <2>3, <3>1, <3>2, <3>3
      <4>2. x \in Username
        BY <2>3, <4>1, ToSetType
      <4> QED  BY <2>6, <3>1, <4>1, <4>2 DEF TERMINAL_STATUSES
    <3> QED  BY <2>1, <3>2, <3>3, <3>4, <3>5 DEF FollowShape
  <2> QED  BY <1>2, <2>1, <2>5, <2>7, <2>8, <2>9, FollowOthersKept DEF StoreGrows
<1>6. CASE PrecheckOver(o)
  <2>1. /\ ProfilesTypeOK' /\ FollowTypeOK' /\ OthersFollow(o)
        /\ UNCHANGED <<progress, stored, raced>> /\ follow[o].stage = "precheck"
        /\ \/ follow'[o] = NoFollow
           \/ /\ follow'[o].stage = "persist" /\ follow'[o].status = follow[o].status
              /\ follow'[o].todo = <<>> /\ follow'[o].to_scrape = follow[o].to_scrape
              /\ follow'[o].result = follow[o].result
    BY <1>1, <1>6, PrecheckOverStep
  <2>2. StoreGrows
    BY <2>1 DEF StoreGrows
  <2>3. FollowTrue(o)'
    BY <1>1, <2>1, NoFollowFacts DEF FollowTrue, NoFollow
  <2>4. ASSUME FollowShape(o), follow'[o].stage # "idle"
        PROVE  FollowShape(o)'
    <3>1. /\ follow'[o].stage = "persist" /\ follow'[o].status = follow[o].status
          /\ follow'[o].todo = <<>> /\ follow'[o].to_scrape = follow[o].to_scrape
      BY <2>1, <2>4, NoFollowFacts
    <3> QED  BY <2>1, <2>4, <3>1, EmptyFacts DEF FollowShape
  <2> QED  BY <1>1, <1>2, <2>1, <2>2, <2>3, <2>4, FollowOthersKept DEF StoreGrows, DoneHadRow
<1>7. CASE ScrapeAndPersist(o)
  <2>1. /\ ProfilesTypeOK' /\ FollowTypeOK' /\ OthersFollow(o) /\ StoreGrows
        /\ UNCHANGED <<progress, raced>> /\ follow[o].stage = "persist"
        /\ follow'[o].stage = "save" /\ follow'[o].status = follow[o].status
        /\ follow'[o].todo = follow[o].todo /\ follow'[o].to_scrape = follow[o].to_scrape
        /\ DOMAIN follow'[o].result = ToSet(FirstBatch(follow[o].to_scrape))
        /\ \A u \in DOMAIN follow'[o].result : follow'[o].result[u] = "done" => stored'[u] # "absent"
    BY <1>1, <1>7, ScrapeAndPersistStep
  <2>2. FollowTrue(o)'
    BY <1>1, <2>1 DEF FollowTrue, StoreGrows
  <2>3. ASSUME FollowShape(o)
        PROVE  FollowShape(o)'
    BY <2>1, <2>3 DEF FollowShape
  <2> QED  BY <1>1, <1>2, <2>1, <2>2, <2>3, FollowOthersKept DEF StoreGrows, DoneHadRow
<1>8. CASE SaveBatch(o)
  <2>1. /\ ProfilesTypeOK' /\ FollowTypeOK' /\ OthersFollow(o)
        /\ UNCHANGED <<stored, raced>> /\ follow[o].stage = "save"
        /\ progress' = [u \in Username |-> IF u \in DOMAIN follow[o].result
                                           THEN follow[o].result[u] ELSE follow[o].status[u]]
        /\ \/ follow'[o] = NoFollow
           \/ /\ follow'[o].stage = "persist" /\ follow'[o].status = progress'
              /\ follow'[o].todo = follow[o].todo /\ DOMAIN follow'[o].result = {}
              /\ follow'[o].to_scrape = OtherBatches(follow[o].to_scrape)
    BY <1>1, <1>8, SaveBatchStep
  <2>2. StoreGrows
    BY <2>1 DEF StoreGrows
  <2>3. \A u \in Username : progress'[u] \in {"done", "skipped_existing"} => stored'[u] # "absent"
    <3> TAKE u \in Username
    <3>1. u \in DOMAIN follow[o].result => follow[o].result[u] # "skipped_existing"
      BY <1>1, FollowFields, ResultsFacts
    <3> QED  BY <1>1, <2>1, <3>1 DEF FollowTrue
  <2>4. FollowTrue(o)'
    BY <1>1, <2>1, <2>3, NoFollowFacts DEF FollowTrue, NoFollow
  <2>5. ASSUME FollowShape(o), follow'[o].stage # "idle"
        PROVE  FollowShape(o)'
    <3>1. /\ follow'[o].stage = "persist" /\ follow'[o].status = progress'
          /\ follow'[o].todo = <<>> /\ follow'[o].to_scrape = OtherBatches(follow[o].to_scrape)
      BY <2>1, <2>5, NoFollowFacts DEF FollowShape
    <3>2. /\ IsInjective(follow[o].to_scrape)
          /\ DOMAIN follow[o].result = ToSet(FirstBatch(follow[o].to_scrape))
          /\ \A u \in ToSet(follow[o].to_scrape) : follow[o].status[u] \notin TERMINAL_STATUSES
      BY <2>1, <2>5 DEF FollowShape
    <3>3. /\ IsInjective(follow'[o].to_scrape) /\ ToSet(follow'[o].to_scrape) \subseteq Username
          /\ ToSet(follow'[o].to_scrape) \subseteq ToSet(follow[o].to_scrape)
          /\ ToSet(follow'[o].to_scrape) \cap DOMAIN follow[o].result = {}
      BY <1>1, <3>1, <3>2, FollowFields, BatchFacts, ToSetType
    <3>4. \A u \in ToSet(follow'[o].to_scrape) : progress'[u] \notin TERMINAL_STATUSES
      BY <2>1, <3>2, <3>3
    <3> QED  BY <3>1, <3>3, <3>4, EmptyFacts DEF FollowShape
  <2> QED  BY <1>2, <2>1, <2>2, <2>3, <2>4, <2>5, FollowOthersKept DEF StoreGrows
<1>9. CASE FollowingCutOff(o)
  <2>1. /\ ProfilesTypeOK' /\ FollowTypeOK' /\ OthersFollow(o)
        /\ UNCHANGED <<progress, stored, raced>> /\ follow'[o] = NoFollow /\ follow[o].stage # "idle"
    BY <1>1, <1>9, FollowingCutOffStep DEF FollowingCutOff
  <2>2. StoreGrows
    BY <2>1 DEF StoreGrows
  <2>3. FollowTrue(o)'
    BY <2>1, NoFollowFacts DEF FollowTrue, NoFollow
  <2> QED  BY <1>1, <1>2, <2>1, <2>2, <2>3, NoFollowFacts, FollowOthersKept DEF StoreGrows, DoneHadRow
<1> QED  BY <1>3, <1>4, <1>5, <1>6, <1>7, <1>8, <1>9 DEF FollowSteps

\* One run of the recommended pipeline.
LEMMA CurateInvStep ==
  ASSUME ToolsInv, NEW o \in Operator,
         \/ \E retry_failed \in BOOLEAN : StartDiscovery(o, retry_failed)
         \/ \E retry_failed \in BOOLEAN : StartPersistence(o, retry_failed)
         \/ CurateSteps(o) \/ CurateCutOff(o),
         UNCHANGED <<followVars, tool>>, tool = "recommended"
  PROVE  ToolsInv'
<1>1. /\ ProfilesTypeOK /\ RecommendTypeOK /\ DoneHadRow /\ ListedHadRow /\ CurateTrue(o)
      /\ ~raced => \A p \in Operator : CurateSound(p)
  BY DEF ToolsInv, FilesTrue, ToolsTypeOK, CopiesTrue, RunsSound
<1>2. ASSUME ~raced, curate[o].stage # "idle"
      PROVE  CurateShape(o) /\ \A p \in Running : p = o
  BY <1>1, <1>2 DEF CurateSound, Running
<1> DEFINE batch == ToSet(FirstBatch(curate[o].todo))
           others == ToSet(OtherBatches(curate[o].todo))
<1>3. /\ batch \subseteq Username /\ ToSet(curate[o].todo) = batch \cup others
      /\ ToSet(curate[o].todo) \subseteq Username
      /\ IsInjective(curate[o].todo) =>
           IsInjective(OtherBatches(curate[o].todo)) /\ batch \cap others = {}
  <2>1. curate[o].todo \in Seq(Username)
    BY <1>1, CurateFields
  <2>2. ToSet(curate[o].todo) \subseteq Username
    BY <2>1, ToSetType
  <2> QED  BY <2>1, <2>2, BatchFacts
<1>4. \A u \in Username : Recommends[u] \subseteq Username
  BY RecommendedAssumption
<1>5. ASSUME NEW stage \in {"discover", "persist"}, NEW todo \in Seq(Username), Start(o, stage, todo),
             IsInjective(todo),
             stage = "discover" => \A u \in ToSet(todo) : exported[u] \in RETRYABLE_STATUSES,
             stage = "persist" => \A u \in ToSet(todo) : listed[u].status \in RETRYABLE_STATUSES
      PROVE  ToolsInv'
  <2>1. /\ ProfilesTypeOK' /\ RecommendTypeOK' /\ OthersCurate(o)
        /\ UNCHANGED <<exported, listed, torn, stored>> /\ o \notin Running
        /\ raced' = (raced \/ Running # {})
        /\ curate'[o].stage = stage /\ curate'[o].todo = todo
        /\ curate'[o].export = exported /\ curate'[o].list = listed
    BY <1>1, <1>5, StartStep
  <2>2. StoreGrows
    BY <2>1 DEF StoreGrows
  <2>3. CurateTrue(o)'
    BY <1>1, <2>1 DEF CurateTrue, DoneHadRow
  <2>4. ListedHadRow'
    BY <1>1, <1>4, <2>1 DEF ListedHadRow, OthersCurate, Running
  <2>5. ExportSound(curate[o])'
    BY <1>5, <2>1 DEF ExportSound
  <2>6. ListSound(curate[o])'
    BY <1>5, <2>1 DEF ListSound
  <2>7. CurateShape(o)'
    BY <1>5, <2>1, <2>5, <2>6 DEF CurateShape
  <2> QED  BY <1>1, <2>1, <2>2, <2>3, <2>4, <2>7, CurateOthersKept DEF DoneHadRow
<1>6. ASSUME NEW retry_failed \in BOOLEAN, StartDiscovery(o, retry_failed)
      PROVE  ToolsInv'
  <2> DEFINE S == {u \in Username : row_is_processable(exported[u], retry_failed)}
             todo == Kept(Input, S)
  <2>1. /\ todo \in Seq(Username) /\ IsInjective(todo) /\ ToSet(todo) = Username \cap S
    BY InputKept
  <2>2. \A u \in S : exported[u] \in RETRYABLE_STATUSES
    BY DEF row_is_processable, RETRYABLE_STATUSES
  <2>3. Start(o, "discover", todo)
    BY <1>6 DEF StartDiscovery
  <2> HIDE DEF S, todo
  <2> QED  BY <1>5, <2>1, <2>2, <2>3
<1>7. ASSUME NEW retry_failed \in BOOLEAN, StartPersistence(o, retry_failed)
      PROVE  ToolsInv'
  <2> DEFINE S == {u \in Username : row_is_processable(listed[u].status, retry_failed)}
             todo == Kept(Input, S)
  <2>1. /\ todo \in Seq(Username) /\ IsInjective(todo) /\ ToSet(todo) = Username \cap S
    BY InputKept
  <2>2. \A u \in S : listed[u].status \in RETRYABLE_STATUSES
    BY DEF row_is_processable, RETRYABLE_STATUSES
  <2>3. Start(o, "persist", todo)
    BY <1>7 DEF StartPersistence
  <2> HIDE DEF S, todo
  <2> QED  BY <1>5, <2>1, <2>2, <2>3
<1>8. CASE DiscoverBatch(o)
  <2>1. /\ ProfilesTypeOK' /\ RecommendTypeOK' /\ OthersCurate(o)
        /\ UNCHANGED <<exported, listed, torn, stored, raced>> /\ curate[o].stage = "discover"
        /\ curate'[o].stage = "write_export" /\ curate'[o].todo = curate[o].todo
        /\ \A u \in Username \ batch : curate'[o].export[u] = curate[o].export[u]
        /\ \A v \in Username :
             /\ curate[o].list[v].sources \subseteq curate'[o].list[v].sources
             /\ \A u \in batch : v \in Recommends[u] /\ curate'[o].export[u] = "done" =>
                  stored[v] # "absent" \/ u \in curate'[o].list[v].sources
             /\ curate[o].list[v].status # "absent" =>
                  curate'[o].list[v].status = curate[o].list[v].status
             /\ curate'[o].list[v].status = "done" => curate[o].list[v].status = "done"
    BY <1>1, <1>8, DiscoverBatchStep
  <2>2. StoreGrows
    BY <2>1 DEF StoreGrows
  <2>3. CurateTrue(o)'
    BY <1>1, <2>1 DEF CurateTrue
  <2>4. ListedHadRow'
    <3>1. \A p \in Running : curate[p].stage = "write_discovered" =>
            p \in Operator /\ curate'[p] = curate[p] /\ p \in Running'
      BY <2>1 DEF OthersCurate, Running
    <3> QED  BY <1>1, <2>1, <3>1 DEF ListedHadRow
  <2>5. ASSUME CurateShape(o)
        PROVE  CurateShape(o)'
    <3>1. /\ curate[o].export = exported /\ curate[o].list = listed /\ IsInjective(curate[o].todo)
          /\ \A u \in ToSet(curate[o].todo) : exported[u] \in RETRYABLE_STATUSES
      BY <2>1, <2>5 DEF CurateShape, ExportSound, ListSound
    <3>2. ExportSound(curate[o])'
      BY <1>3, <1>4, <2>1, <3>1 DEF ExportSound
    <3>3. ListSound(curate[o])'
      BY <2>1, <3>1 DEF ListSound, Final
    <3> QED  BY <2>1, <3>1, <3>2, <3>3 DEF CurateShape
  <2> QED  BY <1>1, <1>2, <2>1, <2>2, <2>3, <2>4, <2>5, CurateOthersKept DEF DoneHadRow
<1>9. CASE WriteExport(o)
  <2>1. /\ ProfilesTypeOK' /\ RecommendTypeOK' /\ OthersCurate(o)
        /\ UNCHANGED <<listed, torn, stored, raced>>
        /\ curate[o].stage = "write_export" /\ exported' = curate[o].export
        /\ curate'[o].stage = "write_discovered" /\ curate'[o].export = curate[o].export
        /\ curate'[o].list = curate[o].list /\ curate'[o].todo = curate[o].todo
    BY <1>1, <1>9, WriteExportStep
  <2>2. StoreGrows
    BY <2>1 DEF StoreGrows
  <2>3. CurateTrue(o)'
    BY <1>1, <2>1 DEF CurateTrue
  <2>4. ASSUME CurateShape(o)
        PROVE  /\ IsInjective(curate[o].todo) /\ ListSound(curate[o])
               /\ \A u \in Username \ batch : curate[o].export[u] = exported[u]
               /\ \A u \in others : exported[u] \in RETRYABLE_STATUSES
               /\ \A u \in batch : \A v \in Recommends[u] : curate[o].export[u] = "done" =>
                    stored[v] # "absent" \/ u \in curate[o].list[v].sources
    BY <1>3, <2>1, <2>4 DEF CurateShape, ExportSound
  <2>5. ASSUME CurateShape(o)
        PROVE  CurateShape(o)'
    <3>1. \A u \in others : exported'[u] \in RETRYABLE_STATUSES
      BY <1>3, <2>1, <2>4, <2>5
    <3>2. ExportSound(curate[o])'
      BY <1>3, <1>4, <2>1, <2>4, <2>5, <3>1 DEF ExportSound
    <3>3. ListSound(curate[o])'
      BY <2>1, <2>4, <2>5 DEF ListSound
    <3> QED  BY <2>1, <2>4, <2>5, <3>2, <3>3 DEF CurateShape
  <2>6. ListedHadRow'
    <3> SUFFICES ASSUME NEW u \in Username, NEW v \in Recommends[u], exported'[u] = "done",
                        ~raced', u \notin batch
                 PROVE  stored'[v] # "absent" \/ u \in listed'[v].sources \/ u \in torn'
      <4>1. o \in Running' /\ curate'[o].stage = "write_discovered"
            /\ ToSet(FirstBatch(curate'[o].todo)) = batch
        BY <2>1 DEF Running
      <4> QED  BY <4>1 DEF ListedHadRow
    <3>1. exported[u] = "done"
      BY <1>2, <2>1, <2>4
    <3>2. \A p \in Running : curate[p].stage # "write_discovered"
      BY <1>2, <2>1
    <3> QED  BY <1>1, <2>1, <3>1, <3>2 DEF ListedHadRow
  <2> QED  BY <1>1, <1>2, <2>1, <2>2, <2>3, <2>5, <2>6, CurateOthersKept DEF DoneHadRow
<1>10. CASE WriteList(o)
  <2>1. /\ ProfilesTypeOK' /\ RecommendTypeOK' /\ OthersCurate(o)
        /\ UNCHANGED <<exported, torn, stored, raced>>
        /\ curate[o].stage \in {"write_discovered", "write_persisted"} /\ listed' = curate[o].list
        /\ \/ curate'[o] = NoCurate
           \/ /\ curate'[o].stage = IF curate[o].stage = "write_discovered" THEN "discover"
                                    ELSE "persist"
              /\ curate'[o].todo = OtherBatches(curate[o].todo)
              /\ curate'[o].export = curate[o].export /\ curate'[o].list = curate[o].list
    BY <1>1, <1>10, WriteListStep
  <2>2. StoreGrows
    BY <2>1 DEF StoreGrows
  <2>3. \A u \in Username : listed'[u].status = "done" => stored'[u] # "absent"
    BY <1>1, <2>1 DEF CurateTrue
  <2>4. CurateTrue(o)'
    BY <1>1, <2>1, NoCurateFacts DEF CurateTrue
  <2>5. ASSUME CurateShape(o), curate'[o].stage # "idle"
        PROVE  CurateShape(o)'
    <3>1. /\ curate'[o].stage = IF curate[o].stage = "write_discovered" THEN "discover"
                                ELSE "persist"
          /\ curate'[o].todo = OtherBatches(curate[o].todo)
          /\ curate'[o].export = curate[o].export /\ curate'[o].list = curate[o].list
      BY <2>1, <2>5, NoCurateFacts
    <3>2. IsInjective(curate[o].todo) /\ ExportSound(curate[o]) /\ ListSound(curate[o])
      BY <2>5 DEF CurateShape
    <3>3. CASE curate[o].stage = "write_discovered"
      <4>1. curate[o].export = exported /\ \A u \in others : exported[u] \in RETRYABLE_STATUSES
        BY <3>2, <3>3 DEF ExportSound
      <4>2. ExportSound(curate[o])'
        BY <2>1, <3>1, <3>3, <4>1 DEF ExportSound
      <4>3. ListSound(curate[o])'
        BY <2>1, <3>1, <3>3 DEF ListSound
      <4> QED  BY <1>3, <3>1, <3>2, <4>2, <4>3 DEF CurateShape
    <3>4. CASE curate[o].stage = "write_persisted"
      <4>1. /\ \A u \in Username \ batch : curate[o].list[u] = listed[u]
            /\ \A u \in batch \cup others : listed[u].status \in RETRYABLE_STATUSES
        BY <1>3, <3>2, <3>4 DEF ListSound
      <4>2. \A u \in others : listed'[u].status \in RETRYABLE_STATUSES
        BY <1>3, <2>1, <3>2, <4>1
      <4>3. ExportSound(curate[o])'
        BY <3>1, <3>4 DEF ExportSound
      <4>4. ListSound(curate[o])'
        BY <2>1, <3>1, <3>4, <4>2 DEF ListSound
      <4> QED  BY <1>3, <3>1, <3>2, <4>3, <4>4 DEF CurateShape
    <3> QED  BY <2>1, <3>3, <3>4
  <2>6. ListedHadRow'
    <3> SUFFICES ASSUME NEW u \in Username, NEW v \in Recommends[u], exported'[u] = "done", ~raced'
                 PROVE  stored'[v] # "absent" \/ u \in listed'[v].sources \/ u \in torn'
      BY DEF ListedHadRow
    <3>1. ExportSound(curate[o]) /\ ListSound(curate[o]) /\ (\A p \in Running : p = o) /\ v \in Username
      BY <1>2, <1>4, <2>1 DEF CurateShape
    <3>2. CASE curate[o].stage = "write_discovered" /\ u \in batch
      BY <2>1, <3>1, <3>2 DEF ExportSound
    <3>3. CASE ~(curate[o].stage = "write_discovered" /\ u \in batch)
      <4>1. stored[v] # "absent" \/ u \in listed[v].sources \/ u \in torn
        BY <1>1, <2>1, <3>1, <3>3 DEF ListedHadRow
      <4>2. listed[v].sources \subseteq listed'[v].sources
        BY <2>1, <3>1 DEF ListSound
      <4> QED  BY <2>1, <4>1, <4>2
    <3> QED  BY <3>2, <3>3
  <2> QED  BY <1>2, <2>1, <2>2, <2>3, <2>4, <2>5, <2>6, CurateOthersKept
<1>11. CASE PersistBatch(o)
  <2>1. /\ ProfilesTypeOK' /\ RecommendTypeOK' /\ OthersCurate(o) /\ StoreGrows
        /\ UNCHANGED <<exported, listed, torn, raced>> /\ curate[o].stage = "persist"
        /\ curate'[o].stage = "write_persisted" /\ curate'[o].todo = curate[o].todo
        /\ \A u \in Username \ batch : curate'[o].list[u] = curate[o].list[u]
        /\ \A u \in Username :
             /\ curate'[o].list[u].sources = curate[o].list[u].sources
             /\ u \in batch /\ curate'[o].list[u].status = "done" => stored'[u] # "absent"
    BY <1>1, <1>11, PersistBatchStep
  <2>2. CurateTrue(o)'
    BY <1>1, <2>1 DEF CurateTrue, StoreGrows
  <2>3. ListedHadRow'
    <3>1. \A p \in Running : curate[p].stage = "write_discovered" =>
            curate'[p] = curate[p] /\ p \in Running'
      BY <2>1 DEF OthersCurate, Running
    <3> QED  BY <1>1, <1>4, <2>1, <3>1 DEF ListedHadRow, StoreGrows
  <2>4. ASSUME CurateShape(o)
        PROVE  CurateShape(o)'
    <3>1. /\ curate[o].list = listed /\ IsInjective(curate[o].todo)
          /\ \A u \in ToSet(curate[o].todo) : listed[u].status \in RETRYABLE_STATUSES
      BY <2>1, <2>4 DEF CurateShape, ListSound
    <3>2. ExportSound(curate[o])'
      BY <2>1 DEF ExportSound
    <3>3. \A u \in batch : listed[u].status \notin Final
      BY <1>3, <3>1 DEF Final, RETRYABLE_STATUSES
    <3>4. ListSound(curate[o])'
      BY <1>3, <2>1, <3>1, <3>3 DEF ListSound
    <3> QED  BY <2>1, <3>1, <3>2, <3>4 DEF CurateShape
  <2> QED  BY <1>1, <1>2, <2>1, <2>2, <2>3, <2>4, CurateOthersKept DEF DoneHadRow, StoreGrows
<1>12. CASE CurateCutOff(o)
  <2>1. /\ ProfilesTypeOK' /\ RecommendTypeOK' /\ OthersCurate(o)
        /\ UNCHANGED <<exported, listed, stored, raced>> /\ o \in Running /\ curate'[o] = NoCurate
        /\ torn' = IF curate[o].stage = "write_discovered" THEN torn \cup batch ELSE torn
    BY <1>1, <1>12, CurateCutOffStep
  <2>2. StoreGrows
    BY <2>1 DEF StoreGrows
  <2>3. CurateTrue(o)'
    BY <2>1, NoCurateFacts DEF CurateTrue
  <2>4. ListedHadRow'
    <3>1. \A p \in Running : curate[p].stage = "write_discovered" =>
            p = o \/ (curate'[p] = curate[p] /\ p \in Running')
      BY <2>1 DEF OthersCurate, Running
    <3> QED  BY <1>1, <2>1, <3>1 DEF ListedHadRow
  <2> QED  BY <1>1, <1>2, <2>1, <2>2, <2>3, <2>4, NoCurateFacts, CurateOthersKept DEF DoneHadRow, Running
<1> QED  BY <1>6, <1>7, <1>8, <1>9, <1>10, <1>11, <1>12 DEF CurateSteps

LEMMA ToolsInvStep == ToolsInv /\ [ToolsNext]_toolsVars => ToolsInv'
<1> SUFFICES ASSUME ToolsInv, [ToolsNext]_toolsVars
             PROVE  ToolsInv'
  OBVIOUS
<1>1. /\ ToolsTypeOK /\ DoneHadRow /\ ListedHadRow /\ CopiesTrue /\ RunsSound /\ OneTool
      /\ ProfilesTypeOK /\ FollowTypeOK /\ RecommendTypeOK
  BY DEF ToolsInv, FilesTrue, ToolsTypeOK
<1>2. ASSUME StoreGrows, UNCHANGED raced, UNCHANGED <<followVars, recommendVars, tool>>, ProfilesTypeOK'
      PROVE  ToolsInv'
  <2>1. ToolsTypeOK'
    BY <1>1, <1>2 DEF ToolsTypeOK, FollowTypeOK, RecommendTypeOK, followVars, recommendVars
  <2>2. DoneHadRow'
    BY <1>1, <1>2 DEF DoneHadRow, StoreGrows, followVars, recommendVars
  <2>3. ListedHadRow' /\ CopiesTrue' /\ RunsSound'
    BY <1>1, <1>2, CurateKept, FollowKept DEF CopiesTrue, RunsSound, recommendVars
  <2>4. OneTool'
    BY <1>1, <1>2 DEF OneTool, followVars, recommendVars
  <2> QED  BY <2>1, <2>2, <2>3, <2>4 DEF ToolsInv, FilesTrue
<1>3. CASE tool = "following" /\ FollowNext /\ UNCHANGED <<recommendVars, tool>>
  BY <1>3, FollowInvStep DEF FollowNext
<1>4. CASE tool = "recommended" /\ RecommendNext /\ UNCHANGED <<followVars, tool>>
  <2>1. CASE ExportProfiles
    <3>1. /\ ProfilesTypeOK' /\ RecommendTypeOK' /\ UNCHANGED <<listed, curate, torn, stored>>
          /\ raced' = (raced \/ Running # {})
          /\ \A u \in Username : exported'[u] \in {"pending", "absent"}
      BY <1>1, <2>1, ExportProfilesStep
    <3>2. StoreGrows
      BY <3>1 DEF StoreGrows
    <3>3. ToolsTypeOK'
      BY <1>1, <1>4, <3>1 DEF ToolsTypeOK, FollowTypeOK, followVars
    <3>4. DoneHadRow'
      BY <1>1, <1>4, <3>1 DEF DoneHadRow, followVars
    <3>5. ListedHadRow'
      BY <3>1 DEF ListedHadRow
    <3>6. CopiesTrue'
      BY <1>1, <1>4, <3>1, <3>2, FollowKept DEF CopiesTrue, CurateTrue
    <3>7. RunsSound'
      <4>1. ASSUME ~raced', NEW o \in Operator
            PROVE  FollowSound(o)' /\ CurateSound(o)'
        <5>1. ~raced /\ Running = {} /\ Running' = {}
          BY <3>1, <4>1 DEF Running
        <5> QED  BY <1>1, <1>4, <3>2, <5>1, FollowKept DEF RunsSound, CurateSound
      <4> QED  BY <4>1 DEF RunsSound
    <3>8. OneTool'
      BY <1>1, <1>4, <3>1 DEF OneTool, followVars
    <3> QED  BY <3>3, <3>4, <3>5, <3>6, <3>7, <3>8 DEF ToolsInv, FilesTrue
  <2> QED  BY <1>4, <2>1, CurateInvStep DEF RecommendNext
<1>5. CASE World /\ UNCHANGED <<followVars, recommendVars, tool>>
  BY <1>1, <1>2, <1>5, WorldStep
<1>6. CASE UNCHANGED toolsVars
  <2>1. UNCHANGED <<profileVars, followVars, recommendVars, tool>>
    BY <1>6 DEF toolsVars
  <2>2. StoreGrows /\ ProfilesTypeOK' /\ UNCHANGED raced
    BY <1>1, <2>1 DEF profileVars, StoreGrows, ProfilesTypeOK
  <2> QED  BY <1>2, <2>1, <2>2
<1> QED  BY <1>3, <1>4, <1>5, <1>6 DEF ToolsNext

(* Whenever a run of a command line tool is cut off, what it has written is true: a
   username it wrote as done or skipped has a row or had one that was taken away since, by
   an account that was stored again under a new name or by a superuser, and what an
   exported profile that is done recommends has or had a row or is listed under its name,
   but for a batch between its two writes and runs that raced. *)
THEOREM ProgressTrue == ToolsSpec => []ProgressIsTrue
<1>1. ToolsInv => ProgressIsTrue
  BY FilesAreTrue DEF ToolsInv
<1> QED  BY ToolsInvInit, ToolsInvStep, <1>1, PTL DEF ToolsSpec

(* What is final stays so: the files keep a final status and Instagram is not asked for
   the username again, for every input, limit, batch size and number of operators,
   unless two runs raced or the export begins anew. *)
THEOREM FinalStays == ToolsSpec => FinalStaysFinal
<1> DEFINE Stays(u) ==
             /\ progress[u] \in TERMINAL_STATUSES =>
                  raced' \/ (progress'[u] = progress[u] /\ u \notin asked')
             /\ listed[u].status \in {"done", "not_found"} =>
                  \/ raced'
                  \/ /\ listed'[u].status = listed[u].status
                     /\ u \in asked' => exported[u] \in RETRYABLE_STATUSES
             /\ exported[u] \in {"done", "not_found"} =>
                  exported'[u] = exported[u] \/ exports' # exports \/ raced'
<1>1. ASSUME ToolsInv, ToolsNext, NEW u \in Username
      PROVE  Stays(u)
  <2> SUFFICES ASSUME ~raced'
               PROVE  Stays(u)
    OBVIOUS
  <2>1. ProfilesTypeOK /\ FollowTypeOK /\ RecommendTypeOK /\ OneTool /\ RunsSound
    BY <1>1 DEF ToolsInv, FilesTrue, ToolsTypeOK
  <2>2. "none" \notin TERMINAL_STATUSES
    BY DEF TERMINAL_STATUSES
  <2>3. CASE World /\ UNCHANGED <<followVars, recommendVars>>
    BY <2>1, <2>3, WorldStep DEF followVars, recommendVars
  <2>4. CASE tool = "following" /\ FollowNext /\ UNCHANGED recommendVars
    <3>1. listed[u].status = "absent" /\ exported' = exported
      BY <2>1, <2>4 DEF OneTool, recommendVars
    <3>2. PICK o \in Operator : StartAnyFollowing(o) \/ FollowSteps(o) \/ FollowingCutOff(o)
      BY <2>4 DEF FollowNext
    <3>3. SUFFICES ASSUME progress[u] \in TERMINAL_STATUSES
                   PROVE  progress'[u] = progress[u] /\ u \notin asked'
      BY <3>1
    <3>4. ASSUME ~raced, follow[o].stage # "idle"
          PROVE  /\ follow[o].status = progress
                 /\ u \notin ToSet(follow[o].todo) /\ u \notin ToSet(follow[o].to_scrape)
                 /\ follow[o].stage = "save" =>
                      DOMAIN follow[o].result = ToSet(FirstBatch(follow[o].to_scrape))
      BY <2>1, <3>3, <3>4 DEF RunsSound, FollowSound, FollowShape
    <3>5. u \notin ToSet(follow[o].to_scrape) => u \notin ToSet(FirstBatch(follow[o].to_scrape))
      BY <2>1, FollowFields, BatchFacts
    <3>6. CASE StartAnyFollowing(o)
      BY <2>1, <3>6, StartFollowingStep DEF StartAnyFollowing
    <3>7. CASE SkipExisting(o)
      BY <2>1, <3>4, <3>7, SkipExistingStep
    <3>8. CASE Precheck(o)
      <4>1. /\ UNCHANGED raced /\ follow[o].stage = "precheck" /\ follow[o].todo # <<>>
            /\ asked' = {Head(follow[o].todo)}
            /\ \E status : progress' = [follow[o].status EXCEPT ![Head(follow[o].todo)] = status]
        BY <2>1, <3>8, PrecheckStep
      <4>2. Head(follow[o].todo) \in ToSet(follow[o].todo) /\ progress \in [Username -> Status]
        BY <2>1, <4>1, FollowFields, ToSetTail
      <4> QED  BY <3>4, <4>1, <4>2
    <3>9. CASE PrecheckOver(o)
      BY <2>1, <3>9, PrecheckOverStep
    <3>10. CASE ScrapeAndPersist(o)
      BY <2>1, <3>4, <3>5, <3>10, ScrapeAndPersistStep
    <3>11. CASE SaveBatch(o)
      BY <2>1, <3>4, <3>5, <3>11, SaveBatchStep
    <3>12. CASE FollowingCutOff(o)
      BY <2>1, <3>12, FollowingCutOffStep
    <3> QED  BY <3>2, <3>6, <3>7, <3>8, <3>9, <3>10, <3>11, <3>12 DEF FollowSteps
  <2>5. CASE tool = "recommended" /\ RecommendNext /\ UNCHANGED followVars
    <3>1. progress[u] = "none"
      BY <2>1, <2>5 DEF OneTool
    <3>2. SUFFICES /\ listed[u].status \in {"done", "not_found"} =>
                        /\ listed'[u].status = listed[u].status
                        /\ u \in asked' => exported[u] \in RETRYABLE_STATUSES
                   /\ exported[u] \in {"done", "not_found"} =>
                        exported'[u] = exported[u] \/ exports' # exports
      BY <2>2, <3>1
    <3>3. CASE ExportProfiles
      BY <2>1, <3>3, ExportProfilesStep
    <3>4. ASSUME NEW o \in Operator, NEW retry_failed \in BOOLEAN,
                 StartDiscovery(o, retry_failed) \/ StartPersistence(o, retry_failed)
          PROVE  UNCHANGED <<listed, exported>> /\ asked' = {}
      BY <3>4 DEF StartDiscovery, StartPersistence, Start
    <3>5. ASSUME NEW o \in Operator, CurateSteps(o) \/ CurateCutOff(o)
          PROVE  /\ listed[u].status \in {"done", "not_found"} =>
                      /\ listed'[u].status = listed[u].status
                      /\ u \in asked' => exported[u] \in RETRYABLE_STATUSES
                 /\ exported[u] \in {"done", "not_found"} => exported'[u] = exported[u]
      <4>1. ASSUME ~raced, curate[o].stage # "idle"
            PROVE  ExportSound(curate[o]) /\ ListSound(curate[o])
        BY <2>1, <4>1 DEF RunsSound, CurateSound, CurateShape, Running
      <4>2. \A x \in ToSet(FirstBatch(curate[o].todo)) : x \in ToSet(curate[o].todo)
        BY <2>1, CurateFields, BatchFacts
      <4>3. CASE DiscoverBatch(o)
        <5>1. /\ UNCHANGED <<exported, listed, raced>> /\ curate[o].stage = "discover"
              /\ asked' = ToSet(FirstBatch(curate[o].todo))
          BY <2>1, <4>3, DiscoverBatchStep
        <5>2. ExportSound(curate[o])
          BY <4>1, <5>1
        <5> QED  BY <4>2, <5>1, <5>2 DEF ExportSound
      <4>4. CASE WriteExport(o)
        <5>1. /\ UNCHANGED <<listed, raced>> /\ curate[o].stage = "write_export" /\ asked' = {}
              /\ exported' = curate[o].export
          BY <2>1, <4>4, WriteExportStep
        <5>2. ExportSound(curate[o])
          BY <4>1, <5>1
        <5>3. exported[u] \in {"done", "not_found"} => u \notin ToSet(FirstBatch(curate[o].todo))
          BY <4>2, <5>1, <5>2 DEF ExportSound, RETRYABLE_STATUSES
        <5> QED  BY <5>1, <5>2, <5>3 DEF ExportSound
      <4>5. CASE WriteList(o)
        <5>1. /\ UNCHANGED <<exported, raced>> /\ curate[o].stage # "idle" /\ asked' = {}
              /\ listed' = curate[o].list
          BY <2>1, <4>5, WriteListStep
        <5>2. ListSound(curate[o])
          BY <4>1, <5>1
        <5> QED  BY <5>1, <5>2 DEF ListSound, Final
      <4>6. CASE PersistBatch(o)
        <5>1. /\ UNCHANGED <<exported, listed, raced>> /\ curate[o].stage = "persist"
              /\ asked' = ToSet(FirstBatch(curate[o].todo))
          BY <2>1, <4>6, PersistBatchStep
        <5>2. ListSound(curate[o])
          BY <4>1, <5>1
        <5> QED  BY <4>2, <5>1, <5>2 DEF ListSound, RETRYABLE_STATUSES
      <4>7. CASE CurateCutOff(o)
        BY <2>1, <4>7, CurateCutOffStep
      <4> QED  BY <3>5, <4>3, <4>4, <4>5, <4>6, <4>7 DEF CurateSteps
    <3> QED  BY <2>5, <3>3, <3>4, <3>5 DEF RecommendNext
  <2> QED  BY <1>1, <2>3, <2>4, <2>5 DEF ToolsNext
<1>2. ToolsInv /\ [ToolsNext]_toolsVars => [\A u \in Username : Stays(u)]_toolsVars
  BY <1>1
<1> QED  BY ToolsInvInit, ToolsInvStep, <1>2, PTL DEF ToolsSpec, FinalStaysFinal
=============================================================================
