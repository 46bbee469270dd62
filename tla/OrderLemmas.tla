------------------------------ MODULE OrderLemmas ------------------------------
(***************************************************************************)
(* Lemmas about order that the proofs of the components share: the least   *)
(* element of a finite set of integers (the modules take the first tool,   *)
(* the lowest id or the next index with Min), and the operator Subsequence *)
(* (the modules filter their queues with it).                              *)
(***************************************************************************)
EXTENDS Integers, FiniteSets, FiniteSetsExt, SequencesExt, Subsequence,
        FiniteSetTheorems, SequenceTheorems, TLAPS

-----------------------------------------------------------------------------
(* Least elements.                                                         *)

LEMMA LeastExists ==
  ASSUME NEW S, IsFiniteSet(S), NEW T \in SUBSET S, T # {}, T \subseteq Int
  PROVE  \E m \in T : \A n \in T : m <= n
<1> DEFINE UpTo(t) == {n \in T : n <= t}
<1> DEFINE Family == {UpTo(t) : t \in T}
<1>1. IsWellFoundedOn(StrictSubsetOrdering(S), FiniteSubsetsOf(S))
  BY FS_StrictSubsetOrderingWellFounded
<1>2. Family \subseteq FiniteSubsetsOf(S)
  <2>1. ASSUME NEW t \in T PROVE UpTo(t) \subseteq S /\ IsFiniteSet(UpTo(t))
    BY FS_Subset
  <2> QED BY <2>1 DEF FiniteSubsetsOf
<1>3. Family # {}
  OBVIOUS
<1>4. PICK x \in Family : \A y \in Family : <<y, x>> \notin StrictSubsetOrdering(S)
  <2> HIDE DEF Family
  <2> QED BY <1>1, <1>2, <1>3, WFMin
<1>5. PICK m \in T : x = UpTo(m)
  OBVIOUS
<1>6. ASSUME NEW n \in T, n < m PROVE FALSE
  <2>1. m \in UpTo(m) /\ m \notin UpTo(n)
    BY <1>6
  <2>2. ASSUME NEW k \in UpTo(n) PROVE k \in UpTo(m)
    <3>1. k \in Int /\ n \in Int /\ m \in Int /\ k <= n /\ k \in T
      BY <2>2
    <3> QED BY <3>1, <1>6
  <2>3. UpTo(n) \in SUBSET S /\ UpTo(m) \in SUBSET S
    OBVIOUS
  <2>4. <<UpTo(n), UpTo(m)>> \in StrictSubsetOrdering(S)
    <3> HIDE DEF UpTo
    <3> QED BY <2>1, <2>2, <2>3 DEF StrictSubsetOrdering
  <2> QED BY <2>4, <1>4, <1>5
<1>7. ASSUME NEW n \in T PROVE m <= n
  BY <1>6
<1> QED BY <1>7

\* Min returns it.
LEMMA MinIsLeast ==
  ASSUME NEW S, IsFiniteSet(S), NEW T \in SUBSET S, T # {}, T \subseteq Int
  PROVE  Min(T) \in T /\ \A n \in T : Min(T) <= n
BY LeastExists DEF Min

-----------------------------------------------------------------------------
(* The set of the elements of a sequence.                                  *)

\* Every element is in the set the sequence is over.
LEMMA SetOfSeq ==
  ASSUME NEW C, NEW s \in Seq(C)
  PROVE  ToSet(s) \subseteq C
BY LenProperties DEF ToSet

\* The first one is an element.
LEMMA SetOfHead ==
  ASSUME NEW C, NEW s \in Seq(C), s # << >>
  PROVE  Head(s) \in ToSet(s) /\ Len(s) \in Nat \ {0} /\ Head(s) = s[1]
BY LenProperties, EmptySeq DEF ToSet

\* A concatenation has the elements of both.
LEMMA SetOfConcat ==
  ASSUME NEW C, NEW s \in Seq(C), NEW t \in Seq(C)
  PROVE  ToSet(s \o t) = ToSet(s) \cup ToSet(t)
<1>1. ToSet(s \o t) = Range(s \o t) /\ ToSet(s) = Range(s) /\ ToSet(t) = Range(t)
  BY DEF ToSet, Range
<1> QED BY <1>1, RangeConcatenation

\* A sequence of one element has that one.
LEMMA SetOfOne ==
  ASSUME NEW C, NEW e \in C
  PROVE  <<e>> \in Seq(C) /\ ToSet(<<e>>) = {e} /\ IsInjective(<<e>>)
BY DEF ToSet, IsInjective

\* An element at the end joins the others, ...
LEMMA SetOfConcatOne ==
  ASSUME NEW C, NEW s \in Seq(C), NEW e \in C
  PROVE  ToSet(s \o <<e>>) = ToSet(s) \cup {e}
<1> DEFINE one == <<e>>
<1>1. one \in Seq(C) /\ ToSet(one) = {e}
  BY SetOfOne
<1> HIDE DEF one
<1>2. ToSet(s \o one) = ToSet(s) \cup ToSet(one)
  BY <1>1, SetOfConcat
<1> QED BY <1>1, <1>2 DEF one

\* ... however it is put there.
LEMMA SetOfAppend ==
  ASSUME NEW C, NEW s \in Seq(C), NEW e \in C
  PROVE  ToSet(Append(s, e)) = ToSet(s) \cup {e}
<1>1. Append(s, e) = s \o <<e>>
  BY AppendIsConcat
<1> QED BY <1>1, SetOfConcatOne

\* Two sequences in which nothing occurs twice, without a common element, make one
\* in which nothing does.
LEMMA ConcatIsInjective ==
  ASSUME NEW C, NEW s \in Seq(C), NEW t \in Seq(C),
         IsInjective(s), IsInjective(t), ToSet(s) \cap ToSet(t) = {}
  PROVE  IsInjective(s \o t)
<1>1. /\ DOMAIN (s \o t) = 1..(Len(s) + Len(t)) /\ Len(s) \in Nat /\ Len(t) \in Nat
      /\ DOMAIN s = 1..Len(s) /\ DOMAIN t = 1..Len(t)
  BY LenProperties, ConcatProperties
<1>2. ASSUME NEW i \in DOMAIN (s \o t), NEW j \in DOMAIN (s \o t), i <= j,
             (s \o t)[i] = (s \o t)[j]
      PROVE  i = j
  <2>1. i \in 1..(Len(s) + Len(t)) /\ j \in 1..(Len(s) + Len(t))
    BY <1>1
  <2>2. /\ (s \o t)[i] = IF i <= Len(s) THEN s[i] ELSE t[i - Len(s)]
        /\ (s \o t)[j] = IF j <= Len(s) THEN s[j] ELSE t[j - Len(s)]
    BY <2>1, ConcatProperties
  <2>3. CASE j <= Len(s)
    <3>1. i \in DOMAIN s /\ j \in DOMAIN s /\ s[i] = s[j]
      BY <2>1, <2>2, <2>3, <1>1, <1>2
    <3> QED BY <3>1 DEF IsInjective
  <2>4. CASE i > Len(s)
    <3>1. i - Len(s) \in DOMAIN t /\ j - Len(s) \in DOMAIN t /\ t[i - Len(s)] = t[j - Len(s)]
      BY <2>1, <2>2, <2>4, <1>1, <1>2
    <3>2. i - Len(s) = j - Len(s)
      BY <3>1 DEF IsInjective
    <3> QED BY <3>2, <2>1, <1>1
  <2>5. CASE i <= Len(s) /\ j > Len(s)
    <3>1. i \in DOMAIN s /\ j - Len(s) \in DOMAIN t /\ s[i] = t[j - Len(s)]
      BY <2>1, <2>2, <2>5, <1>1, <1>2
    <3>2. s[i] \in ToSet(s) /\ t[j - Len(s)] \in ToSet(t)
      BY <3>1 DEF ToSet
    <3> QED BY <3>1, <3>2
  <2> QED BY <2>1, <2>3, <2>4, <2>5, <1>1
<1>3. ASSUME NEW i \in DOMAIN (s \o t), NEW j \in DOMAIN (s \o t),
             (s \o t)[i] = (s \o t)[j]
      PROVE  i = j
  <2>1. i \in Int /\ j \in Int
    BY <1>1
  <2> QED BY <2>1, <1>2, <1>3
<1> QED BY <1>3 DEF IsInjective

\* So does an element that is appended for the first time.
LEMMA AppendIsInjective ==
  ASSUME NEW C, NEW s \in Seq(C), NEW e \in C, IsInjective(s), e \notin ToSet(s)
  PROVE  IsInjective(Append(s, e))
<1>1. Append(s, e) = s \o <<e>>
  BY AppendIsConcat
<1>2. <<e>> \in Seq(C) /\ ToSet(<<e>>) = {e} /\ IsInjective(<<e>>)
  BY SetOfOne
<1>3. ToSet(s) \cap ToSet(<<e>>) = {}
  BY <1>2
<1>4. IsInjective(s \o <<e>>)
  BY <1>2, <1>3, ConcatIsInjective
<1> QED BY <1>1, <1>4

\* What is left without the first element: the others, and not the first one again
\* when nothing occurs twice.
LEMMA TailIsInjective ==
  ASSUME NEW C, NEW s \in Seq(C), s # << >>, IsInjective(s)
  PROVE  /\ Tail(s) \in Seq(C) /\ IsInjective(Tail(s))
         /\ ToSet(Tail(s)) = ToSet(s) \ {Head(s)}
<1>1. /\ Tail(s) \in Seq(C) /\ Len(Tail(s)) = Len(s) - 1
      /\ \A i \in 1..Len(Tail(s)) : Tail(s)[i] = s[i + 1]
  BY HeadTailProperties
<1>2. /\ DOMAIN s = 1..Len(s) /\ Len(s) \in Nat \ {0} /\ Head(s) = s[1]
      /\ DOMAIN Tail(s) = 1..(Len(s) - 1)
  BY <1>1, SetOfHead, LenProperties
<1>3. \A i \in DOMAIN Tail(s) : i + 1 \in DOMAIN s /\ Tail(s)[i] = s[i + 1] /\ i \in Nat
  BY <1>1, <1>2
<1>4. ASSUME NEW i \in DOMAIN Tail(s), NEW j \in DOMAIN Tail(s), Tail(s)[i] = Tail(s)[j]
      PROVE  i = j
  <2>1. i + 1 = j + 1
    BY <1>3, <1>4 DEF IsInjective
  <2> QED BY <2>1, <1>3
<1>5. ASSUME NEW x \in ToSet(Tail(s)) PROVE x \in ToSet(s) \ {Head(s)}
  <2>1. PICK i \in DOMAIN Tail(s) : x = Tail(s)[i]
    BY DEF ToSet
  <2>2. x = s[i + 1] /\ i + 1 \in DOMAIN s /\ i + 1 # 1 /\ 1 \in DOMAIN s
    BY <2>1, <1>2, <1>3
  <2>3. s[i + 1] # s[1]
    BY <2>2 DEF IsInjective
  <2> QED BY <2>2, <2>3, <1>2 DEF ToSet
<1>6. ASSUME NEW x \in ToSet(s) \ {Head(s)} PROVE x \in ToSet(Tail(s))
  <2>1. PICK i \in DOMAIN s : x = s[i]
    BY DEF ToSet
  <2>2. i - 1 \in DOMAIN Tail(s) /\ (i - 1) + 1 = i
    BY <2>1, <1>2, <1>6
  <2>3. Tail(s)[i - 1] = x
    BY <2>1, <2>2, <1>3
  <2> QED BY <2>2, <2>3 DEF ToSet
<1> QED BY <1>1, <1>4, <1>5, <1>6 DEF IsInjective

\* A sequence is its front and its last element.
LEMMA SetOfFront ==
  ASSUME NEW C, NEW s \in Seq(C), s # << >>
  PROVE  /\ Front(s) \in Seq(C) /\ Last(s) \in C
         /\ ToSet(s) = ToSet(Front(s)) \cup {Last(s)}
<1>1. Len(s) \in Nat \ {0} /\ DOMAIN s = 1..Len(s)
  BY LenProperties, EmptySeq
<1>2. \A i \in 1..(Len(s) - 1) : s[i] \in C
  BY <1>1, ElementOfSeq
<1>3. Front(s) \in Seq(C)
  BY <1>1, <1>2, SubSeqProperties DEF Front
<1>4. Last(s) \in C
  BY <1>1, ElementOfSeq DEF Last
<1>5. s = Front(s) \o <<Last(s)>>
  <2>1. Len(s) \in 1..Len(s) /\ 1 \in 1..Len(s)
    BY <1>1
  <2>2. SubSeq(s, 1, Len(s)) = SubSeq(s, 1, Len(s) - 1) \o <<s[Len(s)]>>
    BY <2>1, SubSeqRecursiveSecond
  <2>3. SubSeq(s, 1, Len(s)) = s
    BY SubSeqFull
  <2> QED BY <2>2, <2>3 DEF Front, Last
<1>6. ToSet(Front(s) \o <<Last(s)>>) = ToSet(Front(s)) \cup {Last(s)}
  BY <1>3, <1>4, SetOfConcatOne
<1> QED BY <1>3, <1>4, <1>5, <1>6

-----------------------------------------------------------------------------
(* Subsequences.                                                           *)

\* Of two numbers of a finite set the greater has the higher rank.
LEMMA RankGrows ==
  ASSUME NEW K, IsFiniteSet(K), K \subseteq Int, NEW i \in K, NEW j \in K, i < j
  PROVE  Rank(K, i) \in 1..Cardinality(K) /\ Rank(K, i) < Rank(K, j)
<1> DEFINE UpTo(k) == {h \in K : h <= k}
<1>1. UpTo(i) \subseteq UpTo(j) /\ UpTo(j) \subseteq K
  <2>1. ASSUME NEW h \in UpTo(i) PROVE h \in UpTo(j)
    <3>1. h \in Int /\ i \in Int /\ j \in Int /\ h <= i /\ h \in K
      BY <2>1
    <3> QED BY <3>1
  <2> QED BY <2>1
<1>2. i \in UpTo(i) /\ j \in UpTo(j) /\ j \notin UpTo(i)
  <2>1. i \in Int /\ j \in Int
    OBVIOUS
  <2> QED BY <2>1
<1> HIDE DEF UpTo
<1>3. /\ IsFiniteSet(UpTo(j)) /\ IsFiniteSet(UpTo(i))
      /\ Cardinality(UpTo(i)) <= Cardinality(UpTo(j))
      /\ Cardinality(UpTo(i)) # Cardinality(UpTo(j))
  <2>1. IsFiniteSet(UpTo(j))
    BY <1>1, FS_Subset
  <2> QED BY <2>1, <1>1, <1>2, FS_Subset
<1>4. Cardinality(UpTo(i)) \in Nat /\ Cardinality(UpTo(j)) \in Nat /\ Cardinality(K) \in Nat
  BY <1>3, FS_CardinalityType
<1>5. Cardinality(UpTo(i)) # 0
  BY <1>2, <1>3, FS_EmptySet
<1>6. Cardinality(UpTo(j)) <= Cardinality(K)
  BY <1>1, FS_Subset
<1> QED BY <1>3, <1>4, <1>5, <1>6 DEF Rank, UpTo

\* The rank of an element is between one and the number of elements.
LEMMA RankBounds ==
  ASSUME NEW K, IsFiniteSet(K), K \subseteq Int, NEW i \in K
  PROVE  Rank(K, i) \in 1..Cardinality(K)
<1> DEFINE UpTo == {h \in K : h <= i}
<1>1. UpTo \subseteq K /\ i \in UpTo
  OBVIOUS
<1>2. Rank(K, i) = Cardinality(UpTo)
  BY DEF Rank
<1> HIDE DEF UpTo
<1>3. /\ IsFiniteSet(UpTo) /\ Cardinality(UpTo) <= Cardinality(K)
      /\ Cardinality(UpTo) \in Nat /\ Cardinality(K) \in Nat
  BY <1>1, FS_Subset, FS_CardinalityType
<1>4. Cardinality(UpTo) # 0
  BY <1>1, <1>3, FS_EmptySet
<1> QED BY <1>2, <1>3, <1>4

\* Two elements do not share a rank.
LEMMA RankIsInjective ==
  ASSUME NEW K, IsFiniteSet(K), K \subseteq Int, NEW i \in K, NEW j \in K,
         Rank(K, i) = Rank(K, j)
  PROVE  i = j
<1>1. Rank(K, i) \in 1..Cardinality(K)
  BY RankBounds
<1>2. Rank(K, i) \in Int
  <2>1. Cardinality(K) \in Nat
    BY FS_CardinalityType
  <2> QED BY <1>1, <2>1
<1>3. ASSUME i < j PROVE FALSE
  <2>1. Rank(K, i) < Rank(K, j)
    BY <1>3, RankGrows
  <2> QED BY <2>1, <1>2
<1>4. ASSUME j < i PROVE FALSE
  <2>1. Rank(K, j) < Rank(K, i)
    BY <1>4, RankGrows
  <2> QED BY <2>1, <1>2
<1>5. i \in Int /\ j \in Int
  OBVIOUS
<1> QED BY <1>3, <1>4, <1>5

\* Every rank is that of some element: with one rank left out there would be
\* more elements than ranks.
LEMMA RankIsSurjective ==
  ASSUME NEW K, IsFiniteSet(K), K \subseteq Int, NEW n \in 1..Cardinality(K)
  PROVE  \E i \in K : Rank(K, i) = n
<1> SUFFICES ASSUME \A i \in K : Rank(K, i) # n PROVE FALSE
  OBVIOUS
<1> DEFINE f == [i \in K |-> Rank(K, i)]
<1> DEFINE T == (1..Cardinality(K)) \ {n}
<1>1. f \in [K -> T]
  <2>1. \A i \in K : Rank(K, i) \in T
    BY RankBounds
  <2> QED BY <2>1
<1>2. Cardinality(K) \in Nat
  BY FS_CardinalityType
<1>3. IsFiniteSet(T) /\ Cardinality(T) < Cardinality(K)
  <2>1. IsFiniteSet(1..Cardinality(K)) /\ Cardinality(1..Cardinality(K)) = Cardinality(K)
    BY <1>2, FS_Interval
  <2>2. IsFiniteSet(T) /\ Cardinality(T) = Cardinality(1..Cardinality(K)) - 1
    BY <2>1, FS_RemoveElement
  <2> QED BY <2>1, <2>2, <1>2
<1>4. PICK i, j \in K : i # j /\ f[i] = f[j]
  <2> HIDE DEF f, T
  <2> QED BY <1>1, <1>3, FS_PigeonHole
<1> QED BY <1>4, RankIsInjective

\* f has the positions, m of them, that s has elements of S at, in order.
Places(f, m, s, S) ==
  /\ f \in [1..m -> DOMAIN s]
  /\ \A n \in 1..m : s[f[n]] \in S
  /\ \A n, h \in 1..m : n < h => f[n] < f[h]
  /\ \A i \in DOMAIN s : s[i] \in S => \E n \in 1..m : f[n] = i

\* A subsequence reads its sequence at growing positions, all those with an
\* element of S.
LEMMA SubsequencePlaces ==
  ASSUME NEW C, NEW s \in Seq(C), NEW S
  PROVE  \E m \in Nat : \E f : /\ Places(f, m, s, S)
                              /\ Subsequence(s, S) = [n \in 1..m |-> s[f[n]]]
<1> DEFINE K == {i \in DOMAIN s : s[i] \in S}
<1> DEFINE m == Cardinality(K)
<1> DEFINE f == [n \in 1..m |-> CHOOSE i \in K : Rank(K, i) = n]
<1>1. DOMAIN s = 1..Len(s) /\ Len(s) \in Nat
  BY LenProperties
<1>2. K \subseteq DOMAIN s /\ K \subseteq Int
  BY <1>1
<1>3. IsFiniteSet(K)
  <2>1. IsFiniteSet(DOMAIN s)
    BY <1>1, FS_Interval
  <2> QED BY <1>2, <2>1, FS_Subset
<1>4. m \in Nat
  BY <1>3, FS_CardinalityType
<1>5. \A n \in 1..m : f[n] \in K /\ Rank(K, f[n]) = n
  <2> HIDE DEF K
  <2> TAKE n \in 1..m
  <2>1. \E i \in K : Rank(K, i) = n
    BY <1>2, <1>3, RankIsSurjective
  <2> QED BY <2>1
<1>6. Subsequence(s, S) = [n \in 1..m |-> s[f[n]]]
  BY DEF Subsequence, Selected
<1>7. ASSUME NEW n \in 1..m, NEW h \in 1..m, n < h PROVE f[n] < f[h]
  <2> HIDE DEF K, f
  <2>1. f[n] \in K /\ f[h] \in K /\ f[n] \in Int /\ f[h] \in Int
    BY <1>2, <1>5
  <2>2. ~(f[h] < f[n])
    BY <2>1, <1>2, <1>3, <1>5, <1>7, RankGrows
  <2>3. f[h] # f[n]
    BY <1>5, <1>7
  <2> QED BY <2>1, <2>2, <2>3
<1>8. ASSUME NEW i \in DOMAIN s, s[i] \in S PROVE \E n \in 1..m : f[n] = i
  <2>1. i \in K
    BY <1>8
  <2> HIDE DEF K, f
  <2>2. Rank(K, i) \in 1..m
    BY <2>1, <1>2, <1>3, RankBounds
  <2>3. f[Rank(K, i)] = i
    BY <2>1, <2>2, <1>5, <1>2, <1>3, RankIsInjective
  <2> QED BY <2>2, <2>3
<1>9. f \in [1..m -> DOMAIN s] /\ \A n \in 1..m : s[f[n]] \in S
  <2>1. \A n \in 1..m : f[n] \in DOMAIN s /\ s[f[n]] \in S
    BY <1>5
  <2> QED BY <2>1
<1> HIDE DEF f, m
<1> QED BY <1>4, <1>6, <1>7, <1>8, <1>9 DEF Places

\* It is a sequence of the same elements.
LEMMA SubsequenceType ==
  ASSUME NEW C, NEW s \in Seq(C), NEW S
  PROVE  Subsequence(s, S) \in Seq(C)
<1>0. PICK m \in Nat : \E f : /\ Places(f, m, s, S)
                             /\ Subsequence(s, S) = [n \in 1..m |-> s[f[n]]]
  BY SubsequencePlaces
<1>1. PICK f : Places(f, m, s, S) /\ Subsequence(s, S) = [n \in 1..m |-> s[f[n]]]
  BY <1>0
<1>2. Subsequence(s, S) = [n \in 1..m |-> s[f[n]]]
  BY <1>1
<1> USE <1>1 DEF Places
<1> QED BY <1>2

\* It has the elements of the sequence that are in S, no others.
LEMMA SubsequenceElements ==
  ASSUME NEW C, NEW s \in Seq(C), NEW S
  PROVE  ToSet(Subsequence(s, S)) = ToSet(s) \cap S
<1>0. PICK m \in Nat : \E f : /\ Places(f, m, s, S)
                             /\ Subsequence(s, S) = [n \in 1..m |-> s[f[n]]]
  BY SubsequencePlaces
<1>1. PICK f : Places(f, m, s, S) /\ Subsequence(s, S) = [n \in 1..m |-> s[f[n]]]
  BY <1>0
<1>2. Subsequence(s, S) = [n \in 1..m |-> s[f[n]]]
  BY <1>1
<1> USE <1>1 DEF Places
<1>3. ASSUME NEW x \in ToSet(Subsequence(s, S)) PROVE x \in ToSet(s) \cap S
  <2>1. PICK n \in 1..m : x = s[f[n]]
    BY <1>2 DEF ToSet
  <2> QED BY <2>1 DEF ToSet
<1>4. ASSUME NEW x \in ToSet(s) \cap S PROVE x \in ToSet(Subsequence(s, S))
  <2>1. PICK i \in DOMAIN s : s[i] = x
    BY DEF ToSet
  <2>2. PICK n \in 1..m : f[n] = i
    BY <2>1
  <2> QED BY <2>1, <2>2, <1>2 DEF ToSet
<1> QED BY <1>3, <1>4

\* Nothing occurs twice in it that did not in the sequence.
LEMMA SubsequenceIsInjective ==
  ASSUME NEW C, NEW s \in Seq(C), NEW S, IsInjective(s)
  PROVE  IsInjective(Subsequence(s, S))
<1>0. PICK m \in Nat : \E f : /\ Places(f, m, s, S)
                             /\ Subsequence(s, S) = [n \in 1..m |-> s[f[n]]]
  BY SubsequencePlaces
<1>1. PICK f : Places(f, m, s, S) /\ Subsequence(s, S) = [n \in 1..m |-> s[f[n]]]
  BY <1>0
<1>2. Subsequence(s, S) = [n \in 1..m |-> s[f[n]]]
  BY <1>1
<1> USE <1>1 DEF Places
<1>3. DOMAIN s \subseteq Int
  BY LenProperties
<1>4. ASSUME NEW n \in 1..m, NEW h \in 1..m, s[f[n]] = s[f[h]] PROVE n = h
  <2>1. f[n] = f[h]
    BY <1>4 DEF IsInjective
  <2>2. ~(n < h) /\ ~(h < n)
    BY <2>1, <1>2, <1>3
  <2> QED BY <2>2
<1> QED BY <1>2, <1>4 DEF IsInjective

\* If the first element is in S, it stays the first.
LEMMA SubsequenceHead ==
  ASSUME NEW C, NEW s \in Seq(C), s # << >>, NEW S, Head(s) \in S
  PROVE  Subsequence(s, S) # << >> /\ Head(Subsequence(s, S)) = Head(s)
<1>0. PICK m \in Nat : \E f : /\ Places(f, m, s, S)
                             /\ Subsequence(s, S) = [n \in 1..m |-> s[f[n]]]
  BY SubsequencePlaces
<1>1. PICK f : Places(f, m, s, S) /\ Subsequence(s, S) = [n \in 1..m |-> s[f[n]]]
  BY <1>0
<1>2. Subsequence(s, S) = [n \in 1..m |-> s[f[n]]]
  BY <1>1
<1> USE <1>1 DEF Places
<1>3. DOMAIN s = 1..Len(s) /\ Len(s) \in Nat \ {0}
  BY LenProperties, EmptySeq
<1>4. 1 \in DOMAIN s /\ Head(s) = s[1]
  BY <1>3
<1>5. PICK n \in 1..m : f[n] = 1
  BY <1>2, <1>4
<1>6. ASSUME 1 < n PROVE FALSE
  <2>1. 1 \in 1..m
    BY <1>6
  <2>2. f[1] < f[n] /\ f[1] \in 1..Len(s)
    BY <2>1, <1>3, <1>6
  <2> QED BY <2>2, <1>3, <1>5
<1>7. 1 \in 1..m /\ f[1] = 1
  BY <1>5, <1>6
<1>8. Subsequence(s, S) \in Seq(C)
  BY SubsequenceType
<1>9. Subsequence(s, S) # << >> /\ Subsequence(s, S)[1] = s[1]
  <2>1. DOMAIN Subsequence(s, S) = 1..m /\ Subsequence(s, S)[1] = s[1]
    BY <1>2, <1>7
  <2>2. 1 \in DOMAIN Subsequence(s, S)
    BY <2>1, <1>7
  <2>3. 1 \notin DOMAIN << >>
    OBVIOUS
  <2> QED BY <2>1, <2>2, <2>3
<1>10. Head(Subsequence(s, S)) = Subsequence(s, S)[1]
  BY <1>8, <1>9
<1> QED BY <1>4, <1>9, <1>10
-----------------------------------------------------------------------------
(* Selected positions.                                                     *)

\* The sequence that has, at the rank of each position, what s has there.
LEMMA SelectedIs ==
  ASSUME NEW s, NEW K, IsFiniteSet(K), K \subseteq Int,
         NEW C, NEW r \in Seq(C), Len(r) = Cardinality(K),
         \A i \in K : r[Rank(K, i)] = s[i]
  PROVE  r = Selected(s, K)
<1>1. ASSUME NEW n \in 1..Cardinality(K)
      PROVE  r[n] = s[CHOOSE i \in K : Rank(K, i) = n]
  <2>1. \E i \in K : Rank(K, i) = n
    BY RankIsSurjective
  <2> DEFINE c == CHOOSE i \in K : Rank(K, i) = n
  <2>2. c \in K /\ Rank(K, c) = n
    BY <2>1
  <2> HIDE DEF c
  <2>3. r[n] = s[c]
    BY <2>2
  <2> QED BY <2>3 DEF c
<1>2. r = [n \in 1..Cardinality(K) |-> r[n]]
  BY LenProperties
<1> QED BY <1>1, <1>2 DEF Selected

\* It is a sequence of the elements at the positions, as many as these.
LEMMA SelectedType ==
  ASSUME NEW C, NEW s \in Seq(C), NEW K \in SUBSET DOMAIN s
  PROVE  /\ IsFiniteSet(K) /\ K \subseteq Int /\ Cardinality(K) \in Nat
         /\ Selected(s, K) \in Seq(C) /\ Len(Selected(s, K)) = Cardinality(K)
         /\ \A n \in 1..Cardinality(K) : \E i \in K : Selected(s, K)[n] = s[i]
         /\ \A i \in K : /\ Rank(K, i) \in 1..Cardinality(K)
                         /\ Selected(s, K)[Rank(K, i)] = s[i]
<1>1. DOMAIN s = 1..Len(s) /\ Len(s) \in Nat /\ K \subseteq Int
  BY LenProperties
<1>2. IsFiniteSet(K) /\ Cardinality(K) \in Nat
  <2>1. IsFiniteSet(DOMAIN s)
    BY <1>1, FS_Interval
  <2>2. IsFiniteSet(K)
    BY <2>1, FS_Subset
  <2> QED BY <2>2, FS_CardinalityType
<1> DEFINE m == Cardinality(K)
<1> DEFINE place(n) == CHOOSE i \in K : Rank(K, i) = n
<1>3. \A n \in 1..m : place(n) \in K /\ Rank(K, place(n)) = n
  <2> TAKE n \in 1..m
  <2>1. \E i \in K : Rank(K, i) = n
    BY <1>1, <1>2, RankIsSurjective
  <2> QED BY <2>1
<1>4. Selected(s, K) = [n \in 1..m |-> s[place(n)]]
  BY DEF Selected
<1> HIDE DEF place, m
<1>5. \A n \in 1..m : s[place(n)] \in C
  BY <1>1, <1>3, ElementOfSeq
<1>6. m \in Nat
  BY <1>2 DEF m
<1>7. Selected(s, K) \in Seq(C) /\ Len(Selected(s, K)) = m
  BY <1>4, <1>5, <1>6
<1>8. ASSUME NEW i \in K PROVE Rank(K, i) \in 1..m /\ Selected(s, K)[Rank(K, i)] = s[i]
  <2>1. Rank(K, i) \in 1..m
    BY <1>1, <1>2, RankBounds DEF m
  <2>2. place(Rank(K, i)) = i
    BY <1>1, <1>2, <1>3, <2>1, RankIsInjective
  <2> QED BY <1>4, <2>1, <2>2
<1>9. \A n \in 1..m : \E i \in K : Selected(s, K)[n] = s[i]
  BY <1>3, <1>4
<1> QED BY <1>1, <1>2, <1>7, <1>8, <1>9 DEF m

\* What is selected among the first k elements, and all that follow: together
\* they are what is left of s without the others.
LEMMA SelectedAndRest ==
  ASSUME NEW C, NEW s \in Seq(C), NEW k \in 0..Len(s), NEW K \in SUBSET (1..k)
  PROVE  Selected(s, K) \o SubSeq(s, k + 1, Len(s)) = Selected(s, DOMAIN s \ ((1..k) \ K))
<1> DEFINE first == Selected(s, K)
<1> DEFINE rest == SubSeq(s, k + 1, Len(s))
<1> DEFINE L == DOMAIN s \ ((1..k) \ K)
<1> DEFINE m == Cardinality(K)
<1>1. /\ DOMAIN s = 1..Len(s) /\ Len(s) \in Nat /\ k \in Nat
      /\ K \in SUBSET DOMAIN s /\ L \in SUBSET DOMAIN s /\ L \subseteq Int
  BY LenProperties
<1>2. /\ first \in Seq(C) /\ Len(first) = m /\ m \in Nat /\ IsFiniteSet(K) /\ K \subseteq Int
      /\ \A i \in K : Rank(K, i) \in 1..m /\ first[Rank(K, i)] = s[i]
  BY <1>1, SelectedType
<1>3. /\ rest \in Seq(C) /\ Len(rest) = Len(s) - k
      /\ \A i \in 1..(Len(s) - k) : rest[i] = s[k + i]
  <2>1. \A i \in (k + 1)..Len(s) : s[i] \in C
    BY <1>1, ElementOfSeq
  <2> QED BY <1>1, <2>1, SubSeqProperties
\* For i behind k, the positions up to i are K and an interval.
<1>4. ASSUME NEW i \in k..Len(s)
      PROVE  /\ IsFiniteSet(K \cup ((k + 1)..i))
             /\ Cardinality(K \cup ((k + 1)..i)) = m + (i - k)
  <2> DEFINE I == (k + 1)..i
  <2>1. i \in Int /\ k + 1 \in Int /\ k <= i
    BY <1>1
  <2>2. IsFiniteSet(I) /\ Cardinality(I) = i - k
    <3>1. IsFiniteSet(I) /\ Cardinality(I) = IF k + 1 > i THEN 0 ELSE i - (k + 1) + 1
      BY <2>1, FS_Interval
    <3> QED BY <1>1, <2>1, <3>1
  <2>3. K \cap I = {}
    BY <1>1
  <2> HIDE DEF I
  <2>4. /\ IsFiniteSet(K \cup I)
        /\ Cardinality(K \cup I) = Cardinality(K) + Cardinality(I) - Cardinality(K \cap I)
    BY <1>2, <2>2, FS_Union
  <2>5. Cardinality(K \cap I) = 0
    BY <2>3, FS_EmptySet
  <2>6. Cardinality(K \cup I) = m + (i - k)
    BY <1>1, <1>2, <2>1, <2>2, <2>4, <2>5
  <2> QED BY <2>4, <2>6 DEF I
<1>5. L = K \cup ((k + 1)..Len(s))
  <2>1. \A i \in 1..Len(s) : i \in 1..k \/ i \in (k + 1)..Len(s)
    BY <1>1
  <2>2. \A i \in (k + 1)..Len(s) : i \in 1..Len(s) /\ i \notin 1..k
    BY <1>1
  <2> QED BY <1>1, <2>1, <2>2
<1>6. IsFiniteSet(L) /\ Cardinality(L) = m + (Len(s) - k)
  <2>1. Len(s) \in k..Len(s)
    BY <1>1
  <2> QED BY <1>4, <1>5, <2>1
<1> HIDE DEF first, rest, L, m
<1>7. /\ first \o rest \in Seq(C)
      /\ Len(first \o rest) = m + (Len(s) - k)
      /\ \A j \in 1..(m + (Len(s) - k)) :
           (first \o rest)[j] = IF j <= m THEN first[j] ELSE rest[j - m]
  <2>1. first \in Seq(C) /\ rest \in Seq(C) /\ Len(first) = m /\ Len(rest) = Len(s) - k
    BY <1>2, <1>3
  <2>2. /\ first \o rest \in Seq(C) /\ Len(first \o rest) = Len(first) + Len(rest)
        /\ \A j \in 1..(Len(first) + Len(rest)) :
             (first \o rest)[j] = IF j <= Len(first) THEN first[j] ELSE rest[j - Len(first)]
    BY <2>1, ConcatProperties
  <2> QED BY <2>1, <2>2
<1>8. ASSUME NEW i \in L PROVE (first \o rest)[Rank(L, i)] = s[i]
  <2>1. CASE i \in K
    <3>1. {j \in L : j <= i} = {j \in K : j <= i}
      BY <1>1, <1>2, <1>5, <2>1
    <3>2. Rank(L, i) = Rank(K, i)
      BY <3>1 DEF Rank
    <3> QED BY <1>1, <1>2, <1>7, <2>1, <3>2
  <2>2. CASE i \in (k + 1)..Len(s)
    <3>1. {j \in L : j <= i} = K \cup ((k + 1)..i)
      BY <1>1, <1>2, <1>5, <2>2
    <3>2. Rank(L, i) = m + (i - k)
      <4>1. i \in k..Len(s)
        BY <1>1, <2>2
      <4> QED BY <1>4, <3>1, <4>1 DEF Rank
    <3>3. i - k \in 1..(Len(s) - k) /\ k + (i - k) = i
      BY <1>1, <2>2
    <3>4. rest[i - k] = s[i]
      BY <1>3, <3>3
    <3>5. /\ m + (i - k) \in 1..(m + (Len(s) - k)) /\ ~(m + (i - k) <= m)
          /\ (m + (i - k)) - m = i - k
      BY <1>1, <1>2, <3>3
    <3> QED BY <1>7, <3>2, <3>4, <3>5
  <2> QED BY <1>5, <2>1, <2>2
<1>9. first \o rest = Selected(s, L)
  <2>1. L \subseteq Int /\ IsFiniteSet(L) /\ Len(first \o rest) = Cardinality(L)
    BY <1>1, <1>6, <1>7
  <2> QED BY <1>7, <1>8, <2>1, SelectedIs
<1> QED BY <1>9 DEF first, rest, L

\* Nothing left out: the sequence itself.
LEMMA SelectedAll ==
  ASSUME NEW C, NEW s \in Seq(C)
  PROVE  Selected(s, DOMAIN s) = s
<1>1. Selected(s, {}) = << >>
  <2>1. Selected(s, {}) \in Seq(C) /\ Len(Selected(s, {})) = 0
    BY SelectedType, FS_EmptySet
  <2> QED BY <2>1, EmptySeq
<1>2. 0 \in 0..Len(s) /\ (1..0) = {}
  BY LenProperties
<1>3. Selected(s, {}) \o SubSeq(s, 0 + 1, Len(s)) = Selected(s, DOMAIN s \ ((1..0) \ {}))
  BY <1>2, SelectedAndRest
<1>4. SubSeq(s, 1, Len(s)) = s /\ << >> \o s = s
  BY SubSeqFull, ConcatEmptySeq
<1> QED BY <1>1, <1>2, <1>3, <1>4
===============================================================================
