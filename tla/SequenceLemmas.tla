---------------------------- MODULE SequenceLemmas ----------------------------
(***************************************************************************)
(* What several of the proofs need to know about numbers, sequences and    *)
(* FoldLeft.                                                               *)
(***************************************************************************)
EXTENDS Naturals, Integers, Sequences, SequencesExt, SequenceTheorems,
        WellFoundedInduction, TLAPS

\* A set of numbers has a least element.
LEMMA LeastNatural ==
    ASSUME NEW S \in SUBSET Nat, S # {}
    PROVE  \E n \in S : \A m \in S : n <= m
<1> DEFINE R == {ss \in Nat \X Nat : ss[1] < ss[2]}
<1>1. OpToRel(<, Nat) = R
  BY Zenon DEF OpToRel
<1>2. IsWellFoundedOn(R, Nat)
  BY Zenon, <1>1, NatLessThanWellFounded
<1>3. \E n \in S : \A m \in S : ~ (<<m, n>> \in R)
  <2> HIDE DEF R
  <2>1. QED
    BY Zenon, <1>2, WFMin
<1>4. PICK n \in S : \A m \in S : ~ (<<m, n>> \in R)
  BY <1>3
<1>5. ASSUME NEW m \in S
      PROVE  n <= m
  <2>1. <<m, n>> \in Nat \X Nat
    OBVIOUS
  <2>2. ~ (m < n)
    BY <1>4, <2>1
  <2>3. QED
    BY <2>2
<1>6. QED
  BY <1>5

\* Induction up to N, for a property given as the set of those that have it.
LEMMA Climb ==
    ASSUME NEW N \in Nat, NEW S, 0 \in S, \A n \in 1..N : n - 1 \in S => n \in S
    PROVE  \A n \in 0..N : n \in S
<1> DEFINE Others == {n \in 0..N : n \notin S}
<1>1. SUFFICES ASSUME Others # {}
               PROVE  FALSE
  OBVIOUS
<1>2. PICK n \in Others : \A m \in Others : n <= m
  <2>1. Others \in SUBSET Nat
    OBVIOUS
  <2> HIDE DEF Others
  <2>2. QED
    BY <1>1, <2>1, LeastNatural
<1>3. n \in 1..N /\ n - 1 \in 0..N
  OBVIOUS
<1>4. n - 1 \notin Others
  BY <1>2, <1>3
<1>5. QED
  BY <1>3, <1>4

-----------------------------------------------------------------------------
(* Sequences without some of their elements. *)

LEMMA FrontProperties ==
    ASSUME NEW S, NEW s \in Seq(S), s # <<>>
    PROVE  /\ Front(s) \in Seq(S) /\ Len(Front(s)) = Len(s) - 1
           /\ \A i \in 1..(Len(s) - 1) : Front(s)[i] = s[i]
           /\ Len(s) \in Nat \ {0} /\ Last(s) = s[Len(s)] /\ Last(s) \in S
<1>1. Len(s) \in Nat \ {0}
  BY EmptySeq
<1>2. \A i \in 1..(Len(s) - 1) : s[i] \in S
  BY <1>1, ElementOfSeq
<1>3. /\ SubSeq(s, 1, Len(s) - 1) \in Seq(S)
      /\ Len(SubSeq(s, 1, Len(s) - 1)) = IF 1 <= Len(s) - 1 THEN Len(s) - 1 - 1 + 1 ELSE 0
      /\ \A i \in 1..(Len(s) - 1 - 1 + 1) : SubSeq(s, 1, Len(s) - 1)[i] = s[1 + i - 1]
  BY <1>1, <1>2, SubSeqProperties
<1>4. s[Len(s)] \in S
  BY <1>1, ElementOfSeq
<1>5. /\ Front(s) \in Seq(S) /\ Len(Front(s)) = Len(s) - 1
      /\ \A i \in 1..(Len(s) - 1) : Front(s)[i] = s[i]
  <2>1. Front(s) = SubSeq(s, 1, Len(s) - 1)
    BY DEF Front
  <2>2. PICK n \in Nat : n = Len(s) - 1
    BY <1>1
  <2>3. QED
    BY <1>3, <2>1, <2>2
<1>6. QED
  BY <1>1, <1>4, <1>5 DEF Last

\* What is left of a sequence without one of its elements.
LEMMA RemoveAtElements ==
    ASSUME NEW S, NEW s \in Seq(S), NEW k \in 1..Len(s)
    PROVE  /\ RemoveAt(s, k) \in Seq(S) /\ Len(RemoveAt(s, k)) = Len(s) - 1
           /\ \A i \in 1..(Len(s) - 1) : RemoveAt(s, k)[i] = IF i < k THEN s[i] ELSE s[i + 1]
<1>0. /\ Len(s) \in Nat /\ \A i \in 1..Len(s) : s[i] \in S
      /\ k \in Int /\ 1 <= k /\ k <= Len(s)
  BY LenProperties, ElementOfSeq
<1>1. PICK a \in Seq(S) : /\ a = SubSeq(s, 1, k - 1) /\ Len(a) = k - 1
                          /\ \A i \in 1..(k - 1) : a[i] = s[i]
  <2>1. \A i \in 1..(k - 1) : s[i] \in S
    BY <1>0
  <2>2. /\ SubSeq(s, 1, k - 1) \in Seq(S)
        /\ Len(SubSeq(s, 1, k - 1)) = IF 1 <= k - 1 THEN k - 1 - 1 + 1 ELSE 0
        /\ \A i \in 1..(k - 1 - 1 + 1) : SubSeq(s, 1, k - 1)[i] = s[1 + i - 1]
    BY <1>0, <2>1, SubSeqProperties
  <2>3. WITNESS SubSeq(s, 1, k - 1) \in Seq(S)
  <2>4. QED
    BY <1>0, <2>2
<1>2. PICK b \in Seq(S) : /\ b = SubSeq(s, k + 1, Len(s)) /\ Len(b) = Len(s) - k
                          /\ \A i \in 1..(Len(s) - k) : b[i] = s[k + i]
  <2>1. \A i \in (k + 1)..Len(s) : s[i] \in S
    BY <1>0
  <2>2. /\ SubSeq(s, k + 1, Len(s)) \in Seq(S)
        /\ Len(SubSeq(s, k + 1, Len(s))) = IF k + 1 <= Len(s) THEN Len(s) - (k + 1) + 1 ELSE 0
        /\ \A i \in 1..(Len(s) - (k + 1) + 1) : SubSeq(s, k + 1, Len(s))[i] = s[k + 1 + i - 1]
    BY <1>0, <2>1, SubSeqProperties
  <2>3. WITNESS SubSeq(s, k + 1, Len(s)) \in Seq(S)
  <2>4. QED
    BY <1>0, <2>2
<1>3. PICK r \in Seq(S) : /\ r = a \o b /\ Len(r) = Len(s) - 1
                          /\ \A i \in 1..(Len(s) - 1) :
                                r[i] = IF i < k THEN a[i] ELSE b[i - (k - 1)]
  <2>1. /\ a \o b \in Seq(S) /\ Len(a \o b) = Len(a) + Len(b)
        /\ \A i \in 1..(Len(a) + Len(b)) :
              (a \o b)[i] = IF i <= Len(a) THEN a[i] ELSE b[i - Len(a)]
    BY ConcatProperties
  <2>2. Len(a \o b) = Len(s) - 1 /\ Len(a) + Len(b) = Len(s) - 1
    <3>1. Len(a) = k - 1 /\ Len(b) = Len(s) - k /\ Len(s) \in Int
      BY <1>0, <1>1, <1>2
    <3>2. QED
      BY <1>0, <2>1, <3>1
  <2>3. ASSUME NEW i \in 1..(Len(s) - 1)
        PROVE  (a \o b)[i] = IF i < k THEN a[i] ELSE b[i - (k - 1)]
    <3>1. (a \o b)[i] = IF i <= Len(a) THEN a[i] ELSE b[i - Len(a)]
      BY <2>1, <2>2
    <3>2. i <= Len(a) <=> i < k
      BY <1>0, <1>1
    <3>3. QED
      BY <1>1, <3>1, <3>2
  <2>4. WITNESS a \o b \in Seq(S)
  <2>5. QED
    BY <2>2, <2>3
<1>4. RemoveAt(s, k) = r
  BY <1>1, <1>2, <1>3 DEF RemoveAt
<1>5. ASSUME NEW i \in 1..(Len(s) - 1)
      PROVE  r[i] = IF i < k THEN s[i] ELSE s[i + 1]
  <2>1. CASE i < k
    <3>1. i \in 1..(k - 1)
      BY <1>0, <2>1
    <3>2. r[i] = a[i] /\ a[i] = s[i]
      BY <1>1, <1>3, <2>1, <3>1
    <3>3. QED
      BY <2>1, <3>2
  <2>2. CASE ~(i < k)
    <3>1. PICK m \in Int : m = i - (k - 1)
      BY <1>0
    <3>2. m \in 1..(Len(s) - k) /\ k + m = i + 1
      BY <1>0, <2>2, <3>1
    <3>3. r[i] = b[m] /\ b[m] = s[k + m]
      BY <1>2, <1>3, <2>2, <3>1, <3>2
    <3>4. QED
      BY <2>2, <3>2, <3>3
  <2>3. QED
    BY <2>1, <2>2
<1>6. QED
  BY <1>3, <1>4, <1>5

LEMMA RemoveAtProperties ==
    ASSUME NEW S, NEW s \in Seq(S), NEW k \in 1..Len(s)
    PROVE  /\ RemoveAt(s, k) \in Seq(S)
           /\ \A i \in 1..Len(s) : i # k =>
                 \E j \in 1..Len(RemoveAt(s, k)) : RemoveAt(s, k)[j] = s[i]
<1> DEFINE t == RemoveAt(s, k)
<1>1. /\ t \in Seq(S) /\ Len(t) = Len(s) - 1 /\ Len(s) \in Nat
      /\ \A i \in 1..(Len(s) - 1) : t[i] = IF i < k THEN s[i] ELSE s[i + 1]
  BY RemoveAtElements, LenProperties
<1> HIDE DEF t
<1>2. ASSUME NEW i \in 1..Len(s), i # k
      PROVE  \E j \in 1..Len(t) : t[j] = s[i]
  <2>1. CASE i < k
    <3>1. i \in 1..(Len(s) - 1) /\ i \in 1..Len(t)
      BY <1>1, <2>1
    <3>2. QED
      BY <1>1, <2>1, <3>1
  <2>2. CASE i > k
    <3>1. PICK j \in 1..(Len(s) - 1) : j + 1 = i /\ ~(j < k)
      <4>1. i - 1 \in 1..(Len(s) - 1) /\ (i - 1) + 1 = i /\ ~(i - 1 < k)
        BY <1>1, <2>2
      <4>2. QED
        BY <4>1
    <3>2. j \in 1..Len(t) /\ t[j] = s[i]
      BY <1>1, <3>1
    <3>3. QED
      BY <3>2
  <2>3. QED
    BY <1>2, <2>1, <2>2
<1>3. QED
  BY <1>1, <1>2 DEF t

\* RemoveFirst takes out one place that holds e, if there is one.
LEMMA RemoveFirstIsRemoveAt ==
    ASSUME NEW S, NEW s \in Seq(S), NEW e
    PROVE  /\ (~ \E i \in 1..Len(s) : s[i] = e) => RemoveFirst(s, e) = s
           /\ (\E i \in 1..Len(s) : s[i] = e) =>
                 \E k \in 1..Len(s) : s[k] = e /\ RemoveFirst(s, e) = RemoveAt(s, k)
<1>1. CASE ~ \E i \in 1..Len(s) : s[i] = e
  BY <1>1 DEF RemoveFirst
<1>2. CASE \E i \in 1..Len(s) : s[i] = e
  <2> DEFINE I == {i \in 1..Len(s) : s[i] = e}
  <2>1. I \in SUBSET Nat /\ I # {}
    BY <1>2
  <2>2. \E n \in I : \A m \in I : n <= m
    BY <2>1, LeastNatural
  <2>3. Min(I) \in I
    BY <2>2 DEF Min
  <2>4. RemoveFirst(s, e) = RemoveAt(s, Min(I))
    BY <1>2, <2>1 DEF RemoveFirst, SelectInSeq
  <2>5. PICK k \in 1..Len(s) : k = Min(I) /\ s[k] = e
    BY <2>3
  <2>6. QED
    BY <1>2, <2>4, <2>5
<1>3. QED
  BY <1>1, <1>2

\* std::find and erase take out e and nobody else.
LEMMA RemoveFirstProperties ==
    ASSUME NEW S, NEW s \in Seq(S), NEW e
    PROVE  /\ RemoveFirst(s, e) \in Seq(S)
           /\ \A i \in 1..Len(s) : s[i] # e =>
                 \E j \in 1..Len(RemoveFirst(s, e)) : RemoveFirst(s, e)[j] = s[i]
<1>1. CASE ~ \E i \in 1..Len(s) : s[i] = e
  BY <1>1, RemoveFirstIsRemoveAt
<1>2. CASE \E i \in 1..Len(s) : s[i] = e
  <2>1. PICK k \in 1..Len(s) : s[k] = e /\ RemoveFirst(s, e) = RemoveAt(s, k)
    BY <1>2, RemoveFirstIsRemoveAt
  <2>2. /\ RemoveAt(s, k) \in Seq(S)
        /\ \A i \in 1..Len(s) : i # k =>
              \E j \in 1..Len(RemoveAt(s, k)) : RemoveAt(s, k)[j] = s[i]
    BY RemoveAtProperties
  <2>3. \A i \in 1..Len(s) : s[i] # e => i # k
    BY <2>1
  <2>4. QED
    BY <2>1, <2>2, <2>3
<1>3. QED
  BY <1>1, <1>2

-----------------------------------------------------------------------------
(* Folds.  FoldLeft takes the elements by the largest index that is left,  *)
(* from a function on sets of indices.                                     *)

LEMMA MaxIsLast ==
    ASSUME NEW n \in Nat, NEW S \in SUBSET (1..(n + 1)), n + 1 \in S
    PROVE  Max(S) = n + 1 /\ S \ {n + 1} \in SUBSET (1..n)
<1>1. \A y \in S : n + 1 >= y
  OBVIOUS
<1>2. \A x \in S : (\A y \in S : x >= y) => x = n + 1
  OBVIOUS
<1>3. Max(S) = n + 1
  BY <1>1, <1>2 DEF Max
<1>4. QED
  BY <1>3

FoldOf(it, base, N, g) ==
    \A S \in SUBSET (1..N) :
        it[S] = IF S = {} THEN base ELSE g[<<Max(S), it[S \ {Max(S)}]>>]

\* Such a function exists: it is extended from the sets of the first n
\* indices to those of the first n + 1.
LEMMA FoldExists ==
    ASSUME NEW V, NEW base \in V, NEW N \in Nat, NEW g \in [(1..N) \X V -> V]
    PROVE  \E it \in [SUBSET (1..N) -> V] : FoldOf(it, base, N, g)
<1> DEFINE Works(it, n) == \A S \in SUBSET (1..n) :
              it[S] = IF S = {} THEN base ELSE g[<<Max(S), it[S \ {Max(S)}]>>]
           Good == {n \in 0..N : \E it \in [SUBSET (1..n) -> V] : Works(it, n)}
<1>1. 0 \in Good
  <2> DEFINE first == [S \in SUBSET (1..0) |-> base]
  <2>1. SUBSET (1..0) = {{}}
    <3>1. 1..0 = {}
      OBVIOUS
    <3>2. QED
      BY <3>1
  <2>2. first \in [SUBSET (1..0) -> V] /\ Works(first, 0)
    BY <2>1
  <2>3. 0 \in 0..N
    OBVIOUS
  <2> HIDE DEF first, Works
  <2>4. QED
    BY Zenon, <2>2, <2>3
<1>2. ASSUME NEW n \in 1..N, n - 1 \in Good
      PROVE  n \in Good
  <2>1. PICK it \in [SUBSET (1..(n - 1)) -> V] : Works(it, n - 1)
    BY <1>2
  <2>2. n - 1 \in Nat /\ (n - 1) + 1 = n
    OBVIOUS
  <2> DEFINE longer == [S \in SUBSET (1..n) |->
                           IF n \in S THEN g[<<n, it[S \ {n}]>>] ELSE it[S]]
  <2>3. ASSUME NEW S \in SUBSET (1..n)
        PROVE  longer[S] \in V /\ longer[S] =
                  IF S = {} THEN base ELSE g[<<Max(S), longer[S \ {Max(S)}]>>]
    <3>1. CASE n \in S
      <4>1. Max(S) = n /\ S \ {n} \in SUBSET (1..(n - 1))
        BY <2>2, <3>1, MaxIsLast
      <4>2. longer[S] = g[<<n, it[S \ {n}]>>] /\ S # {}
        BY <3>1
      <4>3. longer[S \ {n}] = it[S \ {n}] /\ it[S \ {n}] \in V
        BY <4>1
      <4>4. g[<<n, it[S \ {n}]>>] \in V
        BY <4>3
      <4> HIDE DEF longer
      <4>5. QED
        BY <4>1, <4>2, <4>3, <4>4
    <3>2. CASE n \notin S
      <4>1. S \in SUBSET (1..(n - 1)) /\ S \ {Max(S)} \in SUBSET (1..(n - 1))
        <5>1. \A x \in S : x \in 1..(n - 1)
          BY <3>2
        <5>2. QED
          BY <5>1
      <4>2. longer[S] = it[S] /\ it[S] \in V
        BY <3>2, <4>1
      <4>3. longer[S \ {Max(S)}] = it[S \ {Max(S)}]
        <5>1. S \ {Max(S)} \in SUBSET (1..n) /\ n \notin S \ {Max(S)}
          BY <3>2
        <5>2. QED
          BY <5>1
      <4>4. it[S] = IF S = {} THEN base ELSE g[<<Max(S), it[S \ {Max(S)}]>>]
        BY <2>1, <4>1
      <4> HIDE DEF longer
      <4>5. QED
        BY <4>2, <4>3, <4>4
    <3>3. QED
      BY <3>1, <3>2
  <2>4. longer \in [SUBSET (1..n) -> V]
    BY <2>3
  <2> HIDE DEF longer
  <2>5. Works(longer, n)
    BY <2>3
  <2>6. n \in 0..N
    OBVIOUS
  <2> HIDE DEF Works
  <2>7. QED
    BY Zenon, <2>4, <2>5, <2>6
<1>3. N \in Good
  <2> HIDE DEF Good
  <2>1. \A n \in 0..N : n \in Good
    BY <1>1, <1>2, Climb
  <2>2. QED
    BY <2>1
<1>4. PICK it \in [SUBSET (1..N) -> V] : Works(it, N)
  BY <1>3
<1>5. FoldOf(it, base, N, g)
  BY <1>4 DEF FoldOf
<1>6. QED
  BY Zenon, <1>5

LEMMA MaxIsIn ==
    ASSUME NEW N \in Nat, NEW S \in SUBSET (1..N), S # {}
    PROVE  Max(S) \in S
<1> DEFINE Left == {k \in Nat : \E x \in S : k = N - x}
<1>1. Left \in SUBSET Nat /\ Left # {}
  <2>1. PICK x \in S : TRUE
    OBVIOUS
  <2>2. N - x \in Nat
    OBVIOUS
  <2>3. QED
    BY <2>2
<1>2. PICK k \in Left : \A m \in Left : k <= m
  <2> HIDE DEF Left
  <2>1. QED
    BY <1>1, LeastNatural
<1>3. PICK x \in S : k = N - x
  OBVIOUS
<1>4. \A y \in S : x >= y
  <2>1. TAKE y \in S
  <2>2. N - y \in Left /\ x \in 1..N /\ y \in 1..N
    OBVIOUS
  <2>3. k <= N - y
    BY <1>2, <2>2
  <2>4. QED
    BY <1>3, <2>2, <2>3
<1>5. QED
  BY <1>4 DEF Max

\* As long as its values stay in V, such a function follows g.
Climbing(it, base, N, V, g) ==
    /\ it[{}] = base
    /\ \A S \in SUBSET (1..N) : S # {} /\ it[S \ {Max(S)}] \in V =>
          it[S] = g[<<Max(S), it[S \ {Max(S)}]>>]

Follows(path, base, N, g, result) ==
    /\ path[0] = base /\ path[N] = result
    /\ \A n \in 1..N : path[n] = g[<<n, path[n - 1]>>]

\* What the function has made of the first n elements, for each n.
LEMMA FoldPath ==
    ASSUME NEW V, NEW base \in V, NEW N \in Nat, NEW g \in [(1..N) \X V -> V], NEW it,
           Climbing(it, base, N, V, g)
    PROVE  \E path \in [0..N -> V] : Follows(path, base, N, g, it[1..N])
<1> DEFINE path == [n \in 0..N |-> it[1..n]]
<1>1. 1..0 = {} /\ path[0] = base
  BY 1..0 = {} DEF Climbing
<1>2. ASSUME NEW n \in 1..N, path[n - 1] \in V
      PROVE  path[n] \in V /\ path[n] = g[<<n, path[n - 1]>>]
  <2>1. /\ n - 1 \in Nat /\ (n - 1) + 1 = n /\ 1..n \in SUBSET (1..((n - 1) + 1)) /\ n \in 1..n
        /\ 1..n \in SUBSET (1..N)
    OBVIOUS
  <2>2. Max(1..n) = n
    BY <2>1, MaxIsLast
  <2>3. (1..n) \ {n} = 1..(n - 1)
    OBVIOUS
  <2>4. path[n - 1] = it[1..(n - 1)] /\ path[n] = it[1..n]
    OBVIOUS
  <2> HIDE DEF path
  <2>5. it[1..n] = g[<<n, it[1..(n - 1)]>>]
    BY <1>2, <2>1, <2>2, <2>3, <2>4 DEF Climbing
  <2>6. QED
    BY <1>2, <2>4, <2>5
<1>3. \A n \in 0..N : path[n] \in V
  <2> DEFINE T == {n \in 0..N : path[n] \in V}
  <2> HIDE DEF path
  <2>1. 0 \in T
    BY <1>1
  <2>2. ASSUME NEW n \in 1..N, n - 1 \in T
        PROVE  n \in T
    <3>1. path[n - 1] \in V
      BY <2>2
    <3>2. path[n] \in V
      BY <1>2, <3>1
    <3>3. n \in 0..N
      OBVIOUS
    <3>4. QED
      BY <3>2, <3>3
  <2> HIDE DEF T
  <2>3. \A n \in 0..N : n \in T
    BY <2>1, <2>2, Climb
  <2>4. QED
    BY <2>3 DEF T
<1>4. path \in [0..N -> V] /\ path[N] = it[1..N]
  BY <1>3
<1>5. \A n \in 1..N : path[n - 1] \in V
  BY <1>3
<1>6. Follows(path, base, N, g, it[1..N])
  <2> HIDE DEF path
  <2>1. QED
    BY <1>1, <1>2, <1>4, <1>5 DEF Follows
<1>7. QED
  <2> HIDE DEF path
  <2>1. QED
    BY Zenon, <1>4, <1>6

-----------------------------------------------------------------------------
(* Sequences in which nothing is twice. *)

LEMMA ToSetProperties ==
    ASSUME NEW S, NEW s \in Seq(S)
    PROVE  /\ ToSet(s) = {s[i] : i \in 1..Len(s)} /\ ToSet(s) \subseteq S
           /\ \A e : Contains(s, e) <=> e \in ToSet(s)
           /\ IsInjective(s) <=> \A i, j \in 1..Len(s) : s[i] = s[j] => i = j
<1>1. DOMAIN s = 1..Len(s)
  BY LenProperties
<1>2. \A i \in 1..Len(s) : s[i] \in S
  BY ElementOfSeq
<1>3. QED
  BY <1>1, <1>2 DEF ToSet, Contains, IsInjective

LEMMA EmptyUnique == ToSet(<<>>) = {} /\ IsInjective(<<>>)
BY DEF ToSet, IsInjective

LEMMA AppendUnique ==
    ASSUME NEW S, NEW s \in Seq(S), NEW e \in S
    PROVE  /\ Append(s, e) \in Seq(S) /\ ToSet(Append(s, e)) = ToSet(s) \cup {e}
           /\ IsInjective(s) /\ e \notin ToSet(s) => IsInjective(Append(s, e))
<1> DEFINE t == Append(s, e)
<1>1. /\ t \in Seq(S) /\ Len(t) = Len(s) + 1 /\ Len(s) \in Nat /\ t[Len(s) + 1] = e
      /\ \A i \in 1..Len(s) : t[i] = s[i]
  BY AppendProperties, LenProperties
<1> HIDE DEF t
<1>2. 1..Len(t) = (1..Len(s)) \cup {Len(s) + 1}
  BY <1>1
<1>3. ToSet(t) = {t[i] : i \in 1..Len(t)} /\ ToSet(s) = {s[i] : i \in 1..Len(s)}
  BY <1>1, ToSetProperties
<1>4. ToSet(t) = ToSet(s) \cup {e}
  BY <1>1, <1>2, <1>3
<1>5. ASSUME IsInjective(s), e \notin ToSet(s)
      PROVE  IsInjective(t)
  <2>1. \A i, j \in 1..Len(s) : s[i] = s[j] => i = j
    BY <1>5, ToSetProperties
  <2>2. \A i \in 1..Len(s) : s[i] # e
    BY <1>3, <1>5
  <2>3. \A i, j \in 1..Len(t) : t[i] = t[j] => i = j
    BY <1>1, <1>2, <2>1, <2>2
  <2>4. QED
    BY <1>1, <2>3, ToSetProperties
<1>6. QED
  BY <1>1, <1>4, <1>5 DEF t

LEMMA TailUnique ==
    ASSUME NEW S, NEW s \in Seq(S), s # <<>>
    PROVE  /\ Tail(s) \in Seq(S) /\ Head(s) \in S /\ Head(s) \in ToSet(s)
           /\ IsInjective(s) => ToSet(Tail(s)) = ToSet(s) \ {Head(s)} /\ IsInjective(Tail(s))
<1> DEFINE t == Tail(s)
<1>1. /\ t \in Seq(S) /\ Len(t) = Len(s) - 1 /\ Len(s) \in Nat \ {0} /\ Head(s) = s[1] /\ Head(s) \in S
      /\ \A i \in 1..Len(t) : t[i] = s[i + 1]
  BY HeadTailProperties, EmptySeq
<1> HIDE DEF t
<1>2. ToSet(t) = {t[i] : i \in 1..Len(t)} /\ ToSet(s) = {s[i] : i \in 1..Len(s)}
  BY <1>1, ToSetProperties
<1>3. ASSUME IsInjective(s)
      PROVE  ToSet(t) = ToSet(s) \ {Head(s)} /\ IsInjective(t)
  <2>1. \A i, j \in 1..Len(s) : s[i] = s[j] => i = j
    BY <1>3, ToSetProperties
  <2>2. ASSUME NEW i \in 1..Len(t)
        PROVE  i + 1 \in 1..Len(s) /\ t[i] = s[i + 1] /\ s[i + 1] # s[1]
    BY <1>1, <2>1
  <2>3. ASSUME NEW i \in 1..Len(s), s[i] # s[1]
        PROVE  i - 1 \in 1..Len(t) /\ t[i - 1] = s[i]
    <3>1. i # 1
      BY <2>3
    <3>2. i - 1 \in 1..Len(t) /\ (i - 1) + 1 = i
      BY <1>1, <3>1
    <3>3. QED
      BY <1>1, <3>2
  <2>4. ToSet(t) = ToSet(s) \ {Head(s)}
    <3>1. \A x \in ToSet(t) : x \in ToSet(s) \ {Head(s)}
      BY <1>1, <1>2, <2>2
    <3>2. \A x \in ToSet(s) \ {Head(s)} : x \in ToSet(t)
      BY <1>1, <1>2, <2>3
    <3>3. QED
      BY <3>1, <3>2
  <2>5. \A i, j \in 1..Len(t) : t[i] = t[j] => i = j
    BY <2>1, <2>2
  <2>6. QED
    BY <1>1, <2>4, <2>5, ToSetProperties
<1>4. Head(s) \in ToSet(s)
  BY <1>1, <1>2
<1>5. QED
  BY <1>1, <1>3, <1>4 DEF t

\* RemoveFirst in such a sequence: those behind move up by one.
LEMMA RemoveUnique ==
    ASSUME NEW S, NEW s \in Seq(S), IsInjective(s), NEW e
    PROVE  /\ RemoveFirst(s, e) \in Seq(S) /\ IsInjective(RemoveFirst(s, e))
           /\ ToSet(RemoveFirst(s, e)) = ToSet(s) \ {e}
<1>0. /\ \A i, j \in 1..Len(s) : s[i] = s[j] => i = j
      /\ ToSet(s) = {s[i] : i \in 1..Len(s)}
  BY ToSetProperties
<1>1. CASE ~ \E i \in 1..Len(s) : s[i] = e
  BY <1>0, <1>1 DEF RemoveFirst
<1>2. CASE \E i \in 1..Len(s) : s[i] = e
  <2>1. PICK k \in 1..Len(s) : s[k] = e /\ RemoveFirst(s, e) = RemoveAt(s, k)
    BY <1>2, RemoveFirstIsRemoveAt
  <2> DEFINE t == RemoveAt(s, k)
  <2>2. /\ t \in Seq(S) /\ Len(s) \in Nat /\ Len(t) = Len(s) - 1
        /\ \A i \in 1..Len(t) : t[i] = IF i < k THEN s[i] ELSE s[i + 1]
    BY RemoveAtElements, LenProperties
  <2> HIDE DEF t
  <2>3. ASSUME NEW i \in 1..Len(t)
        PROVE  \E j \in 1..Len(s) : t[i] = s[j] /\ j = (IF i < k THEN i ELSE i + 1) /\ s[j] # e
    <3>1. CASE i < k
      <4>1. i \in 1..Len(s) /\ i # k /\ t[i] = s[i]
        BY <2>2, <3>1
      <4>2. s[i] # e
        BY <1>0, <2>1, <4>1
      <4>3. QED
        BY <3>1, <4>1, <4>2
    <3>2. CASE ~(i < k)
      <4>1. i + 1 \in 1..Len(s) /\ i + 1 # k /\ t[i] = s[i + 1]
        BY <2>2, <3>2
      <4>2. s[i + 1] # e
        BY <1>0, <2>1, <4>1
      <4>3. QED
        BY <3>2, <4>1, <4>2
    <3>3. QED
      BY <3>1, <3>2
  <2>4. ASSUME NEW i, NEW j, i \in 1..Len(t), j \in 1..Len(t), t[i] = t[j]
        PROVE  i = j
    <3>1. PICK m \in 1..Len(s) : t[i] = s[m] /\ m = (IF i < k THEN i ELSE i + 1)
      BY <2>3, <2>4
    <3>2. PICK n \in 1..Len(s) : t[j] = s[n] /\ n = (IF j < k THEN j ELSE j + 1)
      BY <2>3, <2>4
    <3>3. m = n
      BY <1>0, <2>4, <3>1, <3>2
    <3>4. QED
      BY <2>2, <2>4, <3>1, <3>2, <3>3
  <2>5. IsInjective(t)
    BY <2>2, <2>4, ToSetProperties
  <2>6. ToSet(t) = {t[i] : i \in 1..Len(t)}
    BY <2>2, ToSetProperties
  <2>7. \A x \in ToSet(t) : x \in ToSet(s) \ {e}
    BY <1>0, <2>3, <2>6
  <2>8. ASSUME NEW x \in ToSet(s) \ {e}
        PROVE  x \in ToSet(t)
    <3>1. PICK j \in 1..Len(s) : s[j] = x
      BY <1>0
    <3>2. CASE j < k
      <4>1. j \in 1..Len(t) /\ t[j] = s[j]
        BY <2>2, <3>2
      <4>2. QED
        BY <2>6, <3>1, <4>1
    <3>3. CASE j > k
      <4>1. j - 1 \in 1..Len(t) /\ ~(j - 1 < k) /\ (j - 1) + 1 = j
        BY <2>2, <3>3
      <4>2. t[j - 1] = s[j]
        BY <2>2, <4>1
      <4>3. QED
        BY <2>6, <3>1, <4>1, <4>2
    <3>4. QED
      BY <2>1, <2>2, <3>1, <3>2, <3>3
  <2>9. QED
    BY <2>1, <2>2, <2>5, <2>7, <2>8 DEF t
<1>3. QED
  BY <1>1, <1>2

\* The sequence t begins with s.
Begins(s, t) == Len(s) <= Len(t) /\ \A i \in 1..Len(s) : t[i] = s[i]

LEMMA BeginsProperties ==
    ASSUME NEW S, NEW s \in Seq(S), NEW t \in Seq(S)
    PROVE  /\ Begins(s, s)
           /\ Begins(s, t) => /\ ToSet(s) \subseteq ToSet(t)
                              /\ \A u \in Seq(S) : Begins(t, u) => Begins(s, u)
                              /\ \A e \in S : Begins(s, Append(t, e))
                              /\ \A e : e \notin ToSet(s) => Begins(s, RemoveFirst(t, e))
<1>0. Len(s) \in Nat /\ Len(t) \in Nat
  BY LenProperties
<1>1. Begins(s, s)
  BY <1>0 DEF Begins
<1>2. SUFFICES ASSUME Begins(s, t)
               PROVE  /\ ToSet(s) \subseteq ToSet(t)
                      /\ \A u \in Seq(S) : Begins(t, u) => Begins(s, u)
                      /\ \A e \in S : Begins(s, Append(t, e))
                      /\ \A e : e \notin ToSet(s) => Begins(s, RemoveFirst(t, e))
  BY <1>1
<1>3. ToSet(s) = {s[i] : i \in 1..Len(s)} /\ ToSet(t) = {t[i] : i \in 1..Len(t)}
  BY ToSetProperties
<1>4. 1..Len(s) \subseteq 1..Len(t)
  BY <1>0, <1>2 DEF Begins
<1>5. ToSet(s) \subseteq ToSet(t)
  BY <1>2, <1>3, <1>4 DEF Begins
<1>6. \A u \in Seq(S) : Begins(t, u) => Begins(s, u)
  <2>1. TAKE u \in Seq(S)
  <2>2. HAVE Begins(t, u)
  <2>3. Len(u) \in Nat
    BY LenProperties
  <2>4. QED
    BY <1>0, <1>2, <1>4, <2>2, <2>3 DEF Begins
<1>7. ASSUME NEW e \in S
      PROVE  Begins(s, Append(t, e))
  <2> DEFINE u == Append(t, e)
  <2>1. Len(u) = Len(t) + 1 /\ \A i \in 1..Len(t) : u[i] = t[i]
    BY AppendProperties
  <2> HIDE DEF u
  <2>2. Begins(s, u)
    BY <1>0, <1>2, <1>4, <2>1 DEF Begins
  <2>3. QED
    BY <2>2 DEF u
<1>8. ASSUME NEW e, e \notin ToSet(s)
      PROVE  Begins(s, RemoveFirst(t, e))
  <2>1. CASE ~ \E i \in 1..Len(t) : t[i] = e
    BY <1>2, <2>1, RemoveFirstIsRemoveAt
  <2>2. CASE \E i \in 1..Len(t) : t[i] = e
    <3>1. PICK k \in 1..Len(t) : t[k] = e /\ RemoveFirst(t, e) = RemoveAt(t, k)
      BY <2>2, RemoveFirstIsRemoveAt
    <3> DEFINE u == RemoveAt(t, k)
    <3>2. /\ Len(u) = Len(t) - 1
          /\ \A i \in 1..(Len(t) - 1) : u[i] = IF i < k THEN t[i] ELSE t[i + 1]
      BY RemoveAtElements
    <3> HIDE DEF u
    <3>3. k > Len(s)
      <4>1. SUFFICES ASSUME k \in 1..Len(s)
                     PROVE  FALSE
        BY <1>0
      <4>2. s[k] = e
        BY <1>2, <3>1, <4>1 DEF Begins
      <4>3. QED
        BY <1>3, <1>8, <4>1, <4>2
    <3>4. Len(s) <= Len(u) /\ \A i \in 1..Len(s) : i \in 1..(Len(t) - 1) /\ i < k
      BY <1>0, <3>2, <3>3
    <3>5. Begins(s, u)
      BY <1>2, <3>2, <3>4 DEF Begins
    <3>6. QED
      BY <3>1, <3>5 DEF u
  <2>3. QED
    BY <2>1, <2>2
<1>9. QED
  BY <1>5, <1>6, <1>7, <1>8

LEMMA NoElements ==
    ASSUME NEW S, NEW s \in Seq(S), ToSet(s) = {}
    PROVE  s = <<>>
<1>1. Len(s) \in Nat /\ ToSet(s) = {s[i] : i \in 1..Len(s)}
  BY ToSetProperties, LenProperties
<1>2. Len(s) = 0
  <2>1. SUFFICES ASSUME Len(s) # 0 PROVE FALSE
    OBVIOUS
  <2>2. 1 \in 1..Len(s)
    BY <1>1, <2>1
  <2>3. s[1] \in ToSet(s)
    BY <1>1, <2>2
  <2>4. QED
    BY <2>3
<1>3. QED
  BY <1>2, EmptySeq

\* What is appended and removed again leaves no trace.
LEMMA AppendRemove ==
    ASSUME NEW S, NEW s \in Seq(S), NEW e \in S, e \notin ToSet(s)
    PROVE  RemoveFirst(Append(s, e), e) = s
<1> DEFINE t == Append(s, e)
<1>1. /\ t \in Seq(S) /\ Len(t) = Len(s) + 1 /\ t[Len(s) + 1] = e /\ Len(s) \in Nat
      /\ \A i \in 1..Len(s) : t[i] = s[i]
  BY AppendProperties, LenProperties
<1> HIDE DEF t
<1>2. \A i \in 1..Len(s) : s[i] # e
  BY ToSetProperties
<1>3. Len(s) + 1 \in 1..Len(t)
  BY <1>1
<1>4. PICK k \in 1..Len(t) : t[k] = e /\ RemoveFirst(t, e) = RemoveAt(t, k)
  BY <1>1, <1>3, RemoveFirstIsRemoveAt
<1>5. k = Len(s) + 1
  BY <1>1, <1>2, <1>4
<1> DEFINE r == RemoveAt(t, k)
<1>6. /\ r \in Seq(S) /\ Len(r) = Len(t) - 1
      /\ \A i \in 1..(Len(t) - 1) : r[i] = IF i < k THEN t[i] ELSE t[i + 1]
  BY <1>1, RemoveAtElements
<1> HIDE DEF r
<1>7. Len(r) = Len(s) /\ \A i \in 1..Len(s) : r[i] = s[i]
  BY <1>1, <1>5, <1>6
<1>8. r = s
  BY <1>6, <1>7, SeqEqual
<1>9. QED
  BY <1>4, <1>8 DEF r, t


=============================================================================
