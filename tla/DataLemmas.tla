----------------------------- MODULE DataLemmas ------------------------------
(***************************************************************************)
(* Data lemmas: the least and the greatest of a set of naturals, an        *)
(* induction over sets of naturals and one over sequences, and what        *)
(* SumFunctionOnSet, FoldLeft and FlattenSeq of the community modules      *)
(* compute. The inductions are stated with a set and not with a predicate, *)
(* so that the provers can use them; a fold is stated with a step that is  *)
(* a function, and the folds of a specification are matched with it one by *)
(* one (FoldMatch).                                                        *)
(***************************************************************************)
EXTENDS Integers, Sequences, FiniteSets, SequencesExt, FiniteSetTheorems,
        SequenceTheorems, NaturalsInduction, WellFoundedInduction, TLAPS

\* A set of naturals has a least member.
LEMMA LeastNatural ==
    ASSUME NEW S \in SUBSET Nat, S # {}
    PROVE  \E m \in S : \A n \in S : m <= n
<1>1. PICK m \in S : \A y \in S : ~ (<<y, m>> \in OpToRel(<, Nat))
  BY NatLessThanWellFounded, WFMin
<1>2. \A y \in S : m <= y
  <2> SUFFICES ASSUME NEW y \in S, y < m
               PROVE  FALSE
    OBVIOUS
  <2>1. <<y, m>> \in OpToRel(<, Nat)
    BY DEF OpToRel
  <2> QED
    BY <1>1, <2>1
<1> QED
  BY <1>2

\* A bounded set of naturals has a greatest member.
LEMMA GreatestNatural ==
    ASSUME NEW S \in SUBSET Nat, S # {}, NEW bound \in Nat, \A n \in S : n <= bound
    PROVE  \E m \in S : \A n \in S : n <= m
<1> DEFINE above == {bound - n : n \in S}
<1>1. above \in SUBSET Nat /\ above # {}
  <2>1. \A n \in S : bound - n \in Nat
    OBVIOUS
  <2> QED
    BY <2>1, Zenon
<1>2. PICK d \in above : \A e \in above : d <= e
  BY <1>1, LeastNatural
<1>3. PICK m \in S : d = bound - m
  OBVIOUS
<1>4. \A n \in S : n <= m
  <2> TAKE n \in S
  <2>1. bound - n \in above
    OBVIOUS
  <2> QED
    BY <1>2, <1>3, <2>1
<1> QED
  BY <1>4

\* Induction, stated with the set of the numbers for which the claim holds.
LEMMA NatSetInduction ==
    ASSUME NEW S \in SUBSET Nat, 0 \in S, \A n \in S : n + 1 \in S
    PROVE  S = Nat
<1> SUFFICES ASSUME Nat \ S # {}
             PROVE  FALSE
  OBVIOUS
<1>1. PICK m \in Nat \ S : \A n \in Nat \ S : m <= n
  BY LeastNatural
<1>2. m - 1 \in S
  BY <1>1
<1>3. (m - 1) + 1 = m
  BY <1>1
<1> QED
  BY <1>1, <1>2, <1>3

-----------------------------------------------------------------------------
\* The member a fold over a set takes first.
Chosen(s) == CHOOSE x \in s : TRUE

\* g is the function that SumFunctionOnSet(f, S) applies to S.
Sums(f, S, g) ==
    g = [s \in SUBSET S |-> IF s = {} THEN 0 ELSE f[Chosen(s)] + g[s \ {Chosen(s)}]]

\* The folds under SumFunctionOnSet, opened once.
LEMMA SumUnfolds ==
    ASSUME NEW f, NEW S
    PROVE  SumFunctionOnSet(f, S) = (CHOOSE g : Sums(f, S, g))[S]
BY DEF SumFunctionOnSet, FoldFunctionOnSet, MapThenFoldSet, Sums, Chosen

\* It is a member.
LEMMA ChosenIs == \A s : s # {} => Chosen(s) \in s
BY DEF Chosen

\* Sets of n + 1 elements are sets of n and one more.
LEMMA OneLess ==
    ASSUME NEW n \in Nat, NEW s, IsFiniteSet(s), Cardinality(s) = n + 1, NEW x \in s
    PROVE  IsFiniteSet(s \ {x}) /\ Cardinality(s \ {x}) = n
<1>1. Cardinality(s \ {x}) = Cardinality(s) - 1 /\ IsFiniteSet(s \ {x})
  BY FS_RemoveElement
<1> QED
  BY <1>1

\* There is such a function, by induction on the size of the sets.
LEMMA SumsExist ==
    ASSUME NEW f, NEW S, IsFiniteSet(S), \A x \in S : f[x] \in Int
    PROVE  \E g \in [SUBSET S -> Int] : Sums(f, S, g)
<1> DEFINE Upto(n) == {s \in SUBSET S : Cardinality(s) <= n}
           is(n, g) == \A s \in Upto(n) :
                          g[s] = IF s = {} THEN 0 ELSE f[Chosen(s)] + g[s \ {Chosen(s)}]
           Good == {n \in Nat : \E g \in [Upto(n) -> Int] : is(n, g)}
<1>1. \A s \in SUBSET S : IsFiniteSet(s) /\ Cardinality(s) \in Nat /\ (Cardinality(s) = 0 <=> s = {})
  BY FS_Subset, FS_CardinalityType, FS_EmptySet
<1>2. 0 \in Good
  <2>1. Upto(0) = {{}}
    BY <1>1
  <2> DEFINE g == [s \in Upto(0) |-> 0]
  <2>2. g \in [Upto(0) -> Int] /\ is(0, g)
    BY <2>1
  <2> QED
    BY <2>2
<1>3. ASSUME NEW n \in Good
      PROVE  n + 1 \in Good
  <2>1. n \in Nat
    OBVIOUS
  <2>2. PICK g \in [Upto(n) -> Int] : is(n, g)
    OBVIOUS
  <2> DEFINE h == [s \in Upto(n + 1) |->
                     IF s = {} THEN 0 ELSE f[Chosen(s)] + g[s \ {Chosen(s)}]]
  <2>3. ASSUME NEW s \in Upto(n + 1), s # {}
        PROVE  /\ Chosen(s) \in S /\ s \ {Chosen(s)} \in Upto(n)
               /\ s \ {Chosen(s)} \in Upto(n + 1)
    <3>1. Chosen(s) \in s
      BY <2>3, ChosenIs
    <3>2. IsFiniteSet(s) /\ Cardinality(s) \in Nat
      BY <1>1
    <3>3. Cardinality(s \ {Chosen(s)}) = Cardinality(s) - 1
      BY <3>1, <3>2, FS_RemoveElement
    <3> QED
      BY <2>1, <3>1, <3>2, <3>3
  <2>4. ASSUME NEW s \in Upto(n)
        PROVE  s \in Upto(n + 1) /\ h[s] = g[s]
    <3>1. s \in Upto(n + 1)
      BY <1>1, <2>1
    <3> QED
      BY <2>2, <3>1
  <2>5. \A s \in Upto(n + 1) :
            (IF s = {} THEN 0 ELSE f[Chosen(s)] + g[s \ {Chosen(s)}]) \in Int
    <3> TAKE s \in Upto(n + 1)
    <3>1. CASE s = {}
      BY <3>1
    <3>2. CASE s # {}
      <4>1. f[Chosen(s)] \in Int /\ g[s \ {Chosen(s)}] \in Int
        BY <2>3, <3>2
      <4> QED
        BY <3>2, <4>1
    <3> QED
      BY <3>1, <3>2
  <2>6. h \in [Upto(n + 1) -> Int]
    BY <2>5
  <2>7. is(n + 1, h)
    <3> SUFFICES ASSUME NEW s \in Upto(n + 1)
                 PROVE  h[s] = IF s = {} THEN 0 ELSE f[Chosen(s)] + h[s \ {Chosen(s)}]
      OBVIOUS
    <3>1. h[s] = IF s = {} THEN 0 ELSE f[Chosen(s)] + g[s \ {Chosen(s)}]
      OBVIOUS
    <3>2. s # {} => h[s \ {Chosen(s)}] = g[s \ {Chosen(s)}]
      BY <2>3, <2>4
    <3> HIDE DEF h
    <3> QED
      BY <3>1, <3>2
  <2> HIDE DEF h, is, Upto
  <2> QED
    BY <2>1, <2>6, <2>7
<1>4. Good = Nat
  <2>1. Good \in SUBSET Nat
    OBVIOUS
  <2> HIDE DEF Good
  <2> QED
    BY <1>2, <1>3, <2>1, NatSetInduction
<1> DEFINE N == Cardinality(S)
<1>5. N \in Nat
  BY FS_CardinalityType
<1>6. PICK g \in [Upto(N) -> Int] : is(N, g)
  <2> HIDE DEF N, is, Upto
  <2> QED
    BY <1>4, <1>5
<1>7. Upto(N) = SUBSET S
  BY FS_Subset
<1>8. g = [s \in SUBSET S |-> g[s]]
  BY <1>7
<1>9. \A s \in SUBSET S : g[s] = IF s = {} THEN 0 ELSE f[Chosen(s)] + g[s \ {Chosen(s)}]
  BY <1>6, <1>7
<1>10. Sums(f, S, g)
  BY <1>8, <1>9 DEF Sums
<1> QED
  BY <1>6, <1>7, <1>10

\* Two of them agree on a set on which what they sum agrees.
LEMMA SumsAgree ==
    ASSUME NEW f, NEW S, NEW g, Sums(f, S, g), NEW e, NEW T, NEW h, Sums(e, T, h),
           NEW D, IsFiniteSet(D), D \subseteq S, D \subseteq T, \A x \in D : f[x] = e[x]
    PROVE  g[D] = h[D]
<1> DEFINE Good == {n \in Nat : \A s \in SUBSET D : Cardinality(s) = n => g[s] = h[s]}
<1>1. \A s \in SUBSET D : IsFiniteSet(s) /\ Cardinality(s) \in Nat /\ (Cardinality(s) = 0 <=> s = {})
  BY FS_Subset, FS_CardinalityType, FS_EmptySet
<1>2. ASSUME NEW s \in SUBSET D
      PROVE  /\ g[s] = IF s = {} THEN 0 ELSE f[Chosen(s)] + g[s \ {Chosen(s)}]
             /\ h[s] = IF s = {} THEN 0 ELSE e[Chosen(s)] + h[s \ {Chosen(s)}]
  <2>1. s \in SUBSET S /\ s \in SUBSET T
    OBVIOUS
  <2> QED
    BY <2>1 DEF Sums
<1>3. 0 \in Good
  BY <1>1, <1>2
<1>4. ASSUME NEW n \in Good
      PROVE  n + 1 \in Good
  <2> SUFFICES ASSUME NEW s \in SUBSET D, Cardinality(s) = n + 1
               PROVE  g[s] = h[s]
    OBVIOUS
  <2>1. n \in Nat /\ s # {}
    BY <1>1
  <2>2. Chosen(s) \in s /\ f[Chosen(s)] = e[Chosen(s)]
    BY <2>1, ChosenIs
  <2>3. s \ {Chosen(s)} \in SUBSET D /\ Cardinality(s \ {Chosen(s)}) = n
    BY <1>1, <2>1, <2>2, OneLess
  <2>4. g[s \ {Chosen(s)}] = h[s \ {Chosen(s)}]
    BY <2>3
  <2> QED
    BY <1>2, <2>1, <2>2, <2>4
<1>5. Good = Nat
  <2>1. Good \in SUBSET Nat
    OBVIOUS
  <2> HIDE DEF Good
  <2> QED
    BY <1>3, <1>4, <2>1, NatSetInduction
<1> QED
  BY <1>1, <1>5

\* A sum is an integer, and whatever function sums the set yields it.
LEMMA SumIs ==
    ASSUME NEW f, NEW S, IsFiniteSet(S), \A x \in S : f[x] \in Int
    PROVE  /\ Sums(f, S, CHOOSE g : Sums(f, S, g))
           /\ SumFunctionOnSet(f, S) \in Int
           /\ \A g : Sums(f, S, g) => SumFunctionOnSet(f, S) = g[S]
<1>1. PICK g \in [SUBSET S -> Int] : Sums(f, S, g)
  BY SumsExist
<1> DEFINE c == CHOOSE h : Sums(f, S, h)
<1>2. Sums(f, S, c)
  BY <1>1
<1>3. SumFunctionOnSet(f, S) = c[S]
  BY SumUnfolds
<1> HIDE DEF c
<1>4. \A h : Sums(f, S, h) => c[S] = h[S]
  BY <1>2, SumsAgree
<1> QED
  BY <1>1, <1>2, <1>3, <1>4 DEF c

\* What is summed matters only on the set.
LEMMA SumSame ==
    ASSUME NEW f, NEW e, NEW S, IsFiniteSet(S), \A x \in S : f[x] \in Int /\ f[x] = e[x]
    PROVE  SumFunctionOnSet(f, S) = SumFunctionOnSet(e, S)
<1>1. PICK g : Sums(f, S, g)
  BY SumsExist
<1>2. PICK h : Sums(e, S, h)
  BY SumsExist
<1>3. g[S] = h[S]
  BY <1>1, <1>2, SumsAgree
<1>4. SumFunctionOnSet(f, S) = g[S]
  BY <1>1, SumIs
<1>5. SumFunctionOnSet(e, S) = h[S]
  BY <1>2, SumIs
<1> QED
  BY <1>3, <1>4, <1>5

\* Nothing sums up to nothing.
LEMMA SumEmpty == \A f : SumFunctionOnSet(f, {}) = 0
<1> TAKE f
<1>1. IsFiniteSet({})
  BY FS_EmptySet
<1>2. PICK g : Sums(f, {}, g)
  BY <1>1, SumsExist
<1>3. SumFunctionOnSet(f, {}) = g[{}]
  BY <1>1, <1>2, SumIs
<1>4. g[{}] = 0
  BY <1>2 DEF Sums
<1> QED
  BY <1>3, <1>4

\* One step of the fold.
LEMMA SumChosen ==
    ASSUME NEW f, NEW S, IsFiniteSet(S), \A x \in S : f[x] \in Int, S # {}
    PROVE  SumFunctionOnSet(f, S) =
               f[Chosen(S)] + SumFunctionOnSet(f, S \ {Chosen(S)})
<1> DEFINE R == S \ {Chosen(S)}
<1>1. PICK g : Sums(f, S, g)
  BY SumsExist
<1>2. IsFiniteSet(R) /\ R \subseteq S
  BY FS_Subset
<1>3. PICK h : Sums(f, R, h)
  BY <1>2, SumsExist
<1>4. SumFunctionOnSet(f, S) = g[S] /\ SumFunctionOnSet(f, R) = h[R]
  BY <1>1, <1>2, <1>3, SumIs
<1>5. g[R] = h[R]
  BY <1>1, <1>2, <1>3, SumsAgree
<1>6. g[S] = f[Chosen(S)] + g[R]
  BY <1>1 DEF Sums
<1> QED
  BY <1>4, <1>5, <1>6

\* Any member can be taken out first: the order of the fold does not matter.
LEMMA SumRemove ==
    ASSUME NEW f, NEW S, IsFiniteSet(S), \A x \in S : f[x] \in Int, NEW x \in S
    PROVE  SumFunctionOnSet(f, S) = f[x] + SumFunctionOnSet(f, S \ {x})
<1> DEFINE sum(s) == SumFunctionOnSet(f, s)
           Good == {n \in Nat : \A s \in SUBSET S : Cardinality(s) = n =>
                                    \A y \in s : sum(s) = f[y] + sum(s \ {y})}
<1>1. \A s \in SUBSET S : /\ IsFiniteSet(s) /\ Cardinality(s) \in Nat
                          /\ Cardinality(s) = 0 <=> s = {}
                          /\ sum(s) \in Int
                          /\ s # {} => sum(s) = f[Chosen(s)] + sum(s \ {Chosen(s)})
  BY FS_Subset, FS_CardinalityType, FS_EmptySet, SumIs, SumChosen
<1> HIDE DEF sum
<1>2. 0 \in Good
  BY <1>1
<1>3. ASSUME NEW n \in Good
      PROVE  n + 1 \in Good
  <2> SUFFICES ASSUME NEW s \in SUBSET S, Cardinality(s) = n + 1, NEW y \in s
               PROVE  sum(s) = f[y] + sum(s \ {y})
    OBVIOUS
  <2> DEFINE c == Chosen(s)
  <2>1. c \in s
    BY ChosenIs
  <2>2. sum(s) = f[c] + sum(s \ {c})
    BY <1>1
  <2>3. CASE y = c
    BY <2>2, <2>3
  <2>4. CASE y # c
    <3>1. n \in Nat /\ \A z \in s : s \ {z} \in SUBSET S /\ Cardinality(s \ {z}) = n
      BY <1>1, OneLess
    <3>2. sum(s \ {c}) = f[y] + sum((s \ {c}) \ {y})
      <4>1. s \ {c} \in SUBSET S /\ Cardinality(s \ {c}) = n /\ y \in s \ {c}
        BY <2>1, <2>4, <3>1
      <4> HIDE DEF c
      <4> QED
        BY <4>1
    <3>3. sum(s \ {y}) = f[c] + sum((s \ {y}) \ {c})
      <4>1. s \ {y} \in SUBSET S /\ Cardinality(s \ {y}) = n /\ c \in s \ {y}
        BY <2>1, <2>4, <3>1
      <4> HIDE DEF c
      <4> QED
        BY <4>1
    <3>4. (s \ {c}) \ {y} = (s \ {y}) \ {c}
      OBVIOUS
    <3>5. f[c] \in Int /\ f[y] \in Int /\ sum((s \ {y}) \ {c}) \in Int
      <4>1. (s \ {y}) \ {c} \in SUBSET S /\ c \in S /\ y \in S
        BY <2>1
      <4> QED
        BY <1>1, <4>1
    <3> DEFINE w == sum((s \ {y}) \ {c})
               u == f[c]
               v == f[y]
    <3>6. sum(s \ {c}) = v + w
      BY <3>2, <3>4
    <3>7. sum(s) = u + (v + w) /\ sum(s \ {y}) = u + w
      BY <2>2, <3>3, <3>6
    <3>8. u \in Int /\ v \in Int /\ w \in Int
      BY <3>5
    <3>9. u + (v + w) = v + (u + w)
      <4> HIDE DEF u, v, w
      <4> QED
        BY <3>8
    <3> QED
      BY <3>7, <3>9
  <2> QED
    BY <2>3, <2>4
<1>4. Good = Nat
  <2>1. Good \in SUBSET Nat
    OBVIOUS
  <2> HIDE DEF Good
  <2> QED
    BY <1>2, <1>3, <2>1, NatSetInduction
<1>5. Cardinality(S) \in Good /\ S \in SUBSET S
  BY <1>1, <1>4
<1> QED
  BY <1>5 DEF sum

\* What an induction on the subsets of S needs.
LEMMA SumOfParts ==
    ASSUME NEW f, NEW S, IsFiniteSet(S), \A x \in S : f[x] \in Int, NEW s \in SUBSET S
    PROVE  /\ IsFiniteSet(s) /\ Cardinality(s) \in Nat
           /\ Cardinality(s) = 0 <=> s = {}
           /\ SumFunctionOnSet(f, s) \in Int
           /\ \A y \in s : SumFunctionOnSet(f, s) = f[y] + SumFunctionOnSet(f, s \ {y})
<1>1. IsFiniteSet(s) /\ \A x \in s : f[x] \in Int
  BY FS_Subset
<1>2. Cardinality(s) \in Nat /\ (Cardinality(s) = 0 <=> s = {})
  BY <1>1, FS_CardinalityType, FS_EmptySet
<1>3. SumFunctionOnSet(f, s) \in Int
  BY <1>1, SumIs
<1>4. ASSUME NEW y \in s
      PROVE  SumFunctionOnSet(f, s) = f[y] + SumFunctionOnSet(f, s \ {y})
  BY <1>1, SumRemove
<1> QED
  BY <1>1, <1>2, <1>3, <1>4

\* A set is summed in two parts.
LEMMA SumSplit ==
    ASSUME NEW f, NEW S, IsFiniteSet(S), \A x \in S : f[x] \in Int, NEW K \in SUBSET S
    PROVE  SumFunctionOnSet(f, S) = SumFunctionOnSet(f, K) + SumFunctionOnSet(f, S \ K)
<1> DEFINE sum(s) == SumFunctionOnSet(f, s)
           Good == {n \in Nat : \A s \in SUBSET S : Cardinality(s) = n =>
                                    sum(S) = sum(s) + sum(S \ s)}
<1>1. \A s \in SUBSET S : /\ IsFiniteSet(s) /\ Cardinality(s) \in Nat
                          /\ Cardinality(s) = 0 <=> s = {}
                          /\ sum(s) \in Int
                          /\ \A y \in s : sum(s) = f[y] + sum(s \ {y})
  BY SumOfParts
<1>2. sum({}) = 0
  BY SumEmpty
<1> HIDE DEF sum
<1>3. 0 \in Good
  <2>1. sum(S) = sum({}) + sum(S \ {})
    <3>1. S \ {} = S /\ sum(S) \in Int
      BY <1>1
    <3> QED
      BY <1>2, <3>1
  <2> QED
    BY <1>1, <2>1
<1>4. ASSUME NEW n \in Good
      PROVE  n + 1 \in Good
  <2> SUFFICES ASSUME NEW s \in SUBSET S, Cardinality(s) = n + 1
               PROVE  sum(S) = sum(s) + sum(S \ s)
    OBVIOUS
  <2>1. n \in Nat /\ s # {}
    BY <1>1
  <2>2. PICK y \in s : TRUE
    BY <2>1
  <2> DEFINE less == s \ {y}
             more == S \ less
  <2>3. less \in SUBSET S /\ Cardinality(less) = n /\ more \in SUBSET S /\ y \in more
    BY <1>1, <2>1, OneLess
  <2>4. more \ {y} = S \ s
    BY <2>2
  <2>5. sum(S) = sum(less) + sum(more)
    BY <2>3
  <2>6. sum(s) = f[y] + sum(less)
    BY <1>1
  <2>7. sum(more) = f[y] + sum(more \ {y})
    BY <1>1, <2>3
  <2> DEFINE u == sum(less)
             v == sum(S \ s)
             w == f[y]
  <2>8. u \in Int /\ v \in Int /\ w \in Int
    <3>1. S \ s \in SUBSET S /\ y \in S
      OBVIOUS
    <3> QED
      BY <1>1, <2>3, <3>1
  <2>9. sum(S) = u + (w + v) /\ sum(s) = w + u
    BY <2>4, <2>5, <2>6, <2>7
  <2>10. u + (w + v) = (w + u) + v
    <3> HIDE DEF u, v, w
    <3> QED
      BY <2>8
  <2> QED
    BY <2>9, <2>10
<1>5. Good = Nat
  <2>1. Good \in SUBSET Nat
    OBVIOUS
  <2> HIDE DEF Good
  <2> QED
    BY <1>3, <1>4, <2>1, NatSetInduction
<1>6. Cardinality(K) \in Good
  BY <1>1, <1>5
<1> QED
  BY <1>6 DEF sum

\* Larger values have no smaller sum.
LEMMA SumGrows ==
    ASSUME NEW f, NEW e, NEW S, IsFiniteSet(S),
           \A x \in S : f[x] \in Int /\ e[x] \in Int /\ f[x] <= e[x]
    PROVE  SumFunctionOnSet(f, S) <= SumFunctionOnSet(e, S)
<1> DEFINE sum(s) == SumFunctionOnSet(f, s)
           tot(s) == SumFunctionOnSet(e, s)
           Good == {n \in Nat : \A s \in SUBSET S : Cardinality(s) = n => sum(s) <= tot(s)}
<1>1. \A s \in SUBSET S : /\ IsFiniteSet(s) /\ Cardinality(s) \in Nat
                          /\ Cardinality(s) = 0 <=> s = {}
                          /\ sum(s) \in Int /\ tot(s) \in Int
                          /\ \A y \in s : /\ sum(s) = f[y] + sum(s \ {y})
                                          /\ tot(s) = e[y] + tot(s \ {y})
  BY SumOfParts
<1>2. sum({}) = 0 /\ tot({}) = 0
  BY SumEmpty
<1> HIDE DEF sum, tot
<1>3. 0 \in Good
  <2>1. \A s \in SUBSET S : Cardinality(s) = 0 => sum(s) <= tot(s)
    <3> TAKE s \in SUBSET S
    <3> HAVE Cardinality(s) = 0
    <3>1. s = {}
      BY <1>1
    <3> QED
      BY <1>2, <3>1
  <2> QED
    BY <2>1
<1>4. ASSUME NEW n \in Good
      PROVE  n + 1 \in Good
  <2> SUFFICES ASSUME NEW s \in SUBSET S, Cardinality(s) = n + 1
               PROVE  sum(s) <= tot(s)
    OBVIOUS
  <2>1. n \in Nat /\ s # {}
    BY <1>1
  <2>2. PICK y \in s : TRUE
    BY <2>1
  <2> DEFINE r == s \ {y}
  <2>3. r \in SUBSET S /\ Cardinality(r) = n
    BY <1>1, <2>1, OneLess
  <2>4. sum(r) <= tot(r)
    BY <2>3
  <2>5. sum(s) = f[y] + sum(r) /\ tot(s) = e[y] + tot(r)
    BY <1>1
  <2>6. sum(r) \in Int /\ tot(r) \in Int /\ f[y] \in Int /\ e[y] \in Int /\ f[y] <= e[y]
    BY <1>1, <2>3
  <2> DEFINE u == sum(r)
             v == tot(r)
             w == f[y]
             x == e[y]
  <2>7. w + u <= x + v
    <3>1. u \in Int /\ v \in Int /\ w \in Int /\ x \in Int /\ u <= v /\ w <= x
      BY <2>4, <2>6
    <3> HIDE DEF u, v, w, x
    <3> QED
      BY <3>1
  <2> QED
    BY <2>5, <2>7
<1>5. Good = Nat
  <2>1. Good \in SUBSET Nat
    OBVIOUS
  <2> HIDE DEF Good
  <2> QED
    BY <1>3, <1>4, <2>1, NatSetInduction
<1>6. Cardinality(S) \in Good
  BY <1>1, <1>5
<1> QED
  BY <1>6 DEF sum, tot

\* The sum of naturals is a natural: it is at least the sum of zeros.
LEMMA SumNatural ==
    ASSUME NEW f, NEW S, IsFiniteSet(S), \A x \in S : f[x] \in Nat
    PROVE  SumFunctionOnSet(f, S) \in Nat
<1> DEFINE zero == [x \in S |-> 0]
           none == [s \in SUBSET S |-> 0]
<1>1. SumFunctionOnSet(zero, S) = none[S]
  <2>1. Sums(zero, S, none)
    <3>1. \A s \in SUBSET S : s # {} => Chosen(s) \in S /\ s \ {Chosen(s)} \in SUBSET S
      BY ChosenIs
    <3>2. \A s \in SUBSET S :
            0 = IF s = {} THEN 0 ELSE zero[Chosen(s)] + none[s \ {Chosen(s)}]
      BY <3>1
    <3> QED
      BY <3>2 DEF Sums
  <2>2. \A x \in S : zero[x] \in Int
    OBVIOUS
  <2> HIDE DEF zero, none
  <2> QED
    BY <2>1, <2>2, SumIs
<1>2. \A x \in S : zero[x] \in Int /\ f[x] \in Int /\ zero[x] <= f[x]
  OBVIOUS
<1>3. none[S] = 0
  OBVIOUS
<1> HIDE DEF zero, none
<1>4. SumFunctionOnSet(zero, S) <= SumFunctionOnSet(f, S) /\ SumFunctionOnSet(f, S) \in Int
  BY <1>2, SumGrows, SumIs
<1> QED
  BY <1>1, <1>3, <1>4

-----------------------------------------------------------------------------
(***************************************************************************)
(* Sequences: an induction, runs that agree, one element more.             *)
(***************************************************************************)
\* Induction over sequences, stated with the set of those for which the claim holds.
LEMMA SeqSetInduction ==
    ASSUME NEW S, NEW G \in SUBSET Seq(S), <<>> \in G,
           \A s \in G : \A e \in S : Append(s, e) \in G
    PROVE  G = Seq(S)
<1> DEFINE Good == {n \in Nat : \A s \in Seq(S) : Len(s) = n => s \in G}
<1>1. 0 \in Good
  <2>1. \A s \in Seq(S) : Len(s) = 0 => s = <<>>
    BY EmptySeq
  <2> QED
    BY <2>1
<1>2. ASSUME NEW n \in Good
      PROVE  n + 1 \in Good
  <2> SUFFICES ASSUME NEW s \in Seq(S), Len(s) = n + 1
               PROVE  s \in G
    OBVIOUS
  <2>1. n \in Nat /\ s # <<>>
    BY EmptySeq
  <2>2. PICK t \in Seq(S), e \in S : s = Append(t, e)
    BY <2>1, SequenceEmptyOrAppend
  <2>3. Len(t) = n
    <3>1. Len(s) = Len(t) + 1 /\ Len(t) \in Nat
      BY <2>2, AppendProperties, LenProperties
    <3> QED
      BY <2>1, <3>1
  <2>4. t \in G
    BY <2>3
  <2> QED
    BY <2>2, <2>4
<1>3. Good = Nat
  <2>1. Good \in SUBSET Nat
    OBVIOUS
  <2> HIDE DEF Good
  <2> QED
    BY <1>1, <1>2, <2>1, NatSetInduction
<1>4. \A s \in Seq(S) : Len(s) \in Good
  BY <1>3, LenProperties
<1> QED
  BY <1>4

\* Two runs that take the same steps from the same start agree.
LEMMA RunsAgree ==
    ASSUME NEW n \in Nat, NEW f, NEW g, f[0] = g[0],
           \A k \in 1..n : f[k - 1] = g[k - 1] => f[k] = g[k]
    PROVE  \A k \in 0..n : f[k] = g[k]
<1> DEFINE Good == {k \in Nat : k <= n => f[k] = g[k]}
<1>1. 0 \in Good
  OBVIOUS
<1>2. ASSUME NEW k \in Good
      PROVE  k + 1 \in Good
  <2> SUFFICES ASSUME k + 1 <= n
               PROVE  f[k + 1] = g[k + 1]
    OBVIOUS
  <2>1. k + 1 \in 1..n /\ (k + 1) - 1 = k /\ f[k] = g[k]
    OBVIOUS
  <2> QED
    BY <2>1
<1>3. Good = Nat
  <2>1. Good \in SUBSET Nat
    OBVIOUS
  <2> HIDE DEF Good
  <2> QED
    BY <1>1, <1>2, <2>1, NatSetInduction
<1> QED
  BY <1>3

\* One element more.
LEMMA AppendIs ==
    ASSUME NEW T, NEW A \in Seq(T), NEW y \in T
    PROVE  /\ Append(A, y) \in Seq(T) /\ Append(A, y) # <<>>
           /\ Len(A) \in Nat /\ Len(Append(A, y)) = Len(A) + 1
           /\ Append(A, y)[Len(A) + 1] = y
           /\ \A j \in 1..Len(A) : Append(A, y)[j] = A[j]
           /\ \A j \in 1..(Len(A) + 1) : j = Len(A) + 1 \/ j \in 1..Len(A)
<1>1. Append(A, y) \in Seq(T) /\ Len(Append(A, y)) = Len(A) + 1 /\ Len(A) \in Nat
  BY AppendProperties, LenProperties
<1>2. Append(A, y)[Len(A) + 1] = y /\ \A j \in 1..Len(A) : Append(A, y)[j] = A[j]
  BY AppendProperties
<1>3. Append(A, y) # <<>>
  BY <1>1, EmptySeq
<1>4. \A j \in 1..(Len(A) + 1) : j = Len(A) + 1 \/ j \in 1..Len(A)
  BY <1>1
<1> QED
  BY <1>1, <1>2, <1>3, <1>4

\* Induction over lines: one, and one more.
LEMMA LinesInduction ==
    ASSUME NEW S, NEW G \in SUBSET (Seq(S) \ {<<>>}), \A x \in S : <<x>> \in G,
           \A L \in G : \A x \in S : Append(L, x) \in G
    PROVE  G = Seq(S) \ {<<>>}
<1> DEFINE H == G \cup {<<>>}
<1>1. H \in SUBSET Seq(S) /\ <<>> \in H
  BY EmptySeq
<1>2. ASSUME NEW L \in H, NEW x \in S
      PROVE  Append(L, x) \in H
  <2>1. CASE L \in G
    BY <2>1
  <2>2. CASE L = <<>>
    <3>1. Append(<<>>, x) = <<x>>
      OBVIOUS
    <3> QED
      BY <2>2, <3>1
  <2> QED
    BY <2>1, <2>2
<1> HIDE DEF H
<1>3. H = Seq(S)
  BY <1>1, <1>2, SeqSetInduction
<1> QED
  BY <1>3 DEF H

\* One element more, as a function.
LEMMA AppendIsMap ==
    ASSUME NEW T, NEW s \in Seq(T), NEW y \in T
    PROVE  Append(s, y) = [i \in 1..(Len(s) + 1) |-> IF i = Len(s) + 1 THEN y ELSE s[i]]
<1> DEFINE v == Append(s, y)
           n == Len(s)
<1>1. /\ v \in Seq(T) /\ n \in Nat /\ Len(v) = n + 1 /\ v[n + 1] = y
      /\ \A j \in 1..n : v[j] = s[j]
      /\ \A j \in 1..(n + 1) : j = n + 1 \/ j \in 1..n
  BY AppendIs
<1> HIDE DEF v, n
<1>2. v \in [1..(n + 1) -> T]
  BY <1>1, LenProperties
<1>3. \A j \in 1..(n + 1) : v[j] = IF j = n + 1 THEN y ELSE s[j]
  BY <1>1
<1>4. v = [i \in 1..(n + 1) |-> v[i]]
  BY <1>2
<1>5. v = [i \in 1..(n + 1) |-> IF i = n + 1 THEN y ELSE s[i]]
  BY <1>3, <1>4
<1> QED
  BY <1>5 DEF v, n

\* A sequence is its first element and the others.
LEMMA HeadTailConcat ==
    ASSUME NEW S, NEW s \in Seq(S), s # <<>>
    PROVE  Head(s) \in S /\ Tail(s) \in Seq(S) /\ <<Head(s)>> \in Seq(S) /\ s = <<Head(s)>> \o Tail(s)
<1>1. Head(s) \in S /\ Tail(s) \in Seq(S) /\ Len(s) \in Nat /\ Len(s) # 0 /\ Len(Tail(s)) = Len(s) - 1
      /\ \A i \in 1..Len(Tail(s)) : Tail(s)[i] = s[i + 1]
  BY HeadTailProperties, EmptySeq
<1>2. Head(s) = s[1]
  OBVIOUS
<1> DEFINE h == Head(s)
           t == Tail(s)
           u == <<h>>
           n == Len(s)
<1>3. u \in Seq(S) /\ Len(u) = 1 /\ u[1] = h
  BY <1>1
<1> HIDE DEF h, t, u
<1>4. u \o t \in Seq(S) /\ Len(u \o t) = 1 + Len(t)
      /\ \A i \in 1..(1 + Len(t)) : (u \o t)[i] = IF i <= 1 THEN u[i] ELSE t[i - 1]
  <2>1. t \in Seq(S) /\ Len(t) \in Nat
    BY <1>1, LenProperties DEF t
  <2>2. /\ u \o t \in Seq(S) /\ Len(u \o t) = Len(u) + Len(t)
        /\ \A i \in 1..(Len(u) + Len(t)) : (u \o t)[i] = IF i <= Len(u) THEN u[i] ELSE t[i - Len(u)]
    BY <1>3, <2>1, ConcatProperties
  <2> DEFINE v == u \o t
  <2> HIDE DEF v
  <2>3. /\ v \in Seq(S) /\ Len(v) = 1 + Len(t)
        /\ \A i \in 1..(1 + Len(t)) : v[i] = IF i <= 1 THEN u[i] ELSE t[i - 1]
    BY <1>3, <2>2 DEF v
  <2> QED
    BY <2>3 DEF v
<1> DEFINE w == u \o t
<1>5. w \in Seq(S) /\ Len(w) = n
  BY <1>1, <1>4 DEF t
<1> HIDE DEF w, n
<1>6. \A i \in 1..n : w[i] = s[i]
  <2> TAKE i \in 1..n
  <2>1. i \in 1..(1 + Len(t)) /\ (i = 1 \/ (~(i <= 1) /\ i - 1 \in 1..Len(t) /\ (i - 1) + 1 = i))
    BY <1>1 DEF n, t
  <2>2. w[i] = IF i <= 1 THEN u[i] ELSE t[i - 1]
    BY <1>4, <2>1 DEF w
  <2>3. CASE i = 1
    BY <1>2, <1>3, <2>2, <2>3 DEF h
  <2>4. CASE i # 1
    <3> DEFINE j == i - 1
    <3>1. j \in 1..Len(t) /\ j + 1 = i /\ w[i] = t[j]
      BY <2>1, <2>2, <2>4
    <3> HIDE DEF j
    <3>2. t[j] = s[j + 1]
      BY <1>1, <3>1 DEF t
    <3> QED
      BY <3>1, <3>2
  <2> QED
    BY <2>3, <2>4
<1>7. s = w
  BY <1>5, <1>6, SeqEqual DEF n
<1> QED
  BY <1>1, <1>3, <1>7 DEF u, h, t, w

-----------------------------------------------------------------------------
(***************************************************************************)
(* Folds from the left.                                                    *)
(***************************************************************************)
\* The greatest of some places.
LEMMA MaxOfPlaces ==
    ASSUME NEW n \in Nat
    PROVE  /\ \A t \in SUBSET (1..n) : t # {} => Max(t) \in t /\ \A i \in t : i <= Max(t)
           /\ \A k \in 1..n : /\ Max(1..k) = k /\ (1..k) \ {k} = 1..(k - 1)
                              /\ 1..k \in SUBSET (1..n) /\ 1..k # {}
<1>1. ASSUME NEW t \in SUBSET (1..n), t # {}
      PROVE  Max(t) \in t /\ \A i \in t : i <= Max(t)
  <2>1. t \in SUBSET Nat /\ \A i \in t : i <= n
    OBVIOUS
  <2>2. PICK m \in t : \A i \in t : i <= m
    BY <1>1, <2>1, GreatestNatural
  <2>3. \A i \in t : m >= i
    BY <2>1, <2>2
  <2>4. Max(t) \in t /\ \A i \in t : Max(t) >= i
    BY <2>3 DEF Max
  <2> QED
    BY <2>1, <2>4
<1>2. ASSUME NEW k \in 1..n
      PROVE  /\ Max(1..k) = k /\ (1..k) \ {k} = 1..(k - 1)
             /\ 1..k \in SUBSET (1..n) /\ 1..k # {}
  <2>1. 1..k \in SUBSET (1..n) /\ k \in 1..k
    OBVIOUS
  <2>2. Max(1..k) \in 1..k /\ k <= Max(1..k)
    BY <1>1, <2>1
  <2> QED
    BY <2>1, <2>2
<1> QED
  BY <1>1, <1>2

\* The largest of some places, of which one is not zero.
LEMMA LargestPlace ==
    ASSUME NEW n \in Nat, NEW A \in SUBSET (0..n), NEW k \in A, k # 0
    PROVE  Max(A) \in A /\ Max(A) \in 1..n
<1> DEFINE P == A \ {0}
           m == Max(P)
<1>1. P \in SUBSET (1..n) /\ P # {}
  OBVIOUS
<1>2. m \in P /\ \A i \in P : i <= m
  BY <1>1, MaxOfPlaces
<1> HIDE DEF m
<1>3. m \in A /\ \A y \in A : m >= y
  <2>1. m \in 1..n
    BY <1>1, <1>2
  <2> QED
    BY <1>2, <2>1
<1>4. Max(A) \in A /\ \A y \in A : Max(A) >= y
  BY <1>3 DEF Max
<1>5. Max(A) >= k /\ k \in 1..n
  BY <1>4
<1> DEFINE x == Max(A)
<1> HIDE DEF x
<1>6. x \in 0..n /\ x >= k
  BY <1>4, <1>5 DEF x
<1>7. x \in 1..n
  BY <1>5, <1>6
<1> QED
  BY <1>4, <1>7 DEF x

\* A recursion over sets of places that takes the last one first has a solution.
Iterates(step, base, n, it) ==
    \A t \in SUBSET (1..n) :
        it[t] = IF t = {} THEN base ELSE step[it[t \ {Max(t)}]][Max(t)]

\* There is such a function, by induction on the number of places.
LEMMA ItersExist ==
    ASSUME NEW S, NEW base \in S, NEW n \in Nat, NEW step \in [S -> [(1..n) -> S]]
    PROVE  \E it \in [SUBSET (1..n) -> S] :
              Iterates(step, base, n, it)
<1> DEFINE next(f, t) == IF t = {} THEN base ELSE step[f[t \ {Max(t)}]][Max(t)]
           is(m, f) == \A t \in SUBSET (1..m) : f[t] = next(f, t)
           has(m) == \E f \in [SUBSET (1..m) -> S] : is(m, f)
           Good == {m \in Nat : m <= n => has(m)}
<1>1. 0 \in Good
  <2> DEFINE f == [t \in SUBSET (1..0) |-> base]
  <2>1. f \in [SUBSET (1..0) -> S] /\ is(0, f)
    OBVIOUS
  <2> HIDE DEF f, is
  <2> QED
    BY <2>1
<1>2. ASSUME NEW m \in Good
      PROVE  m + 1 \in Good
  <2> SUFFICES ASSUME m + 1 <= n
               PROVE  has(m + 1)
    <3> HIDE DEF has
    <3> QED
      OBVIOUS
  <2>1. m \in Nat /\ m <= n
    OBVIOUS
  <2>2. PICK f \in [SUBSET (1..m) -> S] : is(m, f)
    BY <2>1
  <2> DEFINE g == [t \in SUBSET (1..(m + 1)) |-> next(f, t)]
  <2>3. ASSUME NEW t \in SUBSET (1..(m + 1)), t # {}
        PROVE  Max(t) \in t /\ Max(t) \in 1..n /\ t \ {Max(t)} \in SUBSET (1..m)
    <3>1. t \in SUBSET (1..n)
      BY <2>1
    <3>2. Max(t) \in t /\ \A i \in t : i <= Max(t)
      BY <2>3, <3>1, MaxOfPlaces
    <3>3. \A i \in t : i \in 1..(m + 1)
      OBVIOUS
    <3>4. ASSUME NEW i \in t, i # Max(t)
          PROVE  i \in 1..m
      <4>1. i \in 1..(m + 1) /\ Max(t) \in 1..(m + 1) /\ i <= Max(t)
        BY <3>2, <3>3
      <4> QED
        BY <2>1, <3>4, <4>1
    <3> QED
      BY <3>1, <3>2, <3>4
  <2>4. ASSUME NEW t \in SUBSET (1..(m + 1))
        PROVE  next(f, t) \in S
    <3>1. CASE t = {}
      BY <3>1
    <3>2. CASE t # {}
      <4>1. f[t \ {Max(t)}] \in S /\ Max(t) \in 1..n
        BY <2>3, <3>2
      <4> QED
        BY <3>2, <4>1
    <3> QED
      BY <3>1, <3>2
  <2>5. ASSUME NEW t \in SUBSET (1..m)
        PROVE  t \in SUBSET (1..(m + 1)) /\ g[t] = f[t]
    <3>1. t \in SUBSET (1..(m + 1))
      BY <2>1
    <3>2. g[t] = next(f, t)
      BY <3>1
    <3> HIDE DEF g, next
    <3> QED
      BY <2>2, <3>1, <3>2
  <2>6. is(m + 1, g)
    <3> SUFFICES ASSUME NEW t \in SUBSET (1..(m + 1))
                 PROVE  g[t] = next(g, t)
      OBVIOUS
    <3>1. g[t] = next(f, t)
      OBVIOUS
    <3>2. t # {} => g[t \ {Max(t)}] = f[t \ {Max(t)}]
      BY <2>3, <2>5
    <3> HIDE DEF g
    <3> QED
      BY <3>1, <3>2
  <2>7. g \in [SUBSET (1..(m + 1)) -> S]
    <3> HIDE DEF next
    <3> QED
      BY <2>4
  <2> HIDE DEF g, is
  <2> QED
    BY <2>6, <2>7
<1>3. Good = Nat
  <2>1. Good \in SUBSET Nat
    OBVIOUS
  <2> HIDE DEF Good
  <2> QED
    BY <1>1, <1>2, <2>1, NatSetInduction
<1>4. has(n)
  <2> HIDE DEF has
  <2> QED
    BY <1>3
<1> QED
  BY <1>4 DEF Iterates

\* A fold from the left whose step is a function.
FoldOf(step, base, s) == FoldLeft(LAMBDA a, e : step[a][e], base, s)

\* it is the function that FoldOf applies to the places of s.
IsIter(step, base, s, it) ==
    it = [t \in SUBSET DOMAIN s |->
            IF t = {} THEN base ELSE step[it[t \ {Max(t)}]][s[Max(t)]]]

\* The fold, opened once.
LEMMA FoldUnfolds ==
    \A step, base, s :
        FoldOf(step, base, s) = (CHOOSE it : IsIter(step, base, s, it))[DOMAIN s]
BY DEF FoldOf, FoldLeft, MapThenFoldSet, IsIter

\* There is one, and it takes the steps in order.
LEMMA FoldIter ==
    ASSUME NEW S, NEW E, NEW base \in S, NEW step \in [S -> [E -> S]], NEW s \in Seq(E)
    PROVE  \E it \in [SUBSET DOMAIN s -> S] : IsIter(step, base, s, it)
<1> DEFINE n == Len(s)
           at == [a \in S |-> [i \in 1..n |-> step[a][s[i]]]]
<1>1. n \in Nat /\ DOMAIN s = 1..n /\ \A i \in 1..n : s[i] \in E
  BY LenProperties, ElementOfSeq
<1> HIDE DEF n
<1>2. at \in [S -> [(1..n) -> S]]
  BY <1>1
<1>3. PICK it \in [SUBSET (1..n) -> S] : Iterates(at, base, n, it)
  <2> HIDE DEF at
  <2> QED
    BY <1>1, <1>2, ItersExist
<1>4. ASSUME NEW t \in SUBSET (1..n)
      PROVE  it[t] = IF t = {} THEN base ELSE step[it[t \ {Max(t)}]][s[Max(t)]]
  <2>1. CASE t = {}
    BY <1>3, <2>1 DEF Iterates
  <2>2. CASE t # {}
    <3>1. Max(t) \in 1..n /\ t \ {Max(t)} \in SUBSET (1..n)
      BY <1>1, <2>2, MaxOfPlaces
    <3>2. it[t \ {Max(t)}] \in S
      BY <3>1
    <3>3. at[it[t \ {Max(t)}]][Max(t)] = step[it[t \ {Max(t)}]][s[Max(t)]]
      BY <3>1, <3>2
    <3> HIDE DEF at
    <3> QED
      BY <1>3, <2>2, <3>3 DEF Iterates
  <2> QED
    BY <2>1, <2>2
<1>5. IsIter(step, base, s, it)
  <2>1. it = [t \in SUBSET DOMAIN s |-> it[t]]
    BY <1>1
  <2> QED
    BY <1>1, <1>4, <2>1 DEF IsIter
<1> QED
  BY <1>1, <1>5

\* c takes the steps of a fold, as long as it stays in S.
TakesSteps(step, base, s, S, c) ==
    /\ c[{}] = base
    /\ \A k \in 1..Len(s) :
          c[1..(k - 1)] \in S => c[1..k] = step[c[1..(k - 1)]][s[k]]

\* A base and a step that stay in S.
Stepper(step, base, S, E) == base \in S /\ step \in [S -> [E -> S]]

\* Whatever takes the same steps from the same base yields the fold.
LEMMA FoldMatch ==
    ASSUME NEW S, NEW E, NEW base, NEW step, Stepper(step, base, S, E), NEW s \in Seq(E),
           NEW c, TakesSteps(step, base, s, S, c)
    PROVE  c[DOMAIN s] = FoldOf(step, base, s) /\ c[DOMAIN s] \in S
<1> DEFINE it == CHOOSE f : IsIter(step, base, s, f)
           n == Len(s)
<1>a. base \in S /\ step \in [S -> [E -> S]]
  BY DEF Stepper
<1>1. n \in Nat /\ DOMAIN s = 1..n /\ \A i \in 1..n : s[i] \in E
  BY LenProperties, ElementOfSeq
<1>2. IsIter(step, base, s, it)
  BY <1>a, FoldIter
<1>3. FoldOf(step, base, s) = it[DOMAIN s]
  BY FoldUnfolds
<1> HIDE DEF it, n
<1>4. it[{}] = base
  BY <1>2 DEF IsIter
<1>5. ASSUME NEW k \in 1..n
      PROVE  it[1..k] = step[it[1..(k - 1)]][s[k]]
  <2>1. 1..k \in SUBSET DOMAIN s /\ 1..k # {}
    BY <1>1, MaxOfPlaces
  <2>2. Max(1..k) = k /\ (1..k) \ {k} = 1..(k - 1)
    BY <1>1, MaxOfPlaces
  <2>3. it[1..k] = step[it[(1..k) \ {Max(1..k)}]][s[Max(1..k)]]
    BY <1>2, <2>1 DEF IsIter
  <2> QED
    BY <2>2, <2>3
<1> DEFINE Good == {k \in Nat : k <= n => c[1..k] = it[1..k] /\ c[1..k] \in S}
<1>6. 0 \in Good
  <2>1. 1..0 = {} /\ c[{}] = base
    BY DEF TakesSteps
  <2> QED
    BY <1>a, <1>4, <2>1
<1>7. ASSUME NEW k \in Good
      PROVE  k + 1 \in Good
  <2> SUFFICES ASSUME k + 1 <= n
               PROVE  c[1..(k + 1)] = it[1..(k + 1)] /\ c[1..(k + 1)] \in S
    OBVIOUS
  <2>1. k \in Nat /\ k + 1 \in 1..n /\ (k + 1) - 1 = k
    BY <1>1
  <2>2. c[1..k] = it[1..k] /\ c[1..k] \in S
    BY <1>1, <2>1
  <2>3. c[1..(k + 1)] = step[c[1..k]][s[k + 1]]
    BY <2>1, <2>2 DEF n, TakesSteps
  <2>4. it[1..(k + 1)] = step[it[1..k]][s[k + 1]]
    BY <1>5, <2>1
  <2>5. c[1..k] \in S /\ s[k + 1] \in E
    BY <1>1, <2>1, <2>2
  <2> QED
    BY <1>a, <2>2, <2>3, <2>4, <2>5
<1>8. Good = Nat
  <2>1. Good \in SUBSET Nat
    OBVIOUS
  <2> HIDE DEF Good
  <2> QED
    BY <1>6, <1>7, <2>1, NatSetInduction
<1>9. c[1..n] = it[1..n] /\ c[1..n] \in S
  <2>1. n \in Good
    <3> HIDE DEF Good
    <3> QED
      BY <1>1, <1>8
  <2>2. n <= n
    BY <1>1
  <2> QED
    BY <2>1, <2>2
<1> QED
  BY <1>1, <1>3, <1>9

\* What a fold computes: nothing of the empty sequence, and one step more of one element more.

FoldFollows(step, base, S, E) ==
    /\ \A s \in Seq(E) : FoldOf(step, base, s) \in S
    /\ FoldOf(step, base, <<>>) = base
    /\ \A s \in Seq(E), e \in E :
          FoldOf(step, base, Append(s, e)) = step[FoldOf(step, base, s)][e]

\* Every fold is such.
LEMMA FoldLaws ==
    ASSUME NEW S, NEW E, NEW base, NEW step, Stepper(step, base, S, E)
    PROVE  FoldFollows(step, base, S, E)
<1>a. base \in S /\ step \in [S -> [E -> S]]
  BY DEF Stepper
<1> DEFINE it(s) == CHOOSE f : IsIter(step, base, s, f)
<1>1. \A s \in Seq(E) : Len(s) \in Nat /\ DOMAIN s = 1..Len(s)
  BY LenProperties
<1>2. \A s \in Seq(E) : IsIter(step, base, s, it(s)) /\ FoldOf(step, base, s) = it(s)[DOMAIN s]
  BY <1>a, FoldIter, FoldUnfolds
<1> HIDE DEF it
<1>3. \A s \in Seq(E) : it(s)[{}] = base
  BY <1>2 DEF IsIter
<1>4. ASSUME NEW s \in Seq(E), NEW k \in 1..Len(s)
      PROVE  it(s)[1..k] = step[it(s)[1..(k - 1)]][s[k]]
  <2>1. 1..k \in SUBSET DOMAIN s /\ 1..k # {}
    BY <1>1, MaxOfPlaces
  <2>2. Max(1..k) = k /\ (1..k) \ {k} = 1..(k - 1)
    BY <1>1, MaxOfPlaces
  <2>3. it(s)[1..k] = step[it(s)[(1..k) \ {Max(1..k)}]][s[Max(1..k)]]
    BY <1>2, <2>1 DEF IsIter
  <2> QED
    BY <2>2, <2>3
<1>5. ASSUME NEW s \in Seq(E)
      PROVE  FoldOf(step, base, s) \in S
  <2> DEFINE c == it(s)
  <2>1. c[{}] = base
    BY <1>3
  <2>2. \A k \in 1..Len(s) : c[1..(k - 1)] \in S => c[1..k] = step[c[1..(k - 1)]][s[k]]
    BY <1>4
  <2>3. FoldOf(step, base, s) = c[DOMAIN s]
    BY <1>2
  <2> HIDE DEF c
  <2>4. TakesSteps(step, base, s, S, c)
    BY <2>1, <2>2 DEF TakesSteps
  <2> QED
    BY <2>3, <2>4, FoldMatch
<1>6. FoldOf(step, base, <<>>) = base
  <2>1. <<>> \in Seq(E) /\ DOMAIN <<>> = {}
    BY EmptySeq
  <2> QED
    BY <1>2, <1>3, <2>1
<1>7. ASSUME NEW s \in Seq(E), NEW e \in E
      PROVE  FoldOf(step, base, Append(s, e)) = step[FoldOf(step, base, s)][e]
  <2> DEFINE t == Append(s, e)
             n == Len(s)
  <2>1. t \in Seq(E) /\ Len(t) = n + 1 /\ t[n + 1] = e /\ \A i \in 1..n : t[i] = s[i]
    BY AppendProperties
  <2>2. n \in Nat /\ n + 1 \in 1..(n + 1) /\ (n + 1) - 1 = n /\ \A k \in 1..n : k \in 1..(n + 1)
    BY <1>1
  <2> DEFINE c == it(t)
  <2> HIDE DEF t, n
  <2>3. \A k \in 1..Len(t) : c[1..k] = step[c[1..(k - 1)]][t[k]]
    BY <1>4, <2>1
  <2>4. c[{}] = base /\ FoldOf(step, base, t) = c[DOMAIN t]
    BY <1>2, <1>3, <2>1
  <2>5. DOMAIN t = 1..(n + 1)
    BY <1>1, <2>1
  <2> HIDE DEF c
  <2>6. c[1..(n + 1)] = step[c[1..n]][e]
    <3>1. c[1..(n + 1)] = step[c[1..((n + 1) - 1)]][t[n + 1]]
      BY <2>1, <2>2, <2>3
    <3> QED
      BY <2>1, <2>2, <3>1
  <2>7. c[DOMAIN s] = FoldOf(step, base, s)
    <3>1. \A k \in 1..Len(s) : c[1..k] = step[c[1..(k - 1)]][s[k]]
      <4> TAKE k \in 1..Len(s)
      <4>1. k \in 1..Len(t) /\ t[k] = s[k]
        BY <2>1, <2>2 DEF n
      <4> QED
        BY <2>3, <4>1
    <3>2. TakesSteps(step, base, s, S, c)
      BY <2>4, <3>1 DEF TakesSteps
    <3> QED
      BY <3>2, FoldMatch
  <2>8. DOMAIN s = 1..n
    BY <1>1 DEF n
  <2> QED
    BY <2>4, <2>5, <2>6, <2>7, <2>8 DEF t
<1> QED
  BY <1>5, <1>6, <1>7 DEF FoldFollows

-----------------------------------------------------------------------------
(***************************************************************************)
(* Sequences joined into one.                                              *)
(***************************************************************************)
\* f is the function that FlattenSeq(t) applies to the last place of t.
Flattens(t, f) == f = [i \in 1..Len(t) |-> IF i = 1 THEN t[i] ELSE f[i - 1] \o t[i]]

\* FlattenSeq, opened once.
LEMMA FlattenUnfolds ==
    ASSUME NEW t, Len(t) # 0
    PROVE  FlattenSeq(t) = (CHOOSE f : Flattens(t, f))[Len(t)]
BY DEF FlattenSeq, Flattens

\* One more sequence.
Joins(S) == [a \in Seq(S) |-> [x \in Seq(S) |-> a \o x]]

\* Sequences joined are a sequence.
LEMMA JoinsTyped == \A S : Joins(S) \in [Seq(S) -> [Seq(S) -> Seq(S)]] /\ <<>> \in Seq(S)
<1> TAKE S
<1>1. \A a, x \in Seq(S) : a \o x \in Seq(S)
  BY ConcatProperties
<1> QED
  BY <1>1, EmptySeq DEF Joins

\* FlattenSeq is the fold of the concatenation.
LEMMA FlattenIsFold ==
    ASSUME NEW S, NEW t \in Seq(Seq(S))
    PROVE  FlattenSeq(t) = FoldOf(Joins(S), <<>>, t)
<1> DEFINE fold(u) == FoldOf(Joins(S), <<>>, u)
           n == Len(t)
<1>1. n \in Nat /\ DOMAIN t = 1..n /\ \A i \in 1..n : t[i] \in Seq(S)
  BY LenProperties, ElementOfSeq
<1>2. /\ \A u \in Seq(Seq(S)) : fold(u) \in Seq(S)
      /\ fold(<<>>) = <<>>
      /\ \A u \in Seq(Seq(S)), e \in Seq(S) : fold(Append(u, e)) = fold(u) \o e
  <2> DEFINE joins == Joins(S)
  <2>1. joins \in [Seq(S) -> [Seq(S) -> Seq(S)]] /\ <<>> \in Seq(S)
    BY JoinsTyped
  <2>2. /\ \A u \in Seq(Seq(S)) : FoldOf(joins, <<>>, u) \in Seq(S)
        /\ FoldOf(joins, <<>>, <<>>) = <<>>
        /\ \A u \in Seq(Seq(S)), e \in Seq(S) :
             FoldOf(joins, <<>>, Append(u, e)) = joins[FoldOf(joins, <<>>, u)][e]
    <3> HIDE DEF joins
    <3>1. Stepper(joins, <<>>, Seq(S), Seq(S))
      BY <2>1 DEF Stepper
    <3>2. FoldFollows(joins, <<>>, Seq(S), Seq(S))
      BY <3>1, FoldLaws
    <3> QED
      BY <3>2 DEF FoldFollows
  <2>3. \A a, e \in Seq(S) : joins[a][e] = a \o e
    BY DEF Joins
  <2> QED
    BY <2>2, <2>3
<1>3. CASE n = 0
  <2>1. t = <<>>
    BY <1>3, EmptySeq
  <2> QED
    BY <1>2, <1>3, <2>1 DEF FlattenSeq
<1>4. CASE n # 0
  <2> DEFINE f == [i \in 1..n |-> fold(SubSeq(t, 1, i))]
             c == CHOOSE g : Flattens(t, g)
  <2> HIDE DEF fold
  <2>1. ASSUME NEW i \in 1..n
        PROVE  f[i] = IF i = 1 THEN t[i] ELSE f[i - 1] \o t[i]
    <3>1. SubSeq(t, 1, i) = Append(SubSeq(t, 1, i - 1), t[i])
          /\ SubSeq(t, 1, i - 1) \in Seq(Seq(S))
      <4>1. SubSeq(t, 1, i) = SubSeq(t, 1, i - 1) \o <<t[i]>>
        BY <1>1, SubSeqRecursiveSecond
      <4>2. SubSeq(t, 1, i - 1) \in Seq(Seq(S))
        <5>1. 1 \in Int /\ i - 1 \in Int /\ \A j \in 1..(i - 1) : t[j] \in Seq(S)
          BY <1>1
        <5> QED
          BY <5>1, SubSeqProperties
      <4> QED
        BY <1>1, <4>1, <4>2, AppendIsConcat
    <3>2. fold(SubSeq(t, 1, i)) = fold(SubSeq(t, 1, i - 1)) \o t[i]
      BY <1>1, <1>2, <3>1
    <3>3. CASE i = 1
      <4>1. SubSeq(t, 1, i - 1) = <<>>
        BY <3>3, SubSeqEmpty
      <4>2. <<>> \o t[i] = t[i]
        BY <1>1, ConcatEmptySeq
      <4> QED
        BY <1>2, <3>2, <3>3, <4>1, <4>2
    <3>4. CASE i # 1
      <4>1. i - 1 \in 1..n
        BY <1>1, <3>4
      <4>2. f[i] = fold(SubSeq(t, 1, i)) /\ f[i - 1] = fold(SubSeq(t, 1, i - 1))
        BY <4>1
      <4> HIDE DEF f
      <4> QED
        BY <3>2, <3>4, <4>2
    <3> QED
      BY <3>3, <3>4
  <2>2. f[n] = fold(t)
    <3>1. SubSeq(t, 1, n) = t
      BY SubSeqFull
    <3>2. n \in 1..n
      BY <1>1, <1>4
    <3> HIDE DEF n
    <3> QED
      BY <3>1, <3>2
  <2>3. f = [i \in 1..n |-> f[i]]
    OBVIOUS
  <2> HIDE DEF f, n
  <2>4. Flattens(t, f)
    BY <2>1, <2>3 DEF Flattens, n
  <2>5. Flattens(t, c)
    BY <2>4
  <2>6. FlattenSeq(t) = c[n]
    BY <1>4, FlattenUnfolds DEF n
  <2> HIDE DEF c
  <2>7. \A i \in 1..n : c[i] = IF i = 1 THEN t[i] ELSE c[i - 1] \o t[i]
    BY <2>5 DEF Flattens, n
  <2> DEFINE F == [i \in 0..n |-> IF i = 0 THEN <<>> ELSE f[i]]
             C == [i \in 0..n |-> IF i = 0 THEN <<>> ELSE c[i]]
  <2>8. \A k \in 0..n : F[k] = C[k]
    <3>1. F[0] = C[0]
      BY <1>1
    <3>2. ASSUME NEW k \in 1..n, F[k - 1] = C[k - 1]
          PROVE  F[k] = C[k]
      <4>1. k \in 0..n /\ k - 1 \in 0..n /\ F[k] = f[k] /\ C[k] = c[k]
        BY <1>1
      <4>2. CASE k = 1
        BY <2>1, <2>7, <4>1, <4>2
      <4>3. CASE k # 1
        <5>1. F[k - 1] = f[k - 1] /\ C[k - 1] = c[k - 1]
          BY <1>1, <4>1, <4>3
        <5> QED
          BY <2>1, <2>7, <3>2, <4>1, <4>3, <5>1
      <4> QED
        BY <4>2, <4>3
    <3> HIDE DEF F, C
    <3>3. \A k \in 1..n : F[k - 1] = C[k - 1] => F[k] = C[k]
      BY <3>2
    <3>4. n \in Nat
      BY <1>1
    <3> QED
      BY <3>1, <3>3, <3>4, RunsAgree, ZenonT(60)
  <2>9. F[n] = f[n] /\ C[n] = c[n] /\ n \in 0..n
    BY <1>1, <1>4
  <2> HIDE DEF F, C
  <2> QED
    BY <2>2, <2>6, <2>8, <2>9 DEF fold
<1> QED
  BY <1>3, <1>4

\* What is joined, and one more.
LEMMA FlattenLaws ==
    ASSUME NEW S
    PROVE  /\ FlattenSeq(<<>>) = <<>>
           /\ \A t \in Seq(Seq(S)) : FlattenSeq(t) \in Seq(S)
           /\ \A t \in Seq(Seq(S)), x \in Seq(S) :
                 FlattenSeq(Append(t, x)) = FlattenSeq(t) \o x
<1> DEFINE joins == Joins(S)
<1>1. joins \in [Seq(S) -> [Seq(S) -> Seq(S)]] /\ <<>> \in Seq(S) /\ <<>> \in Seq(Seq(S))
  BY JoinsTyped, EmptySeq
<1>2. \A a, e \in Seq(S) : joins[a][e] = a \o e
  BY DEF Joins
<1>3. \A t \in Seq(Seq(S)) : FlattenSeq(t) = FoldOf(joins, <<>>, t)
  BY FlattenIsFold
<1> HIDE DEF joins
<1>4. /\ \A t \in Seq(Seq(S)) : FoldOf(joins, <<>>, t) \in Seq(S)
      /\ FoldOf(joins, <<>>, <<>>) = <<>>
      /\ \A t \in Seq(Seq(S)), x \in Seq(S) :
            FoldOf(joins, <<>>, Append(t, x)) = joins[FoldOf(joins, <<>>, t)][x]
  <2>1. Stepper(joins, <<>>, Seq(S), Seq(S))
    BY <1>1 DEF Stepper
  <2>2. FoldFollows(joins, <<>>, Seq(S), Seq(S))
    BY <2>1, FoldLaws
  <2> QED
    BY <2>2 DEF FoldFollows
<1>5. ASSUME NEW t \in Seq(Seq(S)), NEW x \in Seq(S)
      PROVE  FlattenSeq(Append(t, x)) = FlattenSeq(t) \o x
  <2>1. Append(t, x) \in Seq(Seq(S))
    BY AppendProperties
  <2> DEFINE u == FoldOf(joins, <<>>, t)
  <2>2. u \in Seq(S) /\ FlattenSeq(t) = u
    BY <1>3, <1>4
  <2>3. FlattenSeq(Append(t, x)) = joins[u][x]
    BY <1>3, <1>4, <2>1
  <2> HIDE DEF u
  <2> QED
    BY <1>2, <2>2, <2>3
<1> QED
  BY <1>1, <1>3, <1>4, <1>5

\* Joined in two parts.
LEMMA FlattenConcat ==
    ASSUME NEW S, NEW t \in Seq(Seq(S)), NEW u \in Seq(Seq(S))
    PROVE  FlattenSeq(t \o u) = FlattenSeq(t) \o FlattenSeq(u)
<1> DEFINE G == {v \in Seq(Seq(S)) : FlattenSeq(t \o v) = FlattenSeq(t) \o FlattenSeq(v)}
<1>1. <<>> \in G
  <2>1. t \o <<>> = t /\ <<>> \in Seq(Seq(S))
    BY ConcatEmptySeq, EmptySeq
  <2>2. FlattenSeq(t) \in Seq(S) /\ FlattenSeq(<<>>) = <<>>
    BY FlattenLaws
  <2>3. FlattenSeq(t) \o <<>> = FlattenSeq(t)
    BY <2>2, ConcatEmptySeq
  <2> QED
    BY <2>1, <2>2, <2>3
<1>2. ASSUME NEW v \in G, NEW x \in Seq(S)
      PROVE  Append(v, x) \in G
  <2>1. /\ v \in Seq(Seq(S)) /\ Append(v, x) \in Seq(Seq(S)) /\ t \o v \in Seq(Seq(S))
        /\ FlattenSeq(t \o v) = FlattenSeq(t) \o FlattenSeq(v)
    BY AppendProperties, ConcatProperties
  <2>2. t \o Append(v, x) = Append(t \o v, x)
    <3>1. <<x>> \in Seq(Seq(S))
      OBVIOUS
    <3>2. Append(v, x) = v \o <<x>> /\ Append(t \o v, x) = (t \o v) \o <<x>>
      BY <2>1, AppendIsConcat
    <3> QED
      BY <2>1, <3>1, <3>2, ConcatAssociative
  <2>3. FlattenSeq(t) \in Seq(S) /\ FlattenSeq(v) \in Seq(S)
    BY <2>1, FlattenLaws
  <2>4. FlattenSeq(Append(t \o v, x)) = (FlattenSeq(t) \o FlattenSeq(v)) \o x
    BY <2>1, FlattenLaws
  <2>5. FlattenSeq(Append(v, x)) = FlattenSeq(v) \o x
    BY <2>1, FlattenLaws
  <2>6. (FlattenSeq(t) \o FlattenSeq(v)) \o x = FlattenSeq(t) \o (FlattenSeq(v) \o x)
    <3> DEFINE ft == FlattenSeq(t)
               fv == FlattenSeq(v)
    <3>1. ft \in Seq(S) /\ fv \in Seq(S) /\ x \in Seq(S)
      BY <2>3
    <3> HIDE DEF ft, fv, G
    <3>2. (ft \o fv) \o x = ft \o (fv \o x)
      BY ONLY <3>1, SMTT(30)
    <3> QED
      BY <3>2 DEF ft, fv
  <2> QED
    BY <2>1, <2>2, <2>4, <2>5, <2>6
<1>3. G = Seq(Seq(S))
  <2>1. G \in SUBSET Seq(Seq(S))
    OBVIOUS
  <2> HIDE DEF G
  <2> QED
    BY <1>1, <1>2, <2>1, SeqSetInduction
<1> QED
  BY <1>3

\* One sequence joined.
LEMMA FlattenOne ==
    ASSUME NEW S, NEW x \in Seq(S)
    PROVE  FlattenSeq(<<x>>) = x
<1>1. <<>> \in Seq(Seq(S)) /\ Append(<<>>, x) = <<x>>
  BY EmptySeq
<1>2. FlattenSeq(Append(<<>>, x)) = FlattenSeq(<<>>) \o x /\ FlattenSeq(<<>>) = <<>>
  BY <1>1, FlattenLaws
<1>3. <<>> \o x = x
  BY ConcatEmptySeq
<1> QED
  BY <1>1, <1>2, <1>3

-----------------------------------------------------------------------------
(***************************************************************************)
(* What is kept of a sequence: the elements in B.                          *)
(***************************************************************************)
\* The step that keeps the elements of B.
Picks(S, B) == [a \in Seq(S) |-> [e \in S |-> IF e \in B THEN Append(a, e) ELSE a]]

\* What is kept is a sequence.
LEMMA PicksTyped ==
    \A S, B : Picks(S, B) \in [Seq(S) -> [S -> Seq(S)]] /\ <<>> \in Seq(S)
<1> TAKE S, B
<1>1. \A a \in Seq(S), e \in S : (IF e \in B THEN Append(a, e) ELSE a) \in Seq(S)
  BY AppendProperties
<1> QED
  BY <1>1, EmptySeq DEF Picks

\* What is kept is said of a set that holds all elements.
Sel(S, B, s) == FoldOf(Picks(S, B), <<>>, s)

\* Of nothing nothing, and of one element more that one if it is in B.
LEMMA SelLaws ==
    ASSUME NEW S, NEW B
    PROVE  /\ Sel(S, B, <<>>) = <<>>
           /\ \A s \in Seq(S) : Sel(S, B, s) \in Seq(S)
           /\ \A s \in Seq(S), e \in S :
                 Sel(S, B, Append(s, e)) =
                     IF e \in B THEN Append(Sel(S, B, s), e) ELSE Sel(S, B, s)
<1> DEFINE picks == Picks(S, B)
<1>1. picks \in [Seq(S) -> [S -> Seq(S)]] /\ <<>> \in Seq(S)
  BY PicksTyped
<1>2. \A a \in Seq(S), e \in S : picks[a][e] = IF e \in B THEN Append(a, e) ELSE a
  BY DEF Picks
<1> HIDE DEF picks
<1>3. /\ \A s \in Seq(S) : FoldOf(picks, <<>>, s) \in Seq(S)
      /\ FoldOf(picks, <<>>, <<>>) = <<>>
      /\ \A s \in Seq(S), e \in S :
            FoldOf(picks, <<>>, Append(s, e)) = picks[FoldOf(picks, <<>>, s)][e]
  <2>1. Stepper(picks, <<>>, Seq(S), S)
    BY <1>1 DEF Stepper
  <2>2. FoldFollows(picks, <<>>, Seq(S), S)
    BY <2>1, FoldLaws
  <2> QED
    BY <2>2 DEF FoldFollows
<1>4. ASSUME NEW s \in Seq(S), NEW e \in S
      PROVE  FoldOf(picks, <<>>, Append(s, e)) =
                 IF e \in B THEN Append(FoldOf(picks, <<>>, s), e) ELSE FoldOf(picks, <<>>, s)
  <2> DEFINE u == FoldOf(picks, <<>>, s)
  <2>1. u \in Seq(S) /\ FoldOf(picks, <<>>, Append(s, e)) = picks[u][e]
    BY <1>3
  <2> HIDE DEF u
  <2>2. picks[u][e] = IF e \in B THEN Append(u, e) ELSE u
    BY <1>2, <2>1
  <2> QED
    BY <2>1, <2>2 DEF u
<1> QED
  BY <1>3, <1>4 DEF Sel, picks

\* Of nothing nothing is kept.
LEMMA SelNone == \A S, B : Sel(S, B, <<>>) = <<>>
BY SelLaws

\* What is kept of a sequence is one.
LEMMA SelTyped ==
    ASSUME NEW S, NEW B, NEW s \in Seq(S)
    PROVE  Sel(S, B, s) \in Seq(S)
BY SelLaws

\* Of one element more that one is kept, if it is in B.
LEMMA SelAppend ==
    ASSUME NEW S, NEW B, NEW s \in Seq(S), NEW e \in S
    PROVE  /\ e \in B => Sel(S, B, Append(s, e)) = Append(Sel(S, B, s), e)
           /\ e \notin B => Sel(S, B, Append(s, e)) = Sel(S, B, s)
BY SelLaws

\* Kept in two parts.
LEMMA SelConcat ==
    ASSUME NEW S, NEW B, NEW s \in Seq(S), NEW t \in Seq(S)
    PROVE  Sel(S, B, s \o t) = Sel(S, B, s) \o Sel(S, B, t)
<1> DEFINE sel(u) == Sel(S, B, u)
           G == {u \in Seq(S) : sel(s \o u) = sel(s) \o sel(u)}
<1>1. /\ sel(<<>>) = <<>>
      /\ \A u \in Seq(S) : sel(u) \in Seq(S)
      /\ \A u \in Seq(S), e \in S :
            /\ e \in B => sel(Append(u, e)) = Append(sel(u), e)
            /\ e \notin B => sel(Append(u, e)) = sel(u)
  BY SelNone, SelTyped, SelAppend
<1> HIDE DEF sel
<1>2. <<>> \in G
  <2>1. s \o <<>> = s /\ <<>> \in Seq(S) /\ sel(s) \o <<>> = sel(s)
    BY <1>1, ConcatEmptySeq, EmptySeq
  <2> QED
    BY <1>1, <2>1
<1>3. ASSUME NEW u \in G, NEW e \in S
      PROVE  Append(u, e) \in G
  <2>1. /\ u \in Seq(S) /\ Append(u, e) \in Seq(S) /\ s \o u \in Seq(S) /\ <<e>> \in Seq(S)
        /\ sel(s \o u) = sel(s) \o sel(u)
    BY AppendProperties, ConcatProperties
  <2>2. s \o Append(u, e) = Append(s \o u, e)
    <3>1. Append(u, e) = u \o <<e>> /\ Append(s \o u, e) = (s \o u) \o <<e>>
      BY <2>1, AppendIsConcat
    <3> QED
      BY <2>1, <3>1, ConcatAssociative
  <2>3. Append(sel(s) \o sel(u), e) = sel(s) \o Append(sel(u), e)
    <3>1. sel(s) \in Seq(S) /\ sel(u) \in Seq(S) /\ sel(s) \o sel(u) \in Seq(S)
      BY <1>1, <2>1, ConcatProperties
    <3>2. /\ Append(sel(s) \o sel(u), e) = (sel(s) \o sel(u)) \o <<e>>
          /\ Append(sel(u), e) = sel(u) \o <<e>>
      BY <3>1, AppendIsConcat
    <3>3. (sel(s) \o sel(u)) \o <<e>> = sel(s) \o (sel(u) \o <<e>>)
      <4> DEFINE a == sel(s)
                 b == sel(u)
                 c == <<e>>
      <4>1. a \in Seq(S) /\ b \in Seq(S) /\ c \in Seq(S)
        BY <2>1, <3>1
      <4> HIDE DEF a, b, c
      <4>2. (a \o b) \o c = a \o (b \o c)
        BY ONLY <4>1, SMTT(30)
      <4> QED
        BY <4>2 DEF a, b, c
    <3> QED
      BY <3>2, <3>3
  <2>4. sel(Append(s \o u, e)) = IF e \in B THEN Append(sel(s \o u), e) ELSE sel(s \o u)
    BY <1>1, <2>1
  <2>5. sel(Append(u, e)) = IF e \in B THEN Append(sel(u), e) ELSE sel(u)
    BY <1>1, <2>1
  <2> QED
    BY <2>1, <2>2, <2>3, <2>4, <2>5
<1>4. G = Seq(S)
  <2>1. G \in SUBSET Seq(S)
    OBVIOUS
  <2> HIDE DEF G
  <2> QED
    BY <1>2, <1>3, <2>1, SeqSetInduction
<1> QED
  BY <1>4 DEF sel

\* Nothing is kept when nothing is in B, and all when everything is.
LEMMA SelNothing ==
    ASSUME NEW S, NEW B, NEW s \in Seq(S)
    PROVE  /\ (\A i \in 1..Len(s) : s[i] \notin B) <=> Sel(S, B, s) = <<>>
           /\ (\A i \in 1..Len(s) : s[i] \in B) => Sel(S, B, s) = s
<1> DEFINE sel(u) == Sel(S, B, u)
           none(u) == \A i \in 1..Len(u) : u[i] \notin B
           all(u) == \A i \in 1..Len(u) : u[i] \in B
           G == {u \in Seq(S) : (none(u) <=> sel(u) = <<>>) /\ (all(u) => sel(u) = u)}
<1>1. /\ sel(<<>>) = <<>>
      /\ \A u \in Seq(S) : sel(u) \in Seq(S)
      /\ \A u \in Seq(S), e \in S :
            /\ e \in B => sel(Append(u, e)) = Append(sel(u), e)
            /\ e \notin B => sel(Append(u, e)) = sel(u)
  BY SelNone, SelTyped, SelAppend
<1> HIDE DEF sel
<1>2. <<>> \in G
  BY <1>1, EmptySeq
<1>3. ASSUME NEW u \in G, NEW e \in S
      PROVE  Append(u, e) \in G
  <2>1. /\ u \in Seq(S) /\ none(u) <=> sel(u) = <<>>
        /\ all(u) => sel(u) = u
    OBVIOUS
  <2> DEFINE v == Append(u, e)
  <2>2. /\ v \in Seq(S) /\ Len(v) = Len(u) + 1 /\ Len(u) \in Nat
        /\ v[Len(u) + 1] = e /\ \A i \in 1..Len(u) : v[i] = u[i]
    BY <2>1, AppendProperties, LenProperties
  <2> HIDE DEF v
  <2>3. none(v) <=> none(u) /\ e \notin B
    <3>1. \A i \in 1..(Len(u) + 1) : i = Len(u) + 1 \/ i \in 1..Len(u)
      BY <2>2
    <3>2. Len(u) + 1 \in 1..(Len(u) + 1) /\ \A i \in 1..Len(u) : i \in 1..(Len(u) + 1)
      BY <2>2
    <3> QED
      BY <2>2, <3>1, <3>2
  <2>4. all(v) <=> all(u) /\ e \in B
    <3>1. \A i \in 1..(Len(u) + 1) : i = Len(u) + 1 \/ i \in 1..Len(u)
      BY <2>2
    <3>2. Len(u) + 1 \in 1..(Len(u) + 1) /\ \A i \in 1..Len(u) : i \in 1..(Len(u) + 1)
      BY <2>2
    <3> QED
      BY <2>2, <3>1, <3>2
  <2>5. sel(v) = IF e \in B THEN Append(sel(u), e) ELSE sel(u)
    BY <1>1, <2>1 DEF v
  <2>6. Append(sel(u), e) # <<>>
    <3>1. sel(u) \in Seq(S)
      BY <1>1, <2>1
    <3> QED
      BY <3>1, AppendProperties
  <2>7. none(v) <=> sel(v) = <<>>
    <3> HIDE DEF none, all
    <3> QED
      BY <2>1, <2>3, <2>5, <2>6
  <2>8. all(v) => sel(v) = v
    <3> HIDE DEF none, all
    <3> QED
      BY <2>1, <2>4, <2>5 DEF v
  <2> HIDE DEF none, all
  <2> QED
    BY <2>2, <2>7, <2>8 DEF v
<1>4. G = Seq(S)
  <2>1. G \in SUBSET Seq(S)
    OBVIOUS
  <2> HIDE DEF G
  <2> QED
    BY <1>2, <1>3, <2>1, SeqSetInduction
<1>5. s \in G
  <2> HIDE DEF G
  <2> QED
    BY <1>4
<1> QED
  BY <1>5 DEF sel

\* What is kept of a sequence is in the set.
LEMMA SelWithin ==
    ASSUME NEW S, NEW B, NEW s \in Seq(S)
    PROVE  Sel(S, B, s) \in Seq(S \cap B)
<1> DEFINE sel(u) == Sel(S, B, u)
           C == S \cap B
           G == {u \in Seq(S) : sel(u) \in Seq(C)}
<1>1. /\ sel(<<>>) = <<>>
      /\ \A u \in Seq(S), e \in S :
            /\ e \in B => sel(Append(u, e)) = Append(sel(u), e)
            /\ e \notin B => sel(Append(u, e)) = sel(u)
  BY SelNone, SelAppend
<1>2. <<>> \in G
  <2>0. sel(<<>>) = <<>>
    BY SelNone
  <2>1. <<>> \in Seq(S) /\ sel(<<>>) \in Seq(C)
    BY <2>0, EmptySeq
  <2> QED
    BY <2>1
<1>3. ASSUME NEW u \in G, NEW e \in S
      PROVE  Append(u, e) \in G
  <2>1. u \in Seq(S) /\ sel(u) \in Seq(C) /\ (e \in B => e \in C)
    OBVIOUS
  <2> HIDE DEF C, sel
  <2>2. Append(u, e) \in Seq(S) /\ (e \in B => Append(sel(u), e) \in Seq(C))
    BY <2>1, AppendProperties
  <2> QED
    BY <1>1, <2>1, <2>2
<1>4. G \in SUBSET Seq(S)
  OBVIOUS
<1> HIDE DEF G
<1>5. G = Seq(S)
  BY <1>2, <1>3, <1>4, SeqSetInduction
<1> QED
  BY <1>5 DEF G, sel, C

-----------------------------------------------------------------------------
(***************************************************************************)
(* Parts of a sequence, and recursions that decrease.                      *)
(***************************************************************************)
\* The part of s from a to b; it may be empty.
LEMMA PartIs ==
    ASSUME NEW S, NEW s \in Seq(S), NEW a \in 1..(Len(s) + 1), NEW b \in (a - 1)..Len(s)
    PROVE  /\ SubSeq(s, a, b) \in Seq(S) /\ Len(SubSeq(s, a, b)) = b - a + 1
           /\ Len(s) \in Nat /\ a \in Nat /\ b \in Nat
           /\ \A i \in 1..(b - a + 1) : SubSeq(s, a, b)[i] = s[a + i - 1]
<1>1. Len(s) \in Nat
  BY LenProperties
<1>2. a \in Int /\ b \in Int /\ a \in Nat /\ b \in Nat
  BY <1>1
<1>3. \A i \in a..b : s[i] \in S
  <2>1. \A i \in a..b : i \in 1..Len(s)
    BY <1>1
  <2> QED
    BY <2>1, ElementOfSeq
<1>4. /\ SubSeq(s, a, b) \in Seq(S)
      /\ Len(SubSeq(s, a, b)) = IF a <= b THEN b - a + 1 ELSE 0
      /\ \A i \in 1..(b - a + 1) : SubSeq(s, a, b)[i] = s[a + i - 1]
  BY <1>2, <1>3, SubSeqProperties
<1>5. a <= b \/ b - a + 1 = 0
  BY <1>1, <1>2
<1> QED
  BY <1>1, <1>2, <1>4, <1>5

\* A sequence cut in three.
LEMMA CutInThree ==
    ASSUME NEW S, NEW s \in Seq(S), NEW a \in 1..(Len(s) + 1), NEW b \in (a - 1)..Len(s)
    PROVE  s = (SubSeq(s, 1, a - 1) \o SubSeq(s, a, b)) \o SubSeq(s, b + 1, Len(s))
<1>1. Len(s) \in Nat /\ a \in Nat /\ b \in Nat
  BY PartIs
<1>2. SubSeq(s, 1, a - 1) \o SubSeq(s, a, b) = SubSeq(s, 1, b)
  <2>1. 1 \in 1..(Len(s) + 1) /\ a - 1 \in 0..Len(s) /\ b \in (a - 1)..Len(s) /\ (a - 1) + 1 = a
    BY <1>1
  <2> QED
    BY <2>1, ConcatAdjacentSubSeq
<1>3. SubSeq(s, 1, b) \o SubSeq(s, b + 1, Len(s)) = SubSeq(s, 1, Len(s))
  <2>1. ASSUME NEW n \in b..Len(s)
        PROVE  SubSeq(s, 1, b) \o SubSeq(s, b + 1, n) = SubSeq(s, 1, n)
    <3>1. 1 \in 1..(Len(s) + 1) /\ b \in 0..Len(s)
      BY <1>1
    <3> QED
      BY <3>1, ConcatAdjacentSubSeq
  <2>2. Len(s) \in b..Len(s)
    BY <1>1
  <2> QED
    BY <2>1, <2>2
<1>4. SubSeq(s, 1, Len(s)) = s
  BY SubSeqFull
<1> QED
  BY <1>2, <1>3, <1>4

\* A part keeps what is in B when nothing outside of it is in B.
LEMMA SelPart ==
    ASSUME NEW S, NEW B, NEW s \in Seq(S), NEW a \in 1..(Len(s) + 1), NEW b \in (a - 1)..Len(s),
           \A i \in 1..Len(s) : i \notin a..b => s[i] \notin B
    PROVE  Sel(S, B, SubSeq(s, a, b)) = Sel(S, B, s)
<1> DEFINE l == SubSeq(s, 1, a - 1)
           m == SubSeq(s, a, b)
           r == SubSeq(s, b + 1, Len(s))
<1>1. Len(s) \in Nat /\ a \in Nat /\ b \in Nat /\ m \in Seq(S)
  BY PartIs
<1>2. /\ l \in Seq(S) /\ Len(l) = a - 1
      /\ \A i \in 1..(a - 1) : l[i] = s[i]
  <2>1. 1 \in 1..(Len(s) + 1) /\ a - 1 \in (1 - 1)..Len(s)
    BY <1>1
  <2>2. /\ l \in Seq(S) /\ Len(l) = (a - 1) - 1 + 1
        /\ \A i \in 1..((a - 1) - 1 + 1) : l[i] = s[1 + i - 1]
    BY <2>1, PartIs
  <2>3. (a - 1) - 1 + 1 = a - 1 /\ \A i \in 1..(a - 1) : 1 + i - 1 = i
    BY <1>1
  <2> HIDE DEF l
  <2> QED
    BY <2>2, <2>3
<1>3. /\ r \in Seq(S) /\ Len(r) = Len(s) - b
      /\ \A i \in 1..(Len(s) - b) : r[i] = s[b + i]
  <2>1. b + 1 \in 1..(Len(s) + 1) /\ Len(s) \in ((b + 1) - 1)..Len(s)
    BY <1>1
  <2>2. /\ r \in Seq(S) /\ Len(r) = Len(s) - (b + 1) + 1
        /\ \A i \in 1..(Len(s) - (b + 1) + 1) : r[i] = s[(b + 1) + i - 1]
    BY <2>1, PartIs
  <2>3. Len(s) - (b + 1) + 1 = Len(s) - b
        /\ \A i \in 1..(Len(s) - b) : (b + 1) + i - 1 = b + i
    BY <1>1
  <2> HIDE DEF r
  <2> QED
    BY <2>2, <2>3
<1>4. s = (l \o m) \o r
  BY CutInThree
<1> HIDE DEF l, m, r
<1>5. Sel(S, B, l) = <<>>
  <2>1. \A i \in 1..Len(l) : l[i] \notin B
    <3> TAKE i \in 1..Len(l)
    <3>1. i \in 1..Len(s) /\ i \notin a..b /\ l[i] = s[i]
      BY <1>1, <1>2
    <3> QED
      BY <3>1
  <2> QED
    BY <1>2, <2>1, SelNothing
<1>6. Sel(S, B, r) = <<>>
  <2>1. \A i \in 1..Len(r) : r[i] \notin B
    <3> TAKE i \in 1..Len(r)
    <3>1. b + i \in 1..Len(s) /\ b + i \notin a..b /\ r[i] = s[b + i]
      BY <1>1, <1>3
    <3> QED
      BY <3>1
  <2> QED
    BY <1>3, <2>1, SelNothing
<1>7. l \o m \in Seq(S) /\ Sel(S, B, m) \in Seq(S)
  BY <1>1, <1>2, ConcatProperties, SelTyped
<1>8. Sel(S, B, s) = Sel(S, B, l \o m) \o Sel(S, B, r)
  BY <1>3, <1>4, <1>7, SelConcat
<1>9. Sel(S, B, l \o m) = Sel(S, B, l) \o Sel(S, B, m)
  BY <1>1, <1>2, SelConcat
<1>10. <<>> \o Sel(S, B, m) = Sel(S, B, m) /\ Sel(S, B, m) \o <<>> = Sel(S, B, m)
  BY <1>7, ConcatEmptySeq
<1> QED
  BY <1>5, <1>6, <1>8, <1>9, <1>10 DEF m

\* The larger and the smaller of two.
LEMMA LargerOfTwo ==
    ASSUME NEW a \in Int, NEW b \in Int
    PROVE  /\ Max({a, b}) = IF a >= b THEN a ELSE b
           /\ Min({a, b}) = IF a <= b THEN a ELSE b
<1>1. ASSUME NEW x \in {a, b}, \A y \in {a, b} : x >= y
      PROVE  x = IF a >= b THEN a ELSE b
  BY <1>1
<1>2. ASSUME NEW x \in {a, b}, \A y \in {a, b} : x <= y
      PROVE  x = IF a <= b THEN a ELSE b
  BY <1>2
<1>3. \E x \in {a, b} : \A y \in {a, b} : x >= y
  OBVIOUS
<1>4. \E x \in {a, b} : \A y \in {a, b} : x <= y
  OBVIOUS
<1>5. Max({a, b}) \in {a, b} /\ \A y \in {a, b} : Max({a, b}) >= y
  BY <1>3 DEF Max
<1>6. Min({a, b}) \in {a, b} /\ \A y \in {a, b} : Min({a, b}) <= y
  BY <1>4 DEF Min
<1> QED
  BY <1>1, <1>2, <1>5, <1>6

\* f unfolds into the parts out, going from d to next[d] until a place of stop.
Unfolds(D, stop, out, next, f) ==
    \A d \in D : f[d] = IF d \in stop THEN out[d] ELSE out[d] \o f[next[d]]

\* The places of rank below m.
Below(D, rank, m) == {d \in D : rank[d] < m}

\* When each step goes to a lower rank there is such a function.
LEMMA UnfoldsExist ==
    ASSUME NEW T, NEW D, NEW stop, NEW out \in [D -> Seq(T)], NEW next \in [D -> D],
           NEW rank \in [D -> Nat], NEW N \in Nat, \A d \in D : rank[d] < N,
           \A d \in D : d \notin stop => rank[next[d]] < rank[d]
    PROVE  \E f \in [D -> Seq(T)] : Unfolds(D, stop, out, next, f)
<1> DEFINE val(f, d) == IF d \in stop THEN out[d] ELSE out[d] \o f[next[d]]
           is(m, f) == \A d \in Below(D, rank, m) : f[d] = val(f, d)
           has(m) == \E f \in [Below(D, rank, m) -> Seq(T)] : is(m, f)
           Good == {m \in Nat : has(m)}
<1>1. 0 \in Good
  <2> DEFINE f == [d \in Below(D, rank, 0) |-> out[d]]
  <2>1. Below(D, rank, 0) = {}
    BY DEF Below
  <2>2. f \in [Below(D, rank, 0) -> Seq(T)] /\ is(0, f)
    BY <2>1
  <2> HIDE DEF f, is
  <2> QED
    BY <2>2
<1>2. ASSUME NEW m \in Good
      PROVE  m + 1 \in Good
  <2>1. m \in Nat /\ has(m)
    OBVIOUS
  <2>2. PICK f \in [Below(D, rank, m) -> Seq(T)] : is(m, f)
    BY <2>1
  <2> DEFINE g == [d \in Below(D, rank, m + 1) |-> val(f, d)]
  <2>3. ASSUME NEW d \in Below(D, rank, m + 1), d \notin stop
        PROVE  next[d] \in Below(D, rank, m)
    <3>1. d \in D /\ next[d] \in D /\ rank[next[d]] < rank[d] /\ rank[d] < m + 1
      BY <2>3 DEF Below
    <3>2. rank[d] \in Nat /\ rank[next[d]] \in Nat
      BY <3>1
    <3>3. rank[next[d]] < m
      BY <2>1, <3>1, <3>2
    <3> QED
      BY <3>1, <3>3 DEF Below
  <2>4. ASSUME NEW d \in Below(D, rank, m)
        PROVE  d \in Below(D, rank, m + 1) /\ g[d] = f[d]
    <3>1. d \in Below(D, rank, m + 1)
      BY <2>1 DEF Below
    <3>2. g[d] = val(f, d)
      BY <3>1
    <3> HIDE DEF g, val
    <3> QED
      BY <2>2, <3>1, <3>2
  <2>5. ASSUME NEW d \in Below(D, rank, m + 1)
        PROVE  val(f, d) \in Seq(T)
    <3>1. d \in D /\ out[d] \in Seq(T)
      BY DEF Below
    <3>2. d \notin stop => f[next[d]] \in Seq(T)
      BY <2>3
    <3> QED
      BY <3>1, <3>2, ConcatProperties
  <2>6. is(m + 1, g)
    <3> SUFFICES ASSUME NEW d \in Below(D, rank, m + 1)
                 PROVE  g[d] = val(g, d)
      OBVIOUS
    <3>1. g[d] = val(f, d)
      OBVIOUS
    <3>2. d \notin stop => g[next[d]] = f[next[d]]
      BY <2>3, <2>4
    <3> HIDE DEF g
    <3> QED
      BY <3>1, <3>2
  <2>7. g \in [Below(D, rank, m + 1) -> Seq(T)]
    <3> HIDE DEF val
    <3> QED
      BY <2>5
  <2>8. has(m + 1)
    <3> HIDE DEF g, is
    <3> QED
      BY <2>6, <2>7
  <2> HIDE DEF has
  <2> QED
    BY <2>1, <2>8
<1>3. Good = Nat
  <2>1. Good \in SUBSET Nat
    OBVIOUS
  <2> HIDE DEF Good
  <2> QED
    BY <1>1, <1>2, <2>1, NatSetInduction
<1>4. has(N)
  <2> HIDE DEF has
  <2> QED
    BY <1>3
<1>5. Below(D, rank, N) = D
  BY DEF Below
<1> QED
  BY <1>4, <1>5 DEF Unfolds

-----------------------------------------------------------------------------
(***************************************************************************)
(* A function applied to each element, and what occurs in a sequence.      *)
(***************************************************************************)
\* A sequence with g applied to each of its elements.
Mapped(g, s) == [i \in DOMAIN s |-> g[s[i]]]

\* Nothing, and one element more.
LEMMA MappedLaws ==
    ASSUME NEW R, NEW W, NEW g \in [R -> W]
    PROVE  /\ Mapped(g, <<>>) = <<>>
           /\ \A s \in Seq(R) : Mapped(g, s) \in Seq(W) /\ Len(Mapped(g, s)) = Len(s)
           /\ \A s \in Seq(R), x \in R : Mapped(g, Append(s, x)) = Append(Mapped(g, s), g[x])
<1>1. Mapped(g, <<>>) = <<>>
  <2> DEFINE e == <<>>
             c == Mapped(g, e)
  <2>1. DOMAIN e = {} /\ \A f : f \in [{} -> W] => f = e
    <3>1. e \in Seq(W) /\ Len(e) = 0 /\ DOMAIN e = {}
      BY EmptySeq
    <3> QED
      BY <3>1
  <2>2. c \in [{} -> W]
    BY <2>1 DEF Mapped
  <2> QED
    BY <2>1, <2>2
<1>2. ASSUME NEW s \in Seq(R)
      PROVE  Mapped(g, s) \in Seq(W) /\ Len(Mapped(g, s)) = Len(s)
  <2> DEFINE n == Len(s)
             c == Mapped(g, s)
  <2>1. n \in Nat /\ DOMAIN s = 1..n /\ \A i \in 1..n : s[i] \in R
    BY LenProperties, ElementOfSeq
  <2> HIDE DEF n
  <2>2. c \in [1..n -> W]
    BY <2>1 DEF Mapped
  <2> HIDE DEF c
  <2>3. c \in Seq(W) /\ Len(c) = n
    BY <2>1, <2>2
  <2> QED
    BY <2>3 DEF c, n
<1>3. ASSUME NEW s \in Seq(R), NEW x \in R
      PROVE  Mapped(g, Append(s, x)) = Append(Mapped(g, s), g[x])
  <2> DEFINE v == Append(s, x)
             c == Mapped(g, s)
             n == Len(s)
             y == g[x]
  <2>1. /\ v \in Seq(R) /\ n \in Nat /\ Len(v) = n + 1 /\ v[n + 1] = x
        /\ \A j \in 1..n : v[j] = s[j]
        /\ \A j \in 1..(n + 1) : j = n + 1 \/ j \in 1..n
    BY AppendIs
  <2>2. DOMAIN v = 1..(n + 1) /\ DOMAIN s = 1..n
    <3>1. DOMAIN v = 1..Len(v) /\ DOMAIN s = 1..n
      BY <2>1, LenProperties
    <3> HIDE DEF v, n
    <3> QED
      BY <2>1, <3>1
  <2>3. c \in Seq(W) /\ Len(c) = n /\ y \in W
    BY <1>2
  <2>4. Append(c, y) = [i \in 1..(Len(c) + 1) |-> IF i = Len(c) + 1 THEN y ELSE c[i]]
    <3> HIDE DEF c, y
    <3> QED
      BY <2>3, AppendIsMap
  <2>5. \A j \in 1..n : c[j] = g[s[j]]
    BY <2>2 DEF Mapped
  <2>6. Mapped(g, v) = [i \in 1..(n + 1) |-> g[v[i]]]
    BY <2>2 DEF Mapped
  <2> HIDE DEF v, c, n
  <2>7. \A i \in 1..(n + 1) : g[v[i]] = IF i = n + 1 THEN y ELSE c[i]
    BY <2>1, <2>5
  <2> HIDE DEF y
  <2>8. Mapped(g, v) = Append(c, y)
    BY <2>3, <2>4, <2>6, <2>7
  <2> QED
    BY <2>8 DEF v, c, y
<1> QED
  BY <1>1, <1>2, <1>3

\* The statement of MappedConcat, as one predicate.
Maps(g, R, W) == g \in [R -> W]
MapsParts(g, R, W) == \A s, t \in Seq(R) : Mapped(g, s \o t) = Mapped(g, s) \o Mapped(g, t)

\* Two sequences in turn.
LEMMA MappedConcat ==
    ASSUME NEW R, NEW W, NEW g, Maps(g, R, W)
    PROVE  MapsParts(g, R, W)
<1>1. g \in [R -> W]
  BY DEF Maps
<1>2. ASSUME NEW s \in Seq(R), NEW t \in Seq(R)
      PROVE  Mapped(g, s \o t) = Mapped(g, s) \o Mapped(g, t)
  <2> DEFINE v == s \o t
             n == Len(s)
             k == Len(t)
             a == Mapped(g, s)
             b == Mapped(g, t)
             c == Mapped(g, v)
             d == a \o b
  <2>1. v \in Seq(R) /\ n \in Nat /\ k \in Nat /\ Len(v) = n + k
        /\ \A j \in 1..(n + k) : v[j] = IF j <= n THEN s[j] ELSE t[j - n]
    BY ConcatProperties, LenProperties
  <2>2. a \in Seq(W) /\ b \in Seq(W) /\ Len(a) = n /\ Len(b) = k
    BY <1>1, MappedLaws
  <2>3. c \in Seq(W) /\ Len(c) = n + k
    <3> HIDE DEF v, n, k
    <3> QED
      BY <1>1, <2>1, MappedLaws
  <2>4. /\ DOMAIN s = 1..n /\ DOMAIN t = 1..k
        /\ \A i \in 1..n : a[i] = g[s[i]]
        /\ \A i \in 1..k : b[i] = g[t[i]]
    BY LenProperties DEF Mapped
  <2>5. \A i \in 1..(n + k) : c[i] = g[v[i]]
    <3>1. DOMAIN v = 1..Len(v)
      BY <2>1, LenProperties
    <3> HIDE DEF v
    <3> QED
      BY <2>1, <3>1 DEF Mapped
  <2> HIDE DEF a, b, c, n, k, v
  <2>6. d \in Seq(W) /\ Len(d) = n + k
        /\ \A j \in 1..(n + k) : d[j] = IF j <= n THEN a[j] ELSE b[j - n]
    BY <2>2, ConcatProperties
  <2> HIDE DEF d
  <2>7. ASSUME NEW j \in 1..(n + k)
        PROVE  c[j] = d[j]
    <3>1. CASE j <= n
      <4>1. j \in 1..n
        BY <2>1, <3>1
      <4>2. v[j] = s[j] /\ d[j] = a[j]
        BY <2>1, <2>6, <3>1
      <4>3. c[j] = g[v[j]] /\ a[j] = g[s[j]]
        BY <2>4, <2>5, <4>1
      <4> QED
        BY <4>2, <4>3
    <3>2. CASE ~(j <= n)
      <4>1. j - n \in 1..k
        BY <2>1, <3>2
      <4>2. v[j] = t[j - n] /\ d[j] = b[j - n]
        BY <2>1, <2>6, <3>2
      <4>3. c[j] = g[v[j]]
        BY <2>5
      <4>4. b[j - n] = g[t[j - n]]
        BY <2>4, <4>1
      <4> QED
        BY <4>2, <4>3, <4>4
    <3> QED
      BY <3>1, <3>2
  <2>8. c = d
    <3>1. c = [j \in 1..(n + k) |-> c[j]] /\ d = [j \in 1..(n + k) |-> d[j]]
      BY <2>3, <2>6, LenProperties
    <3> QED
      BY <2>7, <3>1
  <2> QED
    BY <2>8 DEF c, d, v, a, b
<1> QED
  BY <1>2 DEF MapsParts

\* Two tests that agree on the elements of s keep the same of it.
LEMMA SelSame ==
    ASSUME NEW S, NEW U \in SUBSET S, NEW B, NEW C, \A e \in U : e \in B <=> e \in C,
           NEW s \in Seq(U)
    PROVE  Sel(S, B, s) = Sel(S, C, s)
<1> DEFINE b(u) == Sel(S, B, u)
           c(u) == Sel(S, C, u)
           G == {u \in Seq(U) : b(u) = c(u)}
<1>1. /\ b(<<>>) = <<>> /\ c(<<>>) = <<>>
      /\ \A u \in Seq(S), e \in S :
            /\ e \in B => b(Append(u, e)) = Append(b(u), e)
            /\ e \notin B => b(Append(u, e)) = b(u)
            /\ e \in C => c(Append(u, e)) = Append(c(u), e)
            /\ e \notin C => c(Append(u, e)) = c(u)
  BY SelNone, SelAppend
<1>2. Seq(U) \in SUBSET Seq(S)
  OBVIOUS
<1> HIDE DEF b, c
<1>3. <<>> \in G
  BY <1>1, EmptySeq
<1>4. ASSUME NEW u \in G, NEW e \in U
      PROVE  Append(u, e) \in G
  <2>1. /\ u \in Seq(U) /\ u \in Seq(S) /\ e \in S /\ Append(u, e) \in Seq(U)
        /\ b(u) = c(u) /\ (e \in B <=> e \in C)
    BY <1>2, AppendProperties
  <2>2. b(Append(u, e)) = c(Append(u, e))
    <3>1. CASE e \in B
      BY <1>1, <2>1, <3>1, SMTT(30)
    <3>2. CASE e \notin B
      BY <1>1, <2>1, <3>2
    <3> QED
      BY <3>1, <3>2
  <2> DEFINE w == Append(u, e)
  <2>3. w \in Seq(U) /\ b(w) = c(w)
    BY <2>1, <2>2
  <2> HIDE DEF w
  <2>4. w \in G
    BY <2>3
  <2> QED
    BY <2>4 DEF w
<1>5. G \in SUBSET Seq(U)
  OBVIOUS
<1> HIDE DEF G
<1>6. G = Seq(U)
  BY <1>3, <1>4, <1>5, SeqSetInduction
<1> QED
  BY <1>6 DEF G, b, c

\* An element occurs in s.
Occurs(e, s) == \E i \in 1..Len(s) : s[i] = e

\* In one element more, and in two sequences in turn.
LEMMA OccursLaws ==
    ASSUME NEW S, NEW s \in Seq(S)
    PROVE  /\ \A x \in S : \A e : Occurs(e, Append(s, x)) <=> Occurs(e, s) \/ e = x
           /\ \A t \in Seq(S) : \A e : Occurs(e, s \o t) <=> Occurs(e, s) \/ Occurs(e, t)
<1> DEFINE n == Len(s)
<1>1. ASSUME NEW x \in S, NEW e
      PROVE  Occurs(e, Append(s, x)) <=> Occurs(e, s) \/ e = x
  <2> DEFINE v == Append(s, x)
  <2>1. /\ n \in Nat /\ Len(v) = n + 1 /\ v[n + 1] = x
        /\ \A j \in 1..n : v[j] = s[j]
        /\ \A j \in 1..(n + 1) : j = n + 1 \/ j \in 1..n
    BY AppendIs
  <2> HIDE DEF v, n
  <2>2. n + 1 \in 1..(n + 1) /\ \A j \in 1..n : j \in 1..(n + 1)
    BY <2>1
  <2> QED
    BY <2>1, <2>2 DEF Occurs, v, n
<1>2. ASSUME NEW t \in Seq(S), NEW e
      PROVE  Occurs(e, s \o t) <=> Occurs(e, s) \/ Occurs(e, t)
  <2> DEFINE v == s \o t
             m == Len(t)
  <2>1. n \in Nat /\ m \in Nat /\ Len(v) = n + m
        /\ \A j \in 1..(n + m) : v[j] = IF j <= n THEN s[j] ELSE t[j - n]
    BY ConcatProperties, LenProperties
  <2> HIDE DEF v, n, m
  <2>2. ASSUME NEW j \in 1..(n + m)
        PROVE  (j <= n /\ j \in 1..n /\ v[j] = s[j]) \/ (j - n \in 1..m /\ v[j] = t[j - n])
    BY <2>1
  <2>3. ASSUME NEW j \in 1..n
        PROVE  j \in 1..(n + m) /\ v[j] = s[j]
    BY <2>1
  <2>4. ASSUME NEW j \in 1..m
        PROVE  j + n \in 1..(n + m) /\ v[j + n] = t[j]
    <3>1. j + n \in 1..(n + m) /\ ~(j + n <= n) /\ (j + n) - n = j
      BY <2>1
    <3> QED
      BY <2>1, <3>1
  <2>5. Occurs(e, v) => Occurs(e, s) \/ Occurs(e, t)
    BY <2>1, <2>2 DEF Occurs, n, m
  <2>6. Occurs(e, s) => Occurs(e, v)
    BY <2>1, <2>3 DEF Occurs, n, m
  <2>7. Occurs(e, t) => Occurs(e, v)
    BY <2>1, <2>4 DEF Occurs, n, m
  <2> QED
    BY <2>5, <2>6, <2>7 DEF v
<1> QED
  BY <1>1, <1>2

\* What is kept occurs, and what passes the test and occurs is kept.
LEMMA SelOccurs ==
    ASSUME NEW S, NEW B, NEW s \in Seq(S)
    PROVE  \A e \in B : Occurs(e, s) <=> Occurs(e, Sel(S, B, s))
<1> DEFINE b(u) == Sel(S, B, u)
           G == {u \in Seq(S) : \A e \in B : Occurs(e, u) <=> Occurs(e, b(u))}
<1>1. /\ b(<<>>) = <<>>
      /\ \A u \in Seq(S), e \in S :
            /\ e \in B => b(Append(u, e)) = Append(b(u), e)
            /\ e \notin B => b(Append(u, e)) = b(u)
      /\ \A u \in Seq(S) : b(u) \in Seq(S)
  BY SelNone, SelAppend, SelTyped
<1> HIDE DEF b
<1>2. <<>> \in G
  BY <1>1, EmptySeq
<1>3. ASSUME NEW u \in G, NEW x \in S
      PROVE  Append(u, x) \in G
  <2>1. u \in Seq(S) /\ (\A e \in B : Occurs(e, u) <=> Occurs(e, b(u))) /\ Append(u, x) \in Seq(S) /\ b(u) \in Seq(S)
    BY <1>1, AppendProperties
  <2>2. ASSUME NEW e \in B
        PROVE  Occurs(e, Append(u, x)) <=> Occurs(e, b(Append(u, x)))
    <3>1. Occurs(e, Append(u, x)) <=> Occurs(e, u) \/ e = x
      BY <2>1, OccursLaws
    <3>2. Occurs(e, Append(b(u), x)) <=> Occurs(e, b(u)) \/ e = x
      BY <2>1, OccursLaws
    <3> QED
      BY <1>1, <2>1, <3>1, <3>2
  <2> QED
    BY <2>1, <2>2
<1>4. G \in SUBSET Seq(S)
  OBVIOUS
<1> HIDE DEF G
<1>5. G = Seq(S)
  BY <1>2, <1>3, <1>4, SeqSetInduction
<1> QED
  BY <1>5 DEF G, b

\* What occurs in the whole occurs in one of the parts.
LEMMA FlattenOccurs ==
    ASSUME NEW S, NEW t \in Seq(Seq(S))
    PROVE  \A e : Occurs(e, FlattenSeq(t)) <=> \E i \in 1..Len(t) : Occurs(e, t[i])
<1> DEFINE T == Seq(S)
           some(e, u) == \E i \in 1..Len(u) : Occurs(e, u[i])
           G == {u \in Seq(T) : \A e : Occurs(e, FlattenSeq(u)) <=> some(e, u)}
<1>1. /\ FlattenSeq(<<>>) = <<>>
      /\ \A u \in Seq(T) : FlattenSeq(u) \in Seq(S)
      /\ \A u \in Seq(T), x \in T : FlattenSeq(Append(u, x)) = FlattenSeq(u) \o x
  BY FlattenLaws
<1>2. <<>> \in G
  BY <1>1, EmptySeq DEF Occurs
<1>3. ASSUME NEW u \in G, NEW x \in T
      PROVE  Append(u, x) \in G
  <2> DEFINE v == Append(u, x)
             n == Len(u)
  <2>1. u \in Seq(T) /\ \A e : Occurs(e, FlattenSeq(u)) <=> some(e, u)
    OBVIOUS
  <2>2. /\ v \in Seq(T) /\ n \in Nat /\ Len(v) = n + 1 /\ v[n + 1] = x
        /\ \A j \in 1..n : v[j] = u[j]
        /\ \A j \in 1..(n + 1) : j = n + 1 \/ j \in 1..n
    BY <2>1, AppendIs
  <2>3. \A e : Occurs(e, FlattenSeq(v)) <=> Occurs(e, FlattenSeq(u)) \/ Occurs(e, x)
    <3> DEFINE f == FlattenSeq(u)
    <3>1. f \in Seq(S) /\ x \in Seq(S) /\ FlattenSeq(v) = f \o x
      BY <1>1, <2>1
    <3> HIDE DEF f, T, v
    <3>2. \A e : Occurs(e, f \o x) <=> Occurs(e, f) \/ Occurs(e, x)
      BY <3>1, OccursLaws
    <3> QED
      BY <3>1, <3>2 DEF f
  <2> HIDE DEF v, n
  <2>4. n + 1 \in 1..(n + 1) /\ \A j \in 1..n : j \in 1..(n + 1)
    BY <2>2
  <2>5. \A e : some(e, v) <=> some(e, u) \/ Occurs(e, x)
    BY <2>2, <2>4 DEF n
  <2> HIDE DEF some
  <2> QED
    BY <2>1, <2>2, <2>3, <2>5 DEF v
<1>4. G \in SUBSET Seq(T)
  OBVIOUS
<1> HIDE DEF G
<1>5. G = Seq(T)
  BY <1>2, <1>3, <1>4, SeqSetInduction
<1> QED
  BY <1>5 DEF G

=============================================================================
