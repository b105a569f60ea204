-------------------------- MODULE KnowledgeProofs ---------------------------
(***************************************************************************)
(* What the knowledge bases answer and learn, for any lists, questions,    *)
(* bases, edits and bounds: the loops of applyPrecedence withdraw what the *)
(* rule names, an answer served from the cache is current, a question has  *)
(* one open gap, a promotion resolves its gap, and nothing asked is lost.  *)
(***************************************************************************)
EXTENDS MCPrecedence, AnswerCache, LearningGaps, DataLemmas

(***************************************************************************)
(* Precedence. Each of the two loops of applyPrecedence is a fold over the *)
(* list; its result after the first k places is given in closed form, and  *)
(* the form at the end of the list is the rule.                            *)
(***************************************************************************)

\* The list that applyPrecedence is given, and what is known of its drafts.
PrecedenceTypes ==
    /\ list \in Seq(Drafts)
    /\ refOf \in [Drafts -> Refs \cup {NoRef}]
    /\ supersedesOf \in [Drafts -> Drafts \cup {P!NoDraft}]
    /\ promotedAt \in [Drafts -> Int]

\* e is a newer version of what d was made from.
Newer(e, d) == P!Newer(e, d, promotedAt)
\* e is a newer version of the source of d.
Beats(e, d) == refOf[e] = refOf[d] /\ Newer(e, d)

\* isNewer orders the drafts.
LEMMA NewerOrders ==
    ASSUME PrecedenceTypes
    PROVE  /\ \A d \in Drafts : ~ Newer(d, d)
           /\ \A c, d, e \in Drafts : Newer(c, d) /\ Newer(d, e) => Newer(c, e)
           /\ \A d, e \in Drafts : d = e \/ Newer(d, e) \/ Newer(e, d)
<1>1. \A d \in Drafts : d \in Int /\ promotedAt[d] \in Int
  BY MCPrecedenceAssumption DEF PrecedenceTypes
<1> QED
  BY <1>1 DEF Newer, P!Newer

\* Of finitely many drafts one is the newest.
LEMMA NewestIsThere ==
    ASSUME PrecedenceTypes, NEW T \in SUBSET Drafts, IsFiniteSet(T), T # {}
    PROVE  \E w \in T : \A e \in T : ~ Newer(e, w)
<1> DEFINE has(t) == \E w \in t : \A e \in t : ~ Newer(e, w)
           Good == {n \in Nat : \A t \in SUBSET T : Cardinality(t) = n + 1 => has(t)}
<1>1. \A t \in SUBSET T : IsFiniteSet(t) /\ Cardinality(t) \in Nat /\ (Cardinality(t) = 0 <=> t = {})
  BY FS_Subset, FS_CardinalityType, FS_EmptySet
<1>2. 0 \in Good
  <2> SUFFICES ASSUME NEW t \in SUBSET T, Cardinality(t) = 1
               PROVE  has(t)
    OBVIOUS
  <2>1. PICK x : t = {x}
    BY <1>1, FS_Singleton
  <2>2. ~ Newer(x, x)
    BY <2>1, NewerOrders
  <2> QED
    BY <2>1, <2>2
<1>3. ASSUME NEW n \in Good
      PROVE  n + 1 \in Good
  <2> SUFFICES ASSUME NEW t \in SUBSET T, Cardinality(t) = (n + 1) + 1
               PROVE  has(t)
    OBVIOUS
  <2>1. n \in Nat /\ t # {}
    BY <1>1
  <2>2. PICK x \in t : TRUE
    BY <2>1
  <2>3. Cardinality(t \ {x}) = n + 1
    BY <1>1, <2>1, OneLess
  <2>4. PICK w \in t \ {x} : \A e \in t \ {x} : ~ Newer(e, w)
    BY <2>3
  <2>5. CASE Newer(x, w)
    <3>1. \A e \in t : ~ Newer(e, x)
      BY <2>4, <2>5, NewerOrders
    <3> QED
      BY <3>1
  <2>6. CASE ~ Newer(x, w)
    BY <2>4, <2>6
  <2> QED
    BY <2>5, <2>6
<1>4. Good = Nat
  <2>1. Good \in SUBSET Nat
    OBVIOUS
  <2> HIDE DEF Good
  <2> QED
    BY <1>2, <1>3, <2>1, NatSetInduction
<1>5. Cardinality(T) - 1 \in Good /\ (Cardinality(T) - 1) + 1 = Cardinality(T)
  BY <1>1, <1>4
<1>6. has(T)
  BY <1>5
<1> QED
  BY <1>6

-----------------------------------------------------------------------------
\* Two functions that fold a list step by step in the same way agree.
LEMMA FoldsAgree ==
    ASSUME NEW n \in Nat, NEW f, NEW g, f[{}] = g[{}],
           \A k \in 0..(n - 1) : f[1..k] = g[1..k] => f[1..(k + 1)] = g[1..(k + 1)]
    PROVE  f[1..n] = g[1..n]
<1> DEFINE Good == {k \in Nat : k <= n => f[1..k] = g[1..k]}
<1>1. 0 \in Good
  <2>1. 1..0 = {}
    OBVIOUS
  <2> QED
    BY <2>1
<1>2. ASSUME NEW k \in Good
      PROVE  k + 1 \in Good
  OBVIOUS
<1>3. Good = Nat
  <2>1. Good \in SUBSET Nat
    OBVIOUS
  <2> HIDE DEF Good
  <2> QED
    BY <1>1, <1>2, <2>1, NatSetInduction
<1> QED
  BY <1>3

\* The last of the places of a list, and of some of them.
LEMMA LastPlace ==
    ASSUME PrecedenceTypes
    PROVE  /\ Len(list) \in Nat /\ DOMAIN list = 1..Len(list)
           /\ \A s \in SUBSET DOMAIN list : s # {} => P!Max(s) \in s
           /\ \A k \in 0..(Len(list) - 1) :
                 P!Max(1..(k + 1)) = k + 1 /\ (1..(k + 1)) \ {k + 1} = 1..k
<1>1. Len(list) \in Nat /\ DOMAIN list = 1..Len(list)
  BY LenProperties DEF PrecedenceTypes
<1>2. ASSUME NEW s \in SUBSET DOMAIN list, s # {}
      PROVE  P!Max(s) \in s
  <2>1. s \in SUBSET Nat /\ \A i \in s : i <= Len(list)
    BY <1>1
  <2>2. PICK m \in s : \A i \in s : i <= m
    BY <1>1, <1>2, <2>1, GreatestNatural
  <2>3. \A i \in s : m >= i
    BY <2>1, <2>2
  <2> QED
    BY <2>3 DEF P!Max
<1>3. ASSUME NEW k \in 0..(Len(list) - 1)
      PROVE  P!Max(1..(k + 1)) = k + 1 /\ (1..(k + 1)) \ {k + 1} = 1..k
  <2>1. k \in Nat
    BY <1>1
  <2>2. k + 1 \in 1..(k + 1) /\ \A i \in 1..(k + 1) : k + 1 >= i
    BY <2>1
  <2>3. \A m \in 1..(k + 1) : (\A i \in 1..(k + 1) : m >= i) => m = k + 1
    BY <2>1
  <2>4. P!Max(1..(k + 1)) = k + 1
    BY <2>2, <2>3 DEF P!Max
  <2> QED
    BY <2>1, <2>4
<1> QED
  BY <1>1, <1>2, <1>3

-----------------------------------------------------------------------------
\* What supersedesDraftId names.
Named == P!ExplicitVictims(Listed)

\* g is the function that ExplicitPass applies to the places of the list.
ExplicitFold(g) ==
    g = [s \in SUBSET DOMAIN list |->
            IF s = {} THEN {}
            ELSE g[s \ {P!Max(s)}] \cup P!NamedVictim(list[P!Max(s)], P!Range(list))]

\* The first loop withdraws what the rule names.
LEMMA ExplicitIs ==
    ASSUME PrecedenceTypes
    PROVE  P!ExplicitPass(list) = Named
<1> DEFINE named(i) == P!NamedVictim(list[i], P!Range(list))
           whole == [s \in SUBSET DOMAIN list |-> UNION {named(i) : i \in s}]
<1>1. ExplicitFold(whole)
  <2>1. ASSUME NEW s \in SUBSET DOMAIN list, s # {}
        PROVE  whole[s] = whole[s \ {P!Max(s)}] \cup named(P!Max(s))
    <3>1. P!Max(s) \in s
      BY <2>1, LastPlace
    <3>2. whole[s] = UNION {named(i) : i \in s}
          /\ whole[s \ {P!Max(s)}] = UNION {named(i) : i \in s \ {P!Max(s)}}
      OBVIOUS
    <3> HIDE DEF whole, named
    <3> QED
      BY <3>1, <3>2
  <2>2. whole[{}] = {}
    OBVIOUS
  <2>3. whole = [s \in SUBSET DOMAIN list |->
                   IF s = {} THEN {} ELSE whole[s \ {P!Max(s)}] \cup named(P!Max(s))]
    <3>1. whole = [s \in SUBSET DOMAIN list |-> whole[s]]
      OBVIOUS
    <3> HIDE DEF whole, named
    <3> QED
      BY <2>1, <2>2, <3>1
  <2> HIDE DEF whole
  <2> QED
    BY <2>3 DEF ExplicitFold
<1> DEFINE f == CHOOSE g : ExplicitFold(g)
<1>2. P!ExplicitPass(list) = f[DOMAIN list]
  BY DEF P!ExplicitPass, P!FoldLeft, P!MapThenFoldSet, ExplicitFold
<1>3. ExplicitFold(f)
  <2> HIDE DEF whole
  <2> QED
    BY <1>1
<1> HIDE DEF f
<1>4. f[DOMAIN list] = whole[DOMAIN list]
  <2> HIDE DEF whole
  <2>1. f[{}] = whole[{}]
    BY <1>1, <1>3 DEF ExplicitFold
  <2>2. ASSUME NEW k \in 0..(Len(list) - 1), f[1..k] = whole[1..k]
        PROVE  f[1..(k + 1)] = whole[1..(k + 1)]
    <3>1. 1..(k + 1) \in SUBSET DOMAIN list /\ 1..(k + 1) # {}
      BY LastPlace
    <3>2. P!Max(1..(k + 1)) = k + 1 /\ (1..(k + 1)) \ {k + 1} = 1..k
      BY LastPlace
    <3>3. \A g : ExplicitFold(g) => g[1..(k + 1)] = g[1..k] \cup named(k + 1)
      <4> DEFINE t == 1..(k + 1)
      <4>1. \A g : ExplicitFold(g) => g[t] = g[t \ {P!Max(t)}] \cup named(P!Max(t))
        <5> HIDE DEF t
        <5> QED
          BY <3>1 DEF ExplicitFold, t
      <4> QED
        BY <3>2, <4>1
    <3>4. f[1..(k + 1)] = f[1..k] \cup named(k + 1)
      BY <1>3, <3>3
    <3>5. whole[1..(k + 1)] = whole[1..k] \cup named(k + 1)
      BY <1>1, <3>3
    <3> QED
      BY <2>2, <3>4, <3>5
  <2>3. f[1..Len(list)] = whole[1..Len(list)]
    BY <2>1, <2>2, LastPlace, FoldsAgree
  <2> QED
    BY <2>3, LastPlace
<1>5. whole[DOMAIN list] = UNION {named(i) : i \in DOMAIN list}
  OBVIOUS
<1>6. UNION {named(i) : i \in DOMAIN list} = Named
  <2>1. P!Range(list) = Listed
    BY DEF P!Range, Listed
  <2> QED
    BY <2>1 DEF P!NamedVictim, Named, P!ExplicitVictims, Listed
<1> QED
  BY <1>2, <1>4, <1>5, <1>6

-----------------------------------------------------------------------------
\* What the second loop has met after the places in s, and made of it.
Seen(s)  == {list[i] : i \in s}
Rest(s)  == Seen(s) \ Named
\* Drafts that two of the places hold.
Again(s) == {d \in Rest(s) : \E i, j \in s : i # j /\ list[i] = d /\ list[j] = d}
\* The newest version of each source: what the map of winners holds.
Leaders(s) ==
    {d \in Rest(s) : refOf[d] # NoRef /\ \A e \in Rest(s) : ~ Beats(e, d)}
\* What was withdrawn so far.
Gone(s) ==
    Named \cup {d \in Rest(s) : refOf[d] # NoRef /\ (d \in Again(s) \/ \E e \in Rest(s) : Beats(e, d))}

\* One of the drafts met beats every other version of its source.
LEMMA LeaderIsThere ==
    ASSUME PrecedenceTypes, NEW s \in SUBSET DOMAIN list, NEW d \in Rest(s), refOf[d] # NoRef
    PROVE  \E w \in Leaders(s) : refOf[w] = refOf[d] /\ (w = d \/ Newer(w, d))
<1> DEFINE T == {e \in Rest(s) : refOf[e] = refOf[d]}
<1>1. T \in SUBSET Drafts
  BY ElementOfSeq, LenProperties DEF PrecedenceTypes, Rest, Seen
<1>2. IsFiniteSet(T)
  BY <1>1, MCPrecedenceAssumption, FS_Subset
<1>3. PICK w \in T : \A e \in T : ~ Newer(e, w)
  BY <1>1, <1>2, NewestIsThere
<1>4. w \in Leaders(s)
  BY <1>3 DEF Leaders, Beats
<1>5. d \in T /\ (w = d \/ Newer(w, d))
  BY <1>1, <1>3, NewerOrders
<1> QED
  BY <1>4, <1>5

\* One round of the second loop.
LEMMA RoundIs ==
    ASSUME PrecedenceTypes, NEW s \in SUBSET DOMAIN list, NEW x \in s
    PROVE  P!SourceRound([winner |-> Leaders(s \ {x}), gone |-> Gone(s \ {x})], list[x], promotedAt)
             = [winner |-> Leaders(s), gone |-> Gone(s)]
<1> DEFINE r == s \ {x}
           d == list[x]
           acc == [winner |-> Leaders(r), gone |-> Gone(r)]
           leaders == {w \in Leaders(r) : refOf[w] = refOf[d]}
<1>1. /\ d \in Drafts /\ Seen(s) \in SUBSET Drafts /\ Seen(s) = Seen(r) \cup {d}
  BY ElementOfSeq, LenProperties DEF PrecedenceTypes, Seen
<1>2. /\ Rest(r) \subseteq Drafts /\ Rest(s) \subseteq Drafts
      /\ d \in Named => Rest(s) = Rest(r)
      /\ d \notin Named => Rest(s) = Rest(r) \cup {d}
  BY <1>1 DEF Rest
<1>3. \A e \in Rest(s) \ {d} : e \in Rest(r) /\ (e \in Again(s) <=> e \in Again(r))
  BY <1>2 DEF Again
<1>4. d \in Again(s) <=> d \in Rest(r)
  <2>1. d \in Rest(r) => \E j \in r : list[j] = d
    BY DEF Rest, Seen
  <2>2. d \in Rest(r) => d \in Again(s)
    BY <1>2, <2>1 DEF Again
  <2>3. d \in Again(s) => d \in Rest(r)
    BY DEF Again, Rest, Seen
  <2> QED
    BY <2>2, <2>3
<1>5. Again(r) \subseteq Again(s)
  BY <1>2 DEF Again
<1>6. P!SourceRound(acc, d, promotedAt)
        = IF d \in Gone(r) \/ refOf[d] = NoRef THEN acc
          ELSE IF \E w \in leaders : ~ Newer(d, w) THEN [acc EXCEPT !.gone = @ \cup {d}]
          ELSE [winner |-> (Leaders(r) \ leaders) \cup {d}, gone |-> Gone(r) \cup leaders]
  BY DEF P!SourceRound, P!TakesOver, Newer
<1> HIDE DEF r, d
<1>7. CASE d \in Named
  <2>1. Rest(s) = Rest(r) /\ Again(s) = Again(r)
    BY <1>2, <1>3, <1>5, <1>7 DEF Again, Rest
  <2>2. Leaders(s) = Leaders(r) /\ Gone(s) = Gone(r) /\ d \in Gone(r)
    BY <1>7, <2>1 DEF Leaders, Gone
  <2> QED
    BY <1>6, <2>2 DEF r, d
<1>8. CASE d \notin Named /\ refOf[d] = NoRef
  <2>1. \A e \in Rest(s) : refOf[e] # NoRef => ~ Beats(d, e) /\ e # d
    BY <1>8 DEF Beats
  <2>2. Leaders(s) = Leaders(r)
    BY <1>2, <1>8, <2>1 DEF Leaders
  <2>3. Gone(s) = Gone(r)
    BY <1>2, <1>3, <1>5, <1>8, <2>1 DEF Gone
  <2> QED
    BY <1>6, <1>8, <2>2, <2>3 DEF r, d
<1>9. CASE d \notin Named /\ refOf[d] # NoRef /\ d \in Gone(r)
  <2>1. d \in Rest(r) /\ Rest(s) = Rest(r)
    BY <1>2, <1>9 DEF Gone
  <2>2. Leaders(s) = Leaders(r)
    BY <2>1 DEF Leaders
  <2>3. Gone(s) = Gone(r)
    BY <1>3, <1>5, <1>9, <2>1 DEF Gone
  <2> QED
    BY <1>6, <1>9, <2>2, <2>3 DEF r, d
<1>10. CASE d \notin Named /\ refOf[d] # NoRef /\ d \notin Gone(r)
  <2>1. \A w \in leaders : w \in Rest(r) /\ w \in Drafts /\ refOf[w] = refOf[d]
    BY <1>2 DEF Leaders
  <2>2. \A v, w \in leaders : v = w
    <3>1. \A v, w \in leaders : ~ Newer(v, w)
      BY <2>1 DEF Leaders, Beats
    <3> QED
      BY <2>1, <3>1, NewerOrders
  <2>3. CASE \E w \in leaders : ~ Newer(d, w)
    <3>1. PICK w \in leaders : ~ Newer(d, w)
      BY <2>3
    <3>2. w = d \/ Newer(w, d)
      BY <1>1, <2>1, <3>1, NewerOrders
    <3>3. CASE w = d
      <4>1. Rest(s) = Rest(r) /\ d \in Rest(r) /\ d \in Again(s)
        BY <1>2, <1>4, <1>10, <2>1, <3>3
      <4>2. Leaders(s) = Leaders(r)
        BY <4>1 DEF Leaders
      <4>3. Gone(s) = Gone(r) \cup {d}
        BY <1>3, <1>5, <1>10, <4>1 DEF Gone
      <4> QED
        BY <1>6, <1>10, <2>3, <4>2, <4>3 DEF r, d
    <3>4. CASE Newer(w, d)
      <4>1. Beats(w, d) /\ w \in Rest(r)
        BY <2>1, <3>4 DEF Beats
      <4>2. d \notin Rest(r)
        BY <1>10, <4>1 DEF Gone
      <4>3. Rest(s) = Rest(r) \cup {d} /\ Again(s) = Again(r)
        BY <1>2, <1>3, <1>4, <1>5, <1>10, <4>2 DEF Again
      <4>4. \A v \in Rest(r) : Beats(d, v) => Beats(w, v)
        <5> SUFFICES ASSUME NEW v \in Rest(r), Beats(d, v)
                     PROVE  Beats(w, v)
          OBVIOUS
        <5>1. v \in Drafts /\ w \in Drafts
          BY <1>2, <2>1
        <5> QED
          BY <1>1, <3>4, <4>1, <5>1, NewerOrders DEF Beats
      <4>5. Leaders(s) = Leaders(r)
        BY <4>1, <4>3, <4>4 DEF Leaders
      <4>6. ~ Beats(d, d)
        BY <1>1, NewerOrders DEF Beats
      <4>7. Gone(s) = Gone(r) \cup {d}
        BY <1>10, <4>1, <4>3, <4>4 DEF Gone
      <4> QED
        BY <1>6, <1>10, <2>3, <4>5, <4>7 DEF r, d
    <3> QED
      BY <3>2, <3>3, <3>4
  <2>4. CASE \A w \in leaders : Newer(d, w)
    <3>1. d \notin Leaders(r)
      BY <1>1, <2>4, NewerOrders
    <3>2. d \notin Rest(r)
      BY <1>10, <3>1 DEF Leaders, Gone
    <3>3. Rest(s) = Rest(r) \cup {d} /\ Again(s) = Again(r)
      BY <1>2, <1>3, <1>4, <1>5, <1>10, <3>2 DEF Again
    <3>4. \A v \in Rest(r) : ~ Beats(v, d)
      <4> SUFFICES ASSUME NEW v \in Rest(r), Beats(v, d)
                   PROVE  FALSE
        OBVIOUS
      <4>1. refOf[v] = refOf[d] /\ Newer(v, d)
        BY DEF Beats
      <4>2. PICK w \in Leaders(r) : refOf[w] = refOf[v] /\ (w = v \/ Newer(w, v))
        <5>1. r \in SUBSET DOMAIN list
          BY DEF r
        <5> QED
          BY <1>10, <4>1, <5>1, LeaderIsThere
      <4>3. w \in leaders /\ Newer(d, w) /\ w \in Drafts /\ v \in Drafts
        BY <1>2, <2>1, <2>4, <4>1, <4>2
      <4> QED
        BY <1>1, <4>1, <4>2, <4>3, NewerOrders
    <3>5. ~ Beats(d, d)
      BY <1>1, NewerOrders DEF Beats
    <3>6. \A v \in Leaders(r) : Beats(d, v) <=> v \in leaders
      BY <2>4 DEF Beats
    <3>7. Leaders(s) = (Leaders(r) \ leaders) \cup {d}
      BY <1>10, <3>3, <3>4, <3>5, <3>6 DEF Leaders
    <3>8. Gone(s) = Gone(r) \cup leaders
      <4>1. \A v \in Rest(r) : refOf[v] # NoRef =>
               (v \in Gone(s) <=> v \in Gone(r) \/ v \in leaders)
        <5> SUFFICES ASSUME NEW v \in Rest(r), refOf[v] # NoRef
                     PROVE  v \in Gone(s) <=> v \in Gone(r) \/ v \in leaders
          OBVIOUS
        <5>1. v \in Gone(r) \/ v \in Leaders(r)
          BY DEF Gone, Leaders
        <5>2. v \in Gone(r) => v \in Gone(s)
          BY <3>3 DEF Gone
        <5>3. v \in leaders => v \in Gone(s)
          BY <3>3, <3>6 DEF Gone
        <5>4. v \in Gone(s) => v \in Gone(r) \/ Beats(d, v)
          BY <3>3 DEF Gone
        <5> QED
          BY <3>6, <5>1, <5>2, <5>3, <5>4
      <4>2. d \notin Gone(s)
        BY <1>10, <3>2, <3>3, <3>4, <3>5 DEF Gone, Again
      <4>3. \A v \in leaders : v \in Rest(r) /\ refOf[v] # NoRef
        BY DEF Leaders
      <4>4. \A v \in Gone(s) : v \in Named \/ (v \in Rest(s) /\ refOf[v] # NoRef)
        BY DEF Gone
      <4>5. \A v \in Gone(r) : v \in Named \/ (v \in Rest(r) /\ refOf[v] # NoRef)
        BY DEF Gone
      <4>6. Named \subseteq Gone(s) /\ Named \subseteq Gone(r)
        BY DEF Gone
      <4> HIDE DEF leaders
      <4> QED
        BY <3>3, <4>1, <4>2, <4>3, <4>4, <4>5, <4>6
    <3> QED
      BY <1>6, <1>10, <2>4, <3>7, <3>8 DEF r, d
  <2> QED
    BY <2>3, <2>4
<1> QED
  BY <1>7, <1>8, <1>9, <1>10

\* g is the function that SourcePass applies to the places of the list.
SourceFold(g) ==
    g = [s \in SUBSET DOMAIN list |->
            IF s = {} THEN [winner |-> {}, gone |-> P!ExplicitPass(list)]
            ELSE P!SourceRound(g[s \ {P!Max(s)}], list[P!Max(s)], promotedAt)]

\* The second loop ends with the leaders and the drafts gone of the list.
LEMMA SourceIs ==
    ASSUME PrecedenceTypes
    PROVE  P!SupersededByLoops(list, promotedAt) = Gone(DOMAIN list)
<1> DEFINE whole == [s \in SUBSET DOMAIN list |-> [winner |-> Leaders(s), gone |-> Gone(s)]]
<1>1. SourceFold(whole)
  <2>1. ASSUME NEW s \in SUBSET DOMAIN list, s # {}
        PROVE  whole[s] = P!SourceRound(whole[s \ {P!Max(s)}], list[P!Max(s)], promotedAt)
    <3>1. P!Max(s) \in s
      BY <2>1, LastPlace
    <3>2. /\ whole[s] = [winner |-> Leaders(s), gone |-> Gone(s)]
          /\ whole[s \ {P!Max(s)}]
               = [winner |-> Leaders(s \ {P!Max(s)}), gone |-> Gone(s \ {P!Max(s)})]
      OBVIOUS
    <3> HIDE DEF whole
    <3> QED
      BY <3>1, <3>2, RoundIs
  <2>2. whole[{}] = [winner |-> {}, gone |-> P!ExplicitPass(list)]
    <3>1. Leaders({}) = {} /\ Gone({}) = Named
      BY DEF Leaders, Gone, Rest, Seen
    <3> QED
      BY <3>1, ExplicitIs
  <2>3. whole = [s \in SUBSET DOMAIN list |-> whole[s]]
    OBVIOUS
  <2> HIDE DEF whole
  <2> QED
    BY <2>1, <2>2, <2>3 DEF SourceFold
<1> DEFINE f == CHOOSE g : SourceFold(g)
<1>2. P!SupersededByLoops(list, promotedAt) = f[DOMAIN list].gone
  BY DEF P!SupersededByLoops, P!SourcePass, P!FoldLeft, P!MapThenFoldSet, SourceFold
<1>3. SourceFold(f)
  <2> HIDE DEF whole
  <2> QED
    BY <1>1
<1> HIDE DEF f
<1>4. f[DOMAIN list] = whole[DOMAIN list]
  <2> HIDE DEF whole
  <2>1. f[{}] = whole[{}]
    BY <1>1, <1>3 DEF SourceFold
  <2>2. ASSUME NEW k \in 0..(Len(list) - 1), f[1..k] = whole[1..k]
        PROVE  f[1..(k + 1)] = whole[1..(k + 1)]
    <3>1. 1..(k + 1) \in SUBSET DOMAIN list /\ 1..(k + 1) # {}
      BY LastPlace
    <3>2. P!Max(1..(k + 1)) = k + 1 /\ (1..(k + 1)) \ {k + 1} = 1..k
      BY LastPlace
    <3>3. f[1..(k + 1)] = P!SourceRound(f[1..k], list[k + 1], promotedAt)
      BY <1>3, <3>1, <3>2 DEF SourceFold
    <3>4. whole[1..(k + 1)] = P!SourceRound(whole[1..k], list[k + 1], promotedAt)
      BY <1>1, <3>1, <3>2 DEF SourceFold
    <3> QED
      BY <2>2, <3>3, <3>4
  <2>3. f[1..Len(list)] = whole[1..Len(list)]
    BY <2>1, <2>2, LastPlace, FoldsAgree
  <2> QED
    BY <2>3, LastPlace
<1> QED
  BY <1>2, <1>4

\* More than one place holds a draft iff two places do.
LEMMA TwiceIs ==
    ASSUME PrecedenceTypes
    PROVE  Twice = {d \in Listed : \E i, j \in DOMAIN list : i # j /\ list[i] = d /\ list[j] = d}
<1> SUFFICES ASSUME NEW d
             PROVE  Cardinality({i \in DOMAIN list : list[i] = d}) > 1
                      <=> \E i, j \in DOMAIN list : i # j /\ list[i] = d /\ list[j] = d
  BY DEF Twice
<1> DEFINE places == {i \in DOMAIN list : list[i] = d}
<1>1. IsFiniteSet(places) /\ Cardinality(places) \in Nat
  <2>1. IsFiniteSet(1..Len(list))
    BY LastPlace, FS_Interval
  <2> QED
    BY <2>1, LastPlace, FS_Subset, FS_CardinalityType
<1>2. ASSUME NEW i \in places, NEW j \in places, i # j
      PROVE  Cardinality(places) > 1
  <2>1. {i, j} \subseteq places /\ Cardinality({i, j}) = 2
    <3>1. IsFiniteSet({i}) /\ Cardinality({i}) = 1 /\ j \notin {i}
      BY <1>2, FS_Singleton
    <3>2. Cardinality({i} \cup {j}) = Cardinality({i}) + 1
      BY <3>1, FS_AddElement
    <3>3. {i} \cup {j} = {i, j} /\ {i, j} \subseteq places
      OBVIOUS
    <3> HIDE DEF places
    <3> QED
      BY <3>1, <3>2, <3>3
  <2>2. Cardinality({i, j}) <= Cardinality(places)
    BY <1>1, <2>1, FS_Subset
  <2> QED
    BY <1>1, <2>1, <2>2
<1>3. ASSUME \A i, j \in places : i = j
      PROVE  ~ (Cardinality(places) > 1)
  <2>1. places = {} \/ \E i : places = {i}
    BY <1>3
  <2>2. Cardinality({}) = 0 /\ \A i : Cardinality({i}) = 1
    BY FS_EmptySet, FS_Singleton
  <2> HIDE DEF places
  <2>3. CASE places = {}
    BY <2>2, <2>3
  <2>4. CASE \E i : places = {i}
    <3>1. Cardinality(places) = 1
      BY <2>2, <2>4
    <3> QED
      BY <3>1
  <2> QED
    BY <2>1, <2>3, <2>4
<1> QED
  BY <1>2, <1>3

\* Both loops together withdraw what the rule names.
LEMMA LoopsAgree ==
    ASSUME PrecedenceTypes
    PROVE  LoopsComputeTheRule
<1>1. Seen(DOMAIN list) = Listed
  BY DEF Seen, Listed
<1>2. Again(DOMAIN list) = Twice \ Named
  BY <1>1, TwiceIs DEF Again, Rest
<1>3. \A d, e : Beats(e, d) <=> refOf[e] = refOf[d] /\ P!Newer(e, d, promotedAt)
  BY DEF Beats, Newer
<1>4. Gone(DOMAIN list) = P!Superseded(Listed, Twice, promotedAt)
  BY <1>1, <1>2, <1>3 DEF Gone, Rest, Named, P!Superseded, P!SourceVictims
<1> QED
  BY <1>4, SourceIs DEF LoopsComputeTheRule

\* Listing a draft keeps the types.
LEMMA ListsTyped == PrecedenceSpec => []PrecedenceTypes
<1>1. PrecedenceInit => PrecedenceTypes
  BY MCPrecedenceAssumption DEF PrecedenceInit, PrecedenceTypes
<1>2. PrecedenceTypes /\ [PrecedenceNext]_precedenceVars => PrecedenceTypes'
  <2>1. ASSUME PrecedenceTypes, NEW d \in Drafts, ListDraft(d)
        PROVE  PrecedenceTypes'
    <3>1. list' \in Seq(Drafts) /\ UNCHANGED <<refOf, supersedesOf, promotedAt>>
      BY <2>1, AppendProperties DEF PrecedenceTypes, ListDraft
    <3> QED
      BY <2>1, <3>1 DEF PrecedenceTypes
  <2>2. PrecedenceTypes /\ UNCHANGED precedenceVars => PrecedenceTypes'
    BY DEF PrecedenceTypes, precedenceVars
  <2> QED
    BY <2>1, <2>2 DEF PrecedenceNext
<1> QED
  BY <1>1, <1>2, PTL DEF PrecedenceSpec

(***************************************************************************)
(* For any list, with repeated drafts, cycles of supersedesDraftId and     *)
(* drafts of equal dates, the two loops withdraw what the rule says: the   *)
(* drafts another names, and of every source all but the newest version    *)
(* (applyPrecedence).                                                      *)
(***************************************************************************)
THEOREM LoopsAreTheRule == PrecedenceSpec => []LoopsComputeTheRule
<1>1. PrecedenceTypes => LoopsComputeTheRule
  BY LoopsAgree
<1> QED
  BY <1>1, ListsTyped, PTL

-----------------------------------------------------------------------------
(***************************************************************************)
(* Answers. What was read under a version stands until a finished export   *)
(* outdates it: no build that began before is under way, and what was read *)
(* is still there or the base is dirty. A key is taken before anything is  *)
(* read, so nothing an answer was made of is older than its key.           *)
(***************************************************************************)
\* The names of kept answers.
Keys == [ns : (SUBSET Bases) \ {{}}, version : 0..runs]

\* A build of b is under way.
Busy(b) == build[b].pc # "idle"

\* The types, and what a build, the flag and the export runs know of each other.
KbInv ==
    /\ runs \in Nat
    /\ dirty \in [Bases -> BOOLEAN]
    /\ DOMAIN mirror = Bases /\ DOMAIN graph = Bases /\ DOMAIN build = Bases
    /\ published \in [Bases -> 0..runs]
    /\ \A b \in Bases :
          /\ build[b].run \in 0..runs
          /\ build[b].pc \in {"idle", "export", "mirrored", "exported", "loaded"}
          /\ build[b].pc \in {"export", "mirrored"} => published[b] < build[b].run
          /\ build[b].pc \in {"exported", "loaded"} => published[b] = build[b].run
          /\ Busy(b) /\ b \notin rebuiltClean => dirty[b]

\* What was read under version v: outdated by a finished export, or no build
\* that began before it is under way.
Stands(b, v) == published[b] > v \/ (Busy(b) => build[b].run > v)

\* The same of what was read in the graph, and in both places.
StandsWith(b, v, same) ==
    published[b] > v \/ ((Busy(b) => build[b].run > v) /\ (same \/ dirty[b]))

\* What is in the graph and in the mirror of b.
Both(b) == [graph |-> graph[b], mirror |-> mirror[b]]

\* The vector search found no dirty base: no older build may still change the
\* graph under the key.
SearchedInv ==
    asked.pc = "searched" /\ ~asked.dirty =>
        \A b \in asked.key.ns \ rebuiltClean : Stands(b, asked.key.version)

\* The context was read: if nothing was soft, the graph read still stands.
FoundInv ==
    asked.pc = "found" /\ ~asked.soft =>
        \A b \in asked.key.ns \ rebuiltClean :
            StandsWith(b, asked.key.version, asked.graph[b] = graph[b])

\* The answer is being written from what was seen.
GeneratingInv ==
    asked.pc = "generating" =>
        \A b \in asked.key.ns \ rebuiltClean :
            StandsWith(b, asked.key.version, asked.seen[b] = Both(b))

\* The same of an answer that is kept.
EntryInv(e) ==
    /\ e.key \in Keys
    /\ \A b \in e.key.ns \ rebuiltClean :
          StandsWith(b, e.key.version, e.seen[b] = Both(b))

\* The question under way.
AskedInv ==
    /\ asked.pc \in {"none", "keyed", "searched", "found", "generating"}
    /\ asked.pc # "none" => asked.key \in Keys
    /\ asked.pc = "searched" => asked.dirty \in BOOLEAN
    /\ asked.pc = "found" => asked.soft \in BOOLEAN
    /\ SearchedInv /\ FoundInv /\ GeneratingInv

\* The cache holds only entries that stand.
KeptInv ==
    /\ cache \in Seq(ToSet(cache))
    /\ \A e \in ToSet(cache) : EntryInv(e)

\* The bases, the question and the cache.
AnswerInv == KbInv /\ AskedInv /\ KeptInv

\* Nothing is asked and nothing is kept at the start.
LEMMA AnswersInitially == AnswerInit => AnswerInv
<1> SUFFICES ASSUME AnswerInit
             PROVE  AnswerInv
  OBVIOUS
<1>1. KbInv
  BY DEF AnswerInit, KbInv, NoBuild, Busy
<1>2. AskedInv
  BY DEF AnswerInit, AskedInv, NotAsked, SearchedInv, FoundInv, GeneratingInv
<1>3. KeptInv
  <2>1. ToSet(<<>>) = {}
    BY DEF ToSet
  <2> QED
    BY <2>1, EmptySeq DEF AnswerInit, KeptInv
<1> QED
  BY <1>1, <1>2, <1>3 DEF AnswerInv

\* The name of base is published[b] at most.
LEMMA VersionIs ==
    ASSUME KbInv, NEW ns \in (SUBSET Bases) \ {{}}
    PROVE  Key(ns) \in Keys /\ Key(ns).ns = ns /\ \A b \in ns : published[b] <= Key(ns).version
<1> DEFINE S == {published[b] : b \in ns}
<1>1. runs \in Nat /\ \A b \in Bases : published[b] \in 0..runs
  BY DEF KbInv
<1>2. S \in SUBSET Nat /\ S \subseteq 0..runs /\ S # {} /\ \A n \in S : n <= runs
  BY <1>1
<1>3. \E m \in S : \A n \in S : n <= m
  <2> HIDE DEF S
  <2> QED
    BY <1>1, <1>2, GreatestNatural
<1>4. Newest(S) \in S /\ \A n \in S : n <= Newest(S)
  BY <1>3 DEF Newest
<1>5. Key(ns).version = Newest(S) /\ Key(ns).ns = ns /\ Key(ns) = [ns |-> ns, version |-> Newest(S)]
  BY DEF Key, DataVersion
<1>6. Newest(S) \in 0..runs
  BY <1>2, <1>4
<1>7. \A b \in ns : published[b] \in S
  OBVIOUS
<1> HIDE DEF S
<1> QED
  BY <1>4, <1>5, <1>6, <1>7 DEF Keys

-----------------------------------------------------------------------------
\* What a step of the bases may do to base b, in its order of events.
Unmoved(b) ==
    /\ graph'[b] = graph[b] /\ mirror'[b] = mirror[b] /\ (dirty[b] => dirty'[b])

\* What is read under a version v stands, or a later step outdates it.
KbKeeps(b) ==
    \A v \in 0..runs :
        /\ published[b] > v => published'[b] > v
        /\ (Busy(b) => build[b].run > v) =>
              \/ published'[b] > v
              \/ (Busy(b)' => build'[b].run > v) /\ (Unmoved(b) \/ dirty'[b])

\* An edit of the chunking, which marks nothing dirty.
LEMMA EditKeeps ==
    ASSUME KbInv, EditChunking
    PROVE  KbInv' /\ \A b \in Bases : KbKeeps(b)
<1>1. UNCHANGED <<dirty, mirror, graph, build, published, runs, rebuiltClean>>
  BY DEF EditChunking
<1>2. KbInv'
  BY <1>1 DEF KbInv, Busy
<1>3. ASSUME NEW b \in Bases
      PROVE  KbKeeps(b)
  BY <1>1 DEF KbKeeps, Busy, Unmoved
<1> QED
  BY <1>2, <1>3

\* A draft is promoted or withdrawn: the base becomes dirty.
LEMMA DecideKeeps ==
    ASSUME KbInv, NEW k \in Bases, Decide(k)
    PROVE  KbInv' /\ \A b \in Bases : KbKeeps(b)
<1>1. /\ UNCHANGED <<mirror, graph, published, runs, rebuiltClean>>
      /\ dirty' = [dirty EXCEPT ![k] = TRUE]
      /\ DOMAIN build' = DOMAIN build
      /\ \A b \in Bases : build'[b].pc = build[b].pc /\ build'[b].run = build[b].run
  BY DEF Decide, KbInv
<1> QED
  BY <1>1 DEF KbInv, Busy, KbKeeps, Unmoved

\* A build begins; that of a clean base is noted.
LEMMA StartKeeps ==
    ASSUME KbInv, NEW k \in Bases, StartBuild(k)
    PROVE  KbInv' /\ \A b \in Bases \ rebuiltClean' : KbKeeps(b)
<1>1. /\ UNCHANGED <<dirty, mirror, graph, published>>
      /\ runs' = runs + 1 /\ ~Busy(k)
      /\ DOMAIN build' = DOMAIN build
      /\ \A b \in Bases \ {k} : build'[b] = build[b]
      /\ build'[k].pc = "export" /\ build'[k].run = runs + 1
      /\ rebuiltClean' = IF dirty[k] THEN rebuiltClean ELSE rebuiltClean \cup {k}
  BY DEF StartBuild, KbInv, Busy
<1>2. runs \in Nat /\ runs' \in Nat /\ \A n \in 0..runs : n \in 0..runs'
  BY <1>1 DEF KbInv
<1>3. published' \in [Bases -> 0..runs']
  BY <1>1, <1>2 DEF KbInv
<1>4. \A b \in Bases \ {k} : /\ build'[b].run \in 0..runs' /\ published'[b] = published[b]
                             /\ (Busy(b) /\ b \notin rebuiltClean => dirty[b])
  BY <1>1, <1>2 DEF KbInv
<1>5. KbInv'
  BY <1>1, <1>2, <1>3, <1>4 DEF KbInv, Busy
<1>6. ASSUME NEW b \in Bases \ rebuiltClean'
      PROVE  KbKeeps(b)
  BY <1>1, <1>2 DEF KbKeeps, Busy, Unmoved, KbInv
<1> QED
  BY <1>5, <1>6

\* What a build leaves alone as it goes on.
LEMMA GoesOn ==
    ASSUME KbInv, NEW k \in Bases, NEW from, NEW to,
           to \in {"mirrored", "exported", "loaded"}, BuildGoes(k, from, to)
    PROVE  /\ UNCHANGED <<dirty, runs, rebuiltClean>>
           /\ build[k].pc = from /\ build'[k].pc = to /\ build'[k].run = build[k].run
           /\ DOMAIN build' = DOMAIN build
           /\ \A b \in Bases \ {k} : build'[b] = build[b]
BY DEF BuildGoes, KbInv

\* A build writes the mirror.
LEMMA MirrorKeeps ==
    ASSUME KbInv, NEW k \in Bases, WriteMirror(k)
    PROVE  KbInv' /\ \A b \in Bases \ rebuiltClean' : KbKeeps(b)
<1>1. /\ UNCHANGED <<dirty, runs, rebuiltClean, graph, published>>
      /\ build[k].pc = "export" /\ build'[k].pc = "mirrored" /\ build'[k].run = build[k].run
      /\ DOMAIN build' = DOMAIN build
      /\ \A b \in Bases \ {k} : build'[b] = build[b]
      /\ DOMAIN mirror' = DOMAIN mirror /\ \A b \in Bases \ {k} : mirror'[b] = mirror[b]
  <2>1. BuildGoes(k, "export", "mirrored")
    BY DEF WriteMirror
  <2> QED
    BY <2>1, GoesOn DEF WriteMirror, KbInv
<1>2. KbInv'
  BY <1>1 DEF KbInv, Busy
<1>3. ASSUME NEW b \in Bases \ rebuiltClean'
      PROVE  KbKeeps(b)
  BY <1>1 DEF KbKeeps, Busy, Unmoved, KbInv
<1> QED
  BY <1>2, <1>3

\* The export is finished: its run is the version of the base.
LEMMA FinishKeeps ==
    ASSUME KbInv, NEW k \in Bases, FinishExport(k)
    PROVE  KbInv' /\ \A b \in Bases : KbKeeps(b)
<1>1. /\ UNCHANGED <<dirty, runs, rebuiltClean, graph, mirror>>
      /\ build[k].pc = "mirrored" /\ build'[k].pc = "exported" /\ build'[k].run = build[k].run
      /\ DOMAIN build' = DOMAIN build
      /\ \A b \in Bases \ {k} : build'[b] = build[b]
      /\ published' = [published EXCEPT ![k] = build[k].run]
  <2>1. BuildGoes(k, "mirrored", "exported")
    BY DEF FinishExport
  <2> QED
    BY <2>1, GoesOn DEF FinishExport
<1>2. KbInv'
  BY <1>1 DEF KbInv, Busy
<1>3. ASSUME NEW b \in Bases
      PROVE  KbKeeps(b)
  BY <1>1 DEF KbKeeps, Busy, Unmoved, KbInv
<1> QED
  BY <1>2, <1>3

\* The graph is loaded.
LEMMA LoadKeeps ==
    ASSUME KbInv, NEW k \in Bases, LoadGraph(k)
    PROVE  KbInv' /\ \A b \in Bases : KbKeeps(b)
<1>1. /\ UNCHANGED <<dirty, runs, rebuiltClean, published, mirror>>
      /\ build[k].pc = "exported" /\ build'[k].pc = "loaded" /\ build'[k].run = build[k].run
      /\ DOMAIN build' = DOMAIN build
      /\ \A b \in Bases \ {k} : build'[b] = build[b]
      /\ DOMAIN graph' = DOMAIN graph /\ \A b \in Bases \ {k} : graph'[b] = graph[b]
  <2>1. BuildGoes(k, "exported", "loaded")
    BY DEF LoadGraph
  <2> QED
    BY <2>1, GoesOn DEF LoadGraph, KbInv
<1>2. KbInv'
  BY <1>1 DEF KbInv, Busy
<1>3. ASSUME NEW b \in Bases
      PROVE  KbKeeps(b)
  BY <1>1 DEF KbKeeps, Busy, Unmoved, KbInv
<1> QED
  BY <1>2, <1>3

\* A build ends, and clears the flag unless it must stay.
LEMMA EndKeepsKb ==
    ASSUME KbInv, NEW k \in Bases, Settle(k) \/ BuildFails(k)
    PROVE  KbInv' /\ \A b \in Bases : KbKeeps(b)
<1>1. /\ UNCHANGED <<runs, rebuiltClean, published, mirror, graph>>
      /\ build'[k].pc = "idle" /\ build'[k].run = 0
      /\ DOMAIN build' = DOMAIN build
      /\ \A b \in Bases \ {k} : build'[b] = build[b] /\ dirty'[b] = dirty[b]
      /\ dirty' \in [Bases -> BOOLEAN]
      /\ dirty' = dirty \/ build[k].pc = "loaded"
  <2>1. /\ UNCHANGED <<runs, rebuiltClean, published, mirror, graph>>
        /\ build' = [build EXCEPT ![k] = NoBuild]
    BY DEF Settle, BuildFails, BuildEnds
  <2>2. /\ \A b \in Bases \ {k} : dirty'[b] = dirty[b]
        /\ dirty' \in [Bases -> BOOLEAN]
        /\ dirty' = dirty \/ build[k].pc = "loaded"
    <3>1. CASE Settle(k)
      <4>1. dirty' = [dirty EXCEPT ![k] = dirty[k] /\ build[k].overtaken]
        BY <3>1 DEF Settle
      <4>2. (dirty[k] /\ build[k].overtaken) \in BOOLEAN
        OBVIOUS
      <4>3. build[k].pc = "loaded"
        BY <3>1 DEF Settle
      <4> DEFINE x == dirty[k] /\ build[k].overtaken
      <4> HIDE DEF x
      <4>4. dirty' = [dirty EXCEPT ![k] = x] /\ x \in BOOLEAN
        BY <4>1, <4>2 DEF x
      <4> QED
        BY <4>3, <4>4 DEF KbInv
    <3>2. CASE BuildFails(k)
      BY <3>2 DEF BuildFails, KbInv
    <3> QED
      BY <3>1, <3>2
  <2> QED
    BY <2>1, <2>2 DEF KbInv, NoBuild
<1>2. KbInv'
  BY <1>1 DEF KbInv, Busy
<1>3. ASSUME NEW b \in Bases
      PROVE  KbKeeps(b)
  <2>1. CASE b # k
    BY <1>1, <2>1 DEF KbKeeps, Busy, Unmoved, KbInv
  <2>2. CASE b = k /\ dirty' = dirty
    BY <1>1, <2>2 DEF KbKeeps, Busy, Unmoved, KbInv
  <2>3. CASE b = k /\ build[k].pc = "loaded"
    BY <1>1, <2>3 DEF KbKeeps, Busy, Unmoved, KbInv
  <2> QED
    BY <1>1, <2>1, <2>2, <2>3
<1> QED
  BY <1>2, <1>3

\* What every step of the bases keeps.
KbMoves ==
    /\ KbInv' /\ rebuiltClean \subseteq rebuiltClean' /\ runs <= runs'
    /\ UNCHANGED <<asked, cache>>
    /\ \A b \in Bases \ rebuiltClean' : KbKeeps(b)

\* Every step of the bases.
LEMMA KbStepKeeps == KbInv /\ KbStep => KbMoves
<1> SUFFICES ASSUME KbInv, KbStep
             PROVE  KbMoves
  OBVIOUS
<1>0. runs \in Nat
  BY DEF KbInv
<1>1. CASE EditChunking
  BY <1>0, <1>1, EditKeeps DEF EditChunking, KbMoves
<1>2. ASSUME NEW k \in Bases, Decide(k)
      PROVE  KbMoves
  <2>1. UNCHANGED <<runs, rebuiltClean, asked, cache>>
    BY <1>2 DEF Decide
  <2> QED
    BY <1>0, <1>2, <2>1, DecideKeeps DEF KbMoves
<1>3. ASSUME NEW k \in Bases, StartBuild(k)
      PROVE  KbMoves
  <2>1. UNCHANGED <<asked, cache>> /\ rebuiltClean \subseteq rebuiltClean' /\ runs' = runs + 1
    BY <1>3 DEF StartBuild
  <2> QED
    BY <1>0, <1>3, <2>1, StartKeeps DEF KbMoves
<1>4. ASSUME NEW k \in Bases, WriteMirror(k)
      PROVE  KbMoves
  <2>1. UNCHANGED <<runs, rebuiltClean, asked, cache>>
    BY <1>4 DEF WriteMirror, BuildGoes
  <2> QED
    BY <1>0, <1>4, <2>1, MirrorKeeps DEF KbMoves
<1>5. ASSUME NEW k \in Bases, FinishExport(k)
      PROVE  KbMoves
  <2>1. UNCHANGED <<runs, rebuiltClean, asked, cache>>
    BY <1>5 DEF FinishExport, BuildGoes
  <2> QED
    BY <1>0, <1>5, <2>1, FinishKeeps DEF KbMoves
<1>6. ASSUME NEW k \in Bases, LoadGraph(k)
      PROVE  KbMoves
  <2>1. UNCHANGED <<runs, rebuiltClean, asked, cache>>
    BY <1>6 DEF LoadGraph, BuildGoes
  <2> QED
    BY <1>0, <1>6, <2>1, LoadKeeps DEF KbMoves
<1>7. ASSUME NEW k \in Bases, Settle(k) \/ BuildFails(k)
      PROVE  KbMoves
  <2>1. UNCHANGED <<runs, rebuiltClean, asked, cache>>
    BY <1>7 DEF Settle, BuildFails, BuildEnds
  <2> QED
    BY <1>0, <1>7, <2>1, EndKeepsKb DEF KbMoves
<1> QED
  BY <1>1, <1>2, <1>3, <1>4, <1>5, <1>6, <1>7 DEF KbStep

-----------------------------------------------------------------------------
\* A step of the bases spoils nothing that was read.
LEMMA StandsStays ==
    ASSUME NEW b, NEW v \in 0..runs, KbKeeps(b), Stands(b, v)
    PROVE  Stands(b, v)'
BY DEF KbKeeps, Stands

\* So what stood still stands.
LEMMA StandsWithStays ==
    ASSUME NEW b, NEW v \in 0..runs, KbKeeps(b), NEW same, NEW next,
           StandsWith(b, v, same), Unmoved(b) /\ same => next
    PROVE  published'[b] > v \/ ((Busy(b)' => build'[b].run > v) /\ (next \/ dirty'[b]))
<1>1. CASE published[b] > v
  BY <1>1 DEF KbKeeps
<1>2. CASE (Busy(b) => build[b].run > v) /\ (same \/ dirty[b])
  <2>1. \/ published'[b] > v
        \/ (Busy(b)' => build'[b].run > v) /\ (Unmoved(b) \/ dirty'[b])
    BY <1>2 DEF KbKeeps
  <2>2. Unmoved(b) => next \/ dirty'[b]
    BY <1>2 DEF Unmoved
  <2> QED
    BY <2>1, <2>2
<1> QED
  BY <1>1, <1>2 DEF StandsWith

\* The bases move while a question is under way and answers are kept.
LEMMA KbStepAnswers == AnswerInv /\ KbStep => AnswerInv'
<1> SUFFICES ASSUME AnswerInv, KbStep
             PROVE  AnswerInv'
  OBVIOUS
<1>0. KbInv /\ AskedInv /\ KeptInv
  BY DEF AnswerInv
<1>1. KbMoves
  BY <1>0, KbStepKeeps
<1>2. KbInv' /\ asked' = asked /\ cache' = cache
  BY <1>1 DEF KbMoves
<1>3. Keys \subseteq Keys'
  <2>1. runs \in Nat /\ runs' \in Nat /\ runs <= runs'
    BY <1>0, <1>1, <1>2 DEF KbInv, KbMoves
  <2>2. 0..runs \subseteq 0..runs'
    BY <2>1
  <2> QED
    BY <2>2 DEF Keys
<1>4. \A k \in Keys : /\ k.version \in 0..runs
                      /\ \A b \in k.ns \ rebuiltClean' : KbKeeps(b) /\ b \in k.ns \ rebuiltClean
  BY <1>1 DEF Keys, KbMoves
<1>5. SearchedInv'
  <2> SUFFICES ASSUME asked.pc = "searched", ~asked.dirty, NEW b \in asked.key.ns \ rebuiltClean'
               PROVE  Stands(b, asked.key.version)'
    BY <1>2 DEF SearchedInv
  <2>1. asked.key \in Keys
    BY <1>0 DEF AskedInv
  <2>2. Stands(b, asked.key.version)
    BY <1>0, <1>4, <2>1 DEF AskedInv, SearchedInv
  <2> QED
    BY <1>2, <1>4, <2>1, <2>2, StandsStays DEF Stands
<1>6. FoundInv'
  <2> SUFFICES ASSUME asked.pc = "found", ~asked.soft, NEW b \in asked.key.ns \ rebuiltClean'
               PROVE  StandsWith(b, asked.key.version, asked.graph[b] = graph[b])'
    BY <1>2 DEF FoundInv
  <2>1. asked.key \in Keys
    BY <1>0 DEF AskedInv
  <2>2. StandsWith(b, asked.key.version, asked.graph[b] = graph[b])
    BY <1>0, <1>4, <2>1 DEF AskedInv, FoundInv
  <2>3. Unmoved(b) /\ asked.graph[b] = graph[b] => asked.graph[b] = graph'[b]
    BY DEF Unmoved
  <2> DEFINE same == asked.graph[b] = graph[b]
             next == asked.graph[b] = graph'[b]
             v == asked.key.version
  <2>4. v \in 0..runs /\ KbKeeps(b)
    BY <1>4, <2>1
  <2> HIDE DEF same, next, v
  <2>5. StandsWith(b, v, same) /\ (Unmoved(b) /\ same => next)
    BY <2>2, <2>3 DEF same, next, v
  <2>6. published'[b] > v \/ ((Busy(b)' => build'[b].run > v) /\ (next \/ dirty'[b]))
    BY <2>4, <2>5, StandsWithStays
  <2> QED
    BY <1>2, <2>6 DEF StandsWith, next, v
<1>7. ASSUME NEW k \in Keys, NEW seen, NEW b \in k.ns \ rebuiltClean',
             StandsWith(b, k.version, seen[b] = Both(b))
      PROVE  StandsWith(b, k.version, seen[b] = Both(b))'
  <2> DEFINE same == seen[b] = Both(b)
             next == seen[b] = Both(b)'
             v == k.version
  <2>1. v \in 0..runs /\ KbKeeps(b)
    BY <1>4
  <2>2. Unmoved(b) /\ same => next
    BY DEF Unmoved, Both
  <2>3. StandsWith(b, v, same)
    BY <1>7
  <2> HIDE DEF same, next, v
  <2>4. published'[b] > v \/ ((Busy(b)' => build'[b].run > v) /\ (next \/ dirty'[b]))
    BY <2>1, <2>2, <2>3, StandsWithStays
  <2> QED
    BY <2>4 DEF StandsWith, next, v
<1>8. GeneratingInv'
  <2> SUFFICES ASSUME asked.pc = "generating", NEW b \in asked.key.ns \ rebuiltClean'
               PROVE  StandsWith(b, asked.key.version, asked.seen[b] = Both(b))'
    BY <1>2 DEF GeneratingInv
  <2>1. asked.key \in Keys
    BY <1>0 DEF AskedInv
  <2>2. StandsWith(b, asked.key.version, asked.seen[b] = Both(b))
    BY <1>0, <1>4, <2>1 DEF AskedInv, GeneratingInv
  <2>3. StandsWith(b, asked.key.version, (asked.seen)[b] = Both(b))
    BY <2>2
  <2> DEFINE k == asked.key
             seen == asked.seen
  <2>4. k' = k /\ seen' = seen
    BY <1>2
  <2> QED
    BY <1>2, <1>7, <2>1, <2>2 DEF StandsWith
<1>9. KeptInv'
  <2> SUFFICES ASSUME NEW e \in ToSet(cache)
               PROVE  EntryInv(e)'
    BY <1>0, <1>2 DEF KeptInv
  <2>1. EntryInv(e)
    BY <1>0 DEF KeptInv
  <2>3. e.key \in Keys'
    BY <1>3, <2>1 DEF EntryInv
  <2>4. ASSUME NEW b \in e.key.ns \ rebuiltClean'
        PROVE  StandsWith(b, e.key.version, e.seen[b] = Both(b))'
    <3>1. StandsWith(b, e.key.version, e.seen[b] = Both(b))
      BY <1>4, <2>1 DEF EntryInv
    <3> QED
      BY <1>7, <2>1, <3>1 DEF EntryInv
  <2> QED
    BY <2>3, <2>4 DEF EntryInv
<1>10. AskedInv'
  BY <1>0, <1>2, <1>3, <1>5, <1>6, <1>8 DEF AskedInv
<1> QED
  BY <1>2, <1>9, <1>10 DEF AnswerInv

-----------------------------------------------------------------------------
\* A step of a question or of the cache touches no base.
LEMMA KbRests ==
    ASSUME AnswerInv, UNCHANGED kbVars
    PROVE  /\ KbInv' /\ Keys' = Keys /\ rebuiltClean' = rebuiltClean
           /\ \A e : EntryInv(e) => EntryInv(e)'
<1>1. UNCHANGED <<wanted, dirty, mirror, graph, build, published, runs, edits, rebuiltClean>>
  BY DEF kbVars
<1> QED
  BY <1>1 DEF AnswerInv, KbInv, Keys, Busy, EntryInv, StandsWith, Both

\* The question stands as it did while the bases rest.
LEMMA QuestionRests ==
    ASSUME AnswerInv, UNCHANGED kbVars, asked' = asked
    PROVE  AskedInv'
<1>1. UNCHANGED <<wanted, dirty, mirror, graph, build, published, runs, edits, rebuiltClean>>
  BY DEF kbVars
<1> QED
  BY <1>1 DEF AnswerInv, AskedInv, SearchedInv, FoundInv, GeneratingInv, Keys, Stands,
              StandsWith, Both, Busy

\* Without a question there is nothing to stand.
LEMMA QuestionEnds == asked' = NotAsked => AskedInv'
BY DEF AskedInv, NotAsked, SearchedInv, FoundInv, GeneratingInv

\* A sequence is one of its own members.
LEMMA PartOf ==
    ASSUME NEW S, NEW s \in Seq(S)
    PROVE  s \in Seq(ToSet(s)) /\ ToSet(s) \subseteq S
<1>1. DOMAIN s = 1..Len(s) /\ Len(s) \in Nat /\ \A i \in 1..Len(s) : s[i] \in S
  BY LenProperties, ElementOfSeq
<1>2. \A i \in 1..Len(s) : s[i] \in ToSet(s)
  BY <1>1 DEF ToSet
<1>3. s = [i \in 1..Len(s) |-> s[i]]
  BY <1>1
<1>4. [i \in 1..Len(s) |-> s[i]] \in Seq(ToSet(s))
  BY <1>1, <1>2, IsASeq
<1> QED
  BY <1>1, <1>3, <1>4 DEF ToSet

\* A cache of entries that stand.
LEMMA KeptBy ==
    ASSUME NEW S, cache' \in Seq(S), \A e \in S : EntryInv(e)'
    PROVE  KeptInv'
<1>1. cache' \in Seq(ToSet(cache')) /\ ToSet(cache') \subseteq S
  BY PartOf
<1> QED
  BY <1>1 DEF KeptInv

\* Removing a place.
LEMMA RemovedIs ==
    ASSUME NEW S, NEW s \in Seq(S), NEW i \in DOMAIN s
    PROVE  RemoveAt(s, i) \in Seq(S) /\ s[i] \in S
<1>1. DOMAIN s = 1..Len(s) /\ Len(s) \in Nat /\ \A k \in 1..Len(s) : s[k] \in S
  BY LenProperties, ElementOfSeq
<1>2. SubSeq(s, 1, i - 1) \in Seq(S)
  <2>1. \A k \in 1..(i - 1) : s[k] \in S
    BY <1>1
  <2> QED
    BY <1>1, <2>1, SubSeqProperties
<1>3. SubSeq(s, i + 1, Len(s)) \in Seq(S)
  <2>1. \A k \in (i + 1)..Len(s) : s[k] \in S
    BY <1>1
  <2> QED
    BY <1>1, <2>1, SubSeqProperties
<1> QED
  BY <1>1, <1>2, <1>3, ConcatProperties DEF RemoveAt

\* Putting an entry.
LEMMA PutIs ==
    ASSUME NEW S, NEW c \in Seq(S), NEW e \in S
    PROVE  Put(c, e) \in Seq(S)
<1> DEFINE room == IF Len(c) >= MaxEntries THEN Tail(c) ELSE c
<1>1. room \in Seq(S)
  <2>1. CASE Len(c) >= MaxEntries
    <3>1. c # <<>>
      BY <2>1, AnswerAssumption, EmptySeq
    <3> QED
      BY <2>1, <3>1, HeadTailProperties
  <2>2. CASE ~(Len(c) >= MaxEntries)
    BY <2>2
  <2> QED
    BY <2>1, <2>2
<1>2. Put(c, e) = IF \E i \in DOMAIN room : room[i].key = e.key
                  THEN [i \in DOMAIN room |-> IF room[i].key = e.key THEN e ELSE room[i]]
                  ELSE Append(room, e)
  BY DEF Put
<1> HIDE DEF room
<1>3. Append(room, e) \in Seq(S)
  BY <1>1, AppendProperties
<1>4. [i \in DOMAIN room |-> IF room[i].key = e.key THEN e ELSE room[i]] \in Seq(S)
  <2>1. DOMAIN room = 1..Len(room) /\ Len(room) \in Nat /\ \A k \in 1..Len(room) : room[k] \in S
    BY <1>1, LenProperties, ElementOfSeq
  <2>2. \A i \in 1..Len(room) : (IF room[i].key = e.key THEN e ELSE room[i]) \in S
    BY <2>1
  <2> QED
    BY <2>1, <2>2, IsASeq
<1> QED
  BY <1>2, <1>3, <1>4

\* A hit moves its entry to the end.
LEMMA HitsKeep ==
    ASSUME AnswerInv, NEW ns, Hit(ns)
    PROVE  AnswerInv'
<1>1. UNCHANGED kbVars /\ asked' = asked
  BY DEF Hit
<1>2. PICK i \in DOMAIN cache : cache' = Append(RemoveAt(cache, i), cache[i])
  BY DEF Hit
<1>3. KeptInv'
  <2>1. cache \in Seq(ToSet(cache)) /\ \A e \in ToSet(cache) : EntryInv(e)'
    BY <1>1, KbRests DEF AnswerInv, KeptInv
  <2>2. cache' \in Seq(ToSet(cache))
    BY <1>2, <2>1, RemovedIs, AppendProperties
  <2> QED
    BY <2>1, <2>2, KeptBy
<1> QED
  BY <1>1, <1>3, KbRests, QuestionRests DEF AnswerInv

\* Whatever the question does, the entries stay as they are.
LEMMA CacheRests ==
    ASSUME AnswerInv, UNCHANGED kbVars, cache' = cache
    PROVE  KeptInv'
<1>1. cache \in Seq(ToSet(cache)) /\ \A e \in ToSet(cache) : EntryInv(e)'
  BY KbRests DEF AnswerInv, KeptInv
<1> QED
  BY <1>1, KeptBy

\* The question goes on, and the bases and the cache rest.
LEMMA GoesKeeps ==
    ASSUME AnswerInv, NEW r, Goes(r), AskedInv'
    PROVE  AnswerInv'
BY KbRests, CacheRests DEF Goes, AnswerInv

\* A miss: the question has its key.
LEMMA MissKeeps ==
    ASSUME AnswerInv, NEW ns \in (SUBSET Bases) \ {{}}, Miss(ns)
    PROVE  AnswerInv'
<1>1. Goes([pc |-> "keyed", key |-> Key(ns)])
  BY DEF Miss
<1>2. asked'.pc = "keyed" /\ asked'.key = Key(ns) /\ UNCHANGED kbVars
  BY <1>1 DEF Goes
<1>3. Key(ns) \in Keys'
  BY <1>2, VersionIs, KbRests DEF AnswerInv
<1>4. AskedInv'
  BY <1>2, <1>3 DEF AskedInv, SearchedInv, FoundInv, GeneratingInv
<1> QED
  BY <1>1, <1>4, GoesKeeps

\* The flag is read: a base that is not dirty, and was never rebuilt clean, is
\* not being built.
LEMMA SearchKeeps == AnswerInv /\ Search => AnswerInv'
<1> SUFFICES ASSUME AnswerInv, Search
             PROVE  AnswerInv'
  OBVIOUS
<1> DEFINE flag == \E b \in asked.key.ns : dirty[b]
<1>1. Goes([pc |-> "searched", key |-> asked.key, dirty |-> flag]) /\ asked.pc = "keyed"
  BY DEF Search
<1>2. flag \in BOOLEAN
  OBVIOUS
<1>3. ASSUME ~flag, NEW b \in asked.key.ns \ rebuiltClean
      PROVE  Stands(b, asked.key.version)
  <2>1. asked.key \in Keys
    BY <1>1 DEF AnswerInv, AskedInv
  <2>2. b \in Bases /\ ~dirty[b]
    BY <1>3, <2>1 DEF Keys
  <2> QED
    BY <1>3, <2>2 DEF AnswerInv, KbInv, Stands
<1> HIDE DEF flag
<1>4. asked'.pc = "searched" /\ asked'.key = asked.key /\ asked'.dirty = flag /\ UNCHANGED kbVars
  BY <1>1 DEF Goes
<1>5. SearchedInv'
  BY <1>3, <1>4 DEF SearchedInv, Stands, Busy, kbVars
<1>6. AskedInv'
  <2>1. asked.key \in Keys'
    BY <1>1, <1>4, KbRests DEF AnswerInv, AskedInv
  <2> QED
    BY <1>2, <1>4, <1>5, <2>1 DEF AskedInv, FoundInv, GeneratingInv
<1> QED
  BY <1>1, <1>6, GoesKeeps

\* The search ran, and found the bases dirty or not.
LEMMA ChannelsKeep == AnswerInv /\ Channels => AnswerInv'
<1> SUFFICES ASSUME AnswerInv, Channels
             PROVE  AnswerInv'
  OBVIOUS
<1>1. PICK degraded \in BOOLEAN :
          Goes([pc |-> "found", key |-> asked.key, soft |-> asked.dirty, degraded |-> degraded,
                graph |-> [b \in asked.key.ns |-> graph[b]]])
  BY DEF Channels
<1>2. /\ asked'.pc = "found" /\ asked'.key = asked.key /\ asked'.soft = asked.dirty
      /\ asked'.graph = [b \in asked.key.ns |-> graph[b]] /\ UNCHANGED kbVars
      /\ asked.pc = "searched"
  BY <1>1 DEF Goes, Channels
<1>3. asked.key \in Keys' /\ asked.dirty \in BOOLEAN /\ SearchedInv
  BY <1>2, KbRests DEF AnswerInv, AskedInv
<1>4. FoundInv'
  <2> SUFFICES ASSUME ~asked.dirty, NEW b \in asked.key.ns \ rebuiltClean
               PROVE  StandsWith(b, asked.key.version, graph[b] = graph[b])'
    BY <1>2, KbRests DEF FoundInv, StandsWith, Busy, kbVars
  <2>1. Stands(b, asked.key.version)
    BY <1>2, <1>3 DEF SearchedInv
  <2> QED
    BY <1>2, <2>1 DEF StandsWith, Stands, Busy, kbVars
<1>5. AskedInv'
  BY <1>2, <1>3, <1>4 DEF AskedInv, SearchedInv, GeneratingInv
<1> QED
  BY <1>1, <1>5, GoesKeeps

\* The context is read.
LEMMA ContextKeeps == AnswerInv /\ Context => AnswerInv'
<1> SUFFICES ASSUME AnswerInv, Context
             PROVE  AnswerInv'
  OBVIOUS
<1>1. asked.pc = "found"
  BY DEF Context
<1>2. CASE ~Cacheable(asked)
  <2>1. Goes(NotAsked)
    BY <1>2 DEF Context
  <2>2. AskedInv'
    BY <2>1, QuestionEnds DEF Goes
  <2> QED
    BY <2>1, <2>2, GoesKeeps
<1>3. CASE Cacheable(asked)
  <2> DEFINE seen == [b \in asked.key.ns |-> [graph |-> asked.graph[b], mirror |-> mirror[b]]]
  <2>1. Goes([pc |-> "generating", key |-> asked.key, seen |-> seen])
    BY <1>3 DEF Context
  <2>2. /\ asked'.pc = "generating" /\ asked'.key = asked.key /\ asked'.seen = seen
        /\ UNCHANGED kbVars
    BY <2>1 DEF Goes
  <2>3. asked.key \in Keys' /\ ~asked.soft /\ FoundInv
    BY <1>1, <1>3, <2>2, KbRests DEF AnswerInv, AskedInv, Cacheable
  <2>4. ASSUME NEW b \in asked.key.ns \ rebuiltClean
        PROVE  StandsWith(b, asked.key.version, seen[b] = Both(b))
    <3>1. StandsWith(b, asked.key.version, asked.graph[b] = graph[b])
      BY <1>1, <2>3 DEF FoundInv
    <3>2. seen[b] = [graph |-> asked.graph[b], mirror |-> mirror[b]]
      OBVIOUS
    <3> QED
      BY <3>1, <3>2 DEF StandsWith, Both
  <2> HIDE DEF seen
  <2>5. GeneratingInv'
    <3> SUFFICES ASSUME NEW b \in asked.key.ns \ rebuiltClean
                 PROVE  StandsWith(b, asked.key.version, asked.seen[b] = Both(b))'
      BY <2>2, KbRests DEF GeneratingInv
    <3> QED
      BY <2>2, <2>4 DEF StandsWith, Busy, Both, kbVars
  <2>6. AskedInv'
    BY <2>2, <2>3, <2>5 DEF AskedInv, SearchedInv, FoundInv
  <2> QED
    BY <2>1, <2>6, GoesKeeps
<1> QED
  BY <1>2, <1>3

\* The answer is put in the cache, if it may be.
LEMMA AnsweredKeeps == AnswerInv /\ Answered => AnswerInv'
<1> SUFFICES ASSUME AnswerInv, Answered
             PROVE  AnswerInv'
  OBVIOUS
<1>1. UNCHANGED kbVars /\ asked' = NotAsked /\ asked.pc = "generating"
  BY DEF Answered
<1>2. CASE cache' = cache
  BY <1>1, <1>2, KbRests, CacheRests, QuestionEnds DEF AnswerInv
<1>3. CASE cache' = Put(cache, [key |-> asked.key, seen |-> asked.seen])
  <2> DEFINE e == [key |-> asked.key, seen |-> asked.seen]
             S == ToSet(cache) \cup {e}
  <2>1. EntryInv(e)
    BY <1>1 DEF AnswerInv, AskedInv, GeneratingInv, EntryInv
  <2>2. \A x \in S : EntryInv(x)'
    <3>1. \A x \in ToSet(cache) : EntryInv(x)
      BY DEF AnswerInv, KeptInv
    <3> QED
      BY <1>1, <2>1, <3>1, KbRests
  <2>3. cache \in Seq(S)
    <3>1. cache \in Seq(ToSet(cache))
      BY DEF AnswerInv, KeptInv
    <3> QED
      BY <3>1, SeqMonotonic
  <2>4. cache' \in Seq(S)
    <3>1. e \in S
      OBVIOUS
    <3> HIDE DEF S
    <3> QED
      BY <1>3, <2>3, <3>1, PutIs
  <2> HIDE DEF S
  <2>5. KeptInv'
    BY <2>2, <2>4, KeptBy
  <2> QED
    BY <1>1, <2>5, KbRests, QuestionEnds DEF AnswerInv
<1> QED
  BY <1>2, <1>3 DEF Answered

\* Every step of a question and of the cache.
LEMMA CacheStepKeeps == AnswerInv /\ CacheStep => AnswerInv'
<1> SUFFICES ASSUME AnswerInv, CacheStep
             PROVE  AnswerInv'
  OBVIOUS
<1>1. CASE ProcessRestarts
  <2>1. UNCHANGED kbVars /\ asked' = NotAsked /\ cache' = <<>>
    BY <1>1 DEF ProcessRestarts
  <2>2. KeptInv'
    BY <2>1, EmptySeq, KeptBy
  <2> QED
    BY <2>1, <2>2, KbRests, QuestionEnds DEF AnswerInv
<1>2. ASSUME NEW i \in DOMAIN cache, Expires(i)
      PROVE  AnswerInv'
  <2>1. UNCHANGED kbVars /\ asked' = asked /\ cache' = RemoveAt(cache, i)
    BY <1>2 DEF Expires
  <2>2. cache \in Seq(ToSet(cache)) /\ \A e \in ToSet(cache) : EntryInv(e)'
    BY <2>1, KbRests DEF AnswerInv, KeptInv
  <2>3. KeptInv'
    BY <1>2, <2>1, <2>2, RemovedIs, KeptBy
  <2> QED
    BY <2>1, <2>3, KbRests, QuestionRests DEF AnswerInv
<1> QED
  BY <1>1, <1>2 DEF CacheStep

\* Every step.
LEMMA AnswerStep == AnswerInv /\ [AnswerNext]_answerVars => AnswerInv'
<1> SUFFICES ASSUME AnswerInv, [AnswerNext]_answerVars
             PROVE  AnswerInv'
  OBVIOUS
<1>1. CASE KbStep
  BY <1>1, KbStepAnswers
<1>2. CASE AskStep
  <2>1. ASSUME NEW ns \in (SUBSET Bases) \ {{}}, Hit(ns) \/ Miss(ns)
        PROVE  AnswerInv'
    BY <2>1, HitsKeep, MissKeeps
  <2>2. CASE Refused
    <3>1. Goes(NotAsked)
      BY <2>2 DEF Refused
    <3>2. AskedInv'
      BY <3>1, QuestionEnds DEF Goes
    <3> QED
      BY <3>1, <3>2, GoesKeeps
  <2> QED
    BY <1>2, <2>1, <2>2, SearchKeeps, ChannelsKeep, ContextKeeps, AnsweredKeeps DEF AskStep
<1>3. CASE CacheStep
  BY <1>3, CacheStepKeeps
<1>4. CASE UNCHANGED answerVars
  <2>1. UNCHANGED kbVars /\ asked' = asked /\ cache' = cache
    BY <1>4 DEF answerVars
  <2> QED
    BY <2>1, KbRests, CacheRests, QuestionRests DEF AnswerInv
<1> QED
  BY <1>1, <1>2, <1>3, <1>4 DEF AnswerNext

\* An entry that would be served has the version of now, so nothing outdated
\* it.
LEMMA CurrentFollows == AnswerInv => ServedAnswersAreCurrent
<1> SUFFICES ASSUME AnswerInv, NEW e \in Servable, NEW b \in e.key.ns \ rebuiltClean
             PROVE  e.seen[b] = Both(b) \/ dirty[b]
  BY DEF ServedAnswersAreCurrent, Both
<1>1. EntryInv(e) /\ e.key = Key(e.key.ns)
  BY DEF Servable, AnswerInv, KeptInv
<1>2. e.key.ns \in (SUBSET Bases) \ {{}} /\ e.key.version \in 0..runs
  BY <1>1 DEF EntryInv, Keys
<1>3. b \in Bases /\ published[b] <= e.key.version
  BY <1>1, <1>2, VersionIs DEF AnswerInv
<1>4. published[b] \in Nat /\ e.key.version \in Nat
  BY <1>2, <1>3 DEF AnswerInv, KbInv
<1>5. StandsWith(b, e.key.version, e.seen[b] = Both(b))
  BY <1>1 DEF EntryInv
<1> QED
  BY <1>3, <1>4, <1>5 DEF StandsWith

(***************************************************************************)
(* An answer served from the cache was computed from what the graph and    *)
(* the mirror hold now, unless the base is dirty or was rebuilt without    *)
(* having been dirty, for any number of bases, edits and rebuilds while    *)
(* the question was under way and the answer was kept (answerCache.ts, the *)
(* data version of its key).                                               *)
(***************************************************************************)
THEOREM ServedIsCurrent == AnswerSpec => []ServedAnswersAreCurrent
<1>1. AnswerSpec => []AnswerInv
  BY AnswersInitially, AnswerStep, PTL DEF AnswerSpec
<1> QED
  BY <1>1, CurrentFollows, PTL

-----------------------------------------------------------------------------
(***************************************************************************)
(* The rest of the types of the answers: what the mirror and the graph     *)
(* hold of a base was wanted once, and the cache keeps its bound.          *)
(***************************************************************************)
ContentPart ==
    /\ wanted \in [Bases -> Nat]
    /\ \A b \in Bases : {mirror[b], graph[b], build[b].content} \subseteq 0..wanted[b]

\* There are no more entries than room.
RoomPart == Len(cache) <= MaxEntries

\* Nothing was edited at the start.
LEMMA ContentInitially == AnswerInit => ContentPart /\ RoomPart
BY AnswerAssumption DEF AnswerInit, ContentPart, RoomPart, NoBuild

\* No step makes up content that was not decided.
LEMMA ContentStays ==
    ASSUME AnswerInv, ContentPart, [AnswerNext]_answerVars
    PROVE  ContentPart'
<1>1. /\ DOMAIN mirror = Bases /\ DOMAIN graph = Bases /\ DOMAIN build = Bases
      /\ wanted \in [Bases -> Nat]
      /\ \A b \in Bases : {mirror[b], graph[b], build[b].content} \subseteq 0..wanted[b]
  BY DEF AnswerInv, KbInv, ContentPart
<1>2. CASE UNCHANGED <<wanted, mirror, graph, build>>
  BY <1>2 DEF ContentPart
<1>3. ASSUME wanted' \in [Bases -> Nat], \A b \in Bases : wanted[b] <= wanted'[b],
             UNCHANGED <<mirror, graph>>, \A b \in Bases : build'[b].content = build[b].content
      PROVE  ContentPart'
  BY <1>1, <1>3 DEF ContentPart
<1>4. CASE EditChunking
  <2>1. wanted' = [b \in Bases |-> wanted[b] + 1] /\ UNCHANGED <<mirror, graph, build>>
    BY <1>4 DEF EditChunking
  <2>2. wanted' \in [Bases -> Nat] /\ \A b \in Bases : wanted[b] <= wanted'[b]
    BY <1>1, <2>1
  <2> QED
    BY <1>3, <2>1, <2>2
<1>5. ASSUME NEW k \in Bases, Decide(k) PROVE ContentPart'
  <2>1. /\ wanted' = [wanted EXCEPT ![k] = wanted[k] + 1] /\ UNCHANGED <<mirror, graph>>
        /\ build' = [build EXCEPT ![k] = [build[k] EXCEPT !.overtaken = build[k].pc # "idle"]]
    BY <1>5 DEF Decide
  <2>2. wanted' \in [Bases -> Nat] /\ \A b \in Bases : wanted[b] <= wanted'[b]
    BY <1>1, <2>1
  <2>3. \A b \in Bases : build'[b].content = build[b].content
    BY <1>1, <2>1
  <2> QED
    BY <1>3, <2>1, <2>2, <2>3
<1>6. ASSUME NEW k \in Bases, StartBuild(k) PROVE ContentPart'
  <2>1. /\ UNCHANGED <<wanted, mirror, graph>>
        /\ build' = [build EXCEPT ![k] = [pc |-> "export", run |-> runs + 1,
                                          content |-> wanted[k], overtaken |-> FALSE]]
    BY <1>6 DEF StartBuild
  <2>2. \A b \in Bases : build'[b].content = build[b].content \/ build'[b].content = wanted[b]
    BY <1>1, <2>1
  <2> QED
    BY <1>1, <2>1, <2>2 DEF ContentPart
<1>7. ASSUME NEW k \in Bases, NEW from, NEW to, BuildGoes(k, from, to),
             UNCHANGED graph \/ graph' = [graph EXCEPT ![k] = build[k].content],
             UNCHANGED mirror \/ mirror' = [mirror EXCEPT ![k] = build[k].content]
      PROVE  ContentPart'
  <2>1. UNCHANGED wanted /\ \A b \in Bases : build'[b].content = build[b].content
    BY <1>1, <1>7 DEF BuildGoes
  <2>2. \A b \in Bases : /\ graph'[b] = graph[b] \/ graph'[b] = build[b].content
                         /\ mirror'[b] = mirror[b] \/ mirror'[b] = build[b].content
    BY <1>1, <1>7
  <2> QED
    BY <1>1, <2>1, <2>2 DEF ContentPart
<1>8. ASSUME NEW k \in Bases, Settle(k) \/ BuildFails(k) PROVE ContentPart'
  <2>1. UNCHANGED <<wanted, mirror, graph>> /\ build' = [build EXCEPT ![k] = NoBuild]
    BY <1>8 DEF Settle, BuildFails, BuildEnds
  <2>2. \A b \in Bases : build'[b].content = build[b].content \/ build'[b].content = 0
    BY <1>1, <2>1 DEF NoBuild
  <2> QED
    BY <1>1, <2>1, <2>2 DEF ContentPart
<1>9. CASE KbStep
  <2>1. ASSUME NEW k \in Bases, WriteMirror(k) \/ FinishExport(k) \/ LoadGraph(k) PROVE ContentPart'
    BY <1>7, <2>1 DEF WriteMirror, FinishExport, LoadGraph
  <2> QED
    BY <1>4, <1>5, <1>6, <1>8, <1>9, <2>1 DEF KbStep
<1>10. CASE AskStep \/ CacheStep \/ UNCHANGED answerVars
  BY <1>2, <1>10
  DEF AskStep, Hit, Miss, Search, Channels, Refused, Context, Answered, Goes, CacheStep,
      ProcessRestarts, Expires, kbVars, answerVars
<1> QED
  BY <1>9, <1>10 DEF AnswerNext

\* One entry less.
LEMMA RemovedLen ==
    ASSUME NEW S, NEW s \in Seq(S), NEW i \in DOMAIN s
    PROVE  Len(RemoveAt(s, i)) = Len(s) - 1
<1>1. DOMAIN s = 1..Len(s) /\ Len(s) \in Nat /\ \A k \in 1..Len(s) : s[k] \in S
  BY LenProperties, ElementOfSeq
<1> DEFINE u == SubSeq(s, 1, i - 1)
           v == SubSeq(s, i + 1, Len(s))
<1>2. u \in Seq(S) /\ Len(u) = i - 1
  <2>1. \A k \in 1..(i - 1) : s[k] \in S
    BY <1>1
  <2>2. 1 \in Int /\ i - 1 \in Int
    BY <1>1
  <2>3. u \in Seq(S) /\ Len(u) = IF 1 <= i - 1 THEN (i - 1) - 1 + 1 ELSE 0
    BY <2>1, <2>2, SubSeqProperties
  <2> HIDE DEF u
  <2> QED
    BY <1>1, <2>3
<1>3. v \in Seq(S) /\ Len(v) = Len(s) - i
  <2>1. \A k \in (i + 1)..Len(s) : s[k] \in S
    BY <1>1
  <2>2. i + 1 \in Int /\ Len(s) \in Int
    BY <1>1
  <2>3. v \in Seq(S) /\ Len(v) = IF i + 1 <= Len(s) THEN Len(s) - (i + 1) + 1 ELSE 0
    BY <2>1, <2>2, SubSeqProperties
  <2> HIDE DEF v
  <2> QED
    BY <1>1, <2>3
<1>4. RemoveAt(s, i) = u \o v
  BY DEF RemoveAt
<1> HIDE DEF u, v
<1>5. Len(u \o v) = Len(u) + Len(v)
  BY <1>2, <1>3, ConcatProperties
<1> QED
  BY <1>1, <1>2, <1>3, <1>4, <1>5

\* A put first makes room for its entry.
LEMMA PutLen ==
    ASSUME NEW S, NEW c \in Seq(S), NEW e \in S, Len(c) <= MaxEntries
    PROVE  Len(Put(c, e)) <= MaxEntries
<1> DEFINE room == IF Len(c) >= MaxEntries THEN Tail(c) ELSE c
<1>1. room \in Seq(S) /\ Len(room) < MaxEntries /\ MaxEntries \in Nat
  <2>0. MaxEntries \in Nat \ {0} /\ Len(c) \in Nat
    BY AnswerAssumption, LenProperties
  <2>1. CASE Len(c) >= MaxEntries
    <3>1. c # <<>>
      BY <2>0, <2>1, EmptySeq
    <3> QED
      BY <2>0, <2>1, <3>1, HeadTailProperties
  <2>2. CASE ~(Len(c) >= MaxEntries)
    BY <2>0, <2>2
  <2> QED
    BY <2>1, <2>2
<1>2. Put(c, e) = IF \E i \in DOMAIN room : room[i].key = e.key
                  THEN [i \in DOMAIN room |-> IF room[i].key = e.key THEN e ELSE room[i]]
                  ELSE Append(room, e)
  BY DEF Put
<1> HIDE DEF room
<1>3. Len(Append(room, e)) = Len(room) + 1 /\ Len(room) \in Nat
  BY <1>1, AppendProperties, LenProperties
<1>4. Len([i \in DOMAIN room |-> IF room[i].key = e.key THEN e ELSE room[i]]) = Len(room)
  <2>1. DOMAIN room = 1..Len(room) /\ Len(room) \in Nat /\ \A k \in 1..Len(room) : room[k] \in S
    BY <1>1, LenProperties, ElementOfSeq
  <2>2. \A i \in 1..Len(room) : (IF room[i].key = e.key THEN e ELSE room[i]) \in S
    BY <2>1
  <2> QED
    BY <2>1, <2>2, IsASeq
<1> QED
  BY <1>1, <1>2, <1>3, <1>4

\* An entry is put after room was made for it, and a hit only moves one.
LEMMA RoomStays ==
    ASSUME AnswerInv, RoomPart, [AnswerNext]_answerVars
    PROVE  RoomPart'
<1>1. cache \in Seq(ToSet(cache)) /\ MaxEntries \in Nat
  BY AnswerAssumption DEF AnswerInv, KeptInv
<1>2. CASE UNCHANGED cache
  BY <1>2 DEF RoomPart
<1>3. ASSUME NEW ns, Hit(ns) PROVE RoomPart'
  <2>1. PICK i \in DOMAIN cache : cache' = Append(RemoveAt(cache, i), cache[i])
    BY <1>3 DEF Hit
  <2>2. /\ RemoveAt(cache, i) \in Seq(ToSet(cache)) /\ cache[i] \in ToSet(cache)
        /\ Len(RemoveAt(cache, i)) = Len(cache) - 1
    BY <1>1, RemovedIs, RemovedLen
  <2>3. Len(cache') = Len(RemoveAt(cache, i)) + 1
    BY <2>1, <2>2, AppendProperties
  <2> QED
    BY <1>1, <2>2, <2>3, LenProperties DEF RoomPart
<1>4. CASE Answered
  <2>1. CASE cache' = Put(cache, [key |-> asked.key, seen |-> asked.seen])
    <3> DEFINE e == [key |-> asked.key, seen |-> asked.seen]
               S == ToSet(cache) \cup {e}
    <3>1. cache \in Seq(S) /\ e \in S
      BY <1>1, SeqMonotonic
    <3> HIDE DEF S
    <3>2. Len(Put(cache, e)) <= MaxEntries
      BY <3>1, PutLen DEF RoomPart
    <3> QED
      BY <2>1, <3>2 DEF RoomPart
  <2> QED
    BY <1>2, <1>4, <2>1 DEF Answered
<1>5. CASE ProcessRestarts
  BY <1>1, <1>5 DEF ProcessRestarts, RoomPart
<1>6. ASSUME NEW i \in DOMAIN cache, Expires(i) PROVE RoomPart'
  <2>1. Len(cache') = Len(cache) - 1
    BY <1>1, <1>6, RemovedLen DEF Expires
  <2> QED
    BY <1>1, <2>1, LenProperties DEF RoomPart
<1>7. CASE KbStep
  BY <1>2, <1>7
  DEF KbStep, EditChunking, Decide, StartBuild, WriteMirror, FinishExport, LoadGraph, BuildGoes,
      Settle, BuildFails, BuildEnds
<1>8. CASE UNCHANGED answerVars \/ Search \/ Channels \/ Refused \/ Context
           \/ \E ns \in (SUBSET Bases) \ {{}} : Miss(ns)
  BY <1>2, <1>8 DEF answerVars, Search, Channels, Refused, Context, Miss, Goes
<1> QED
  BY <1>3, <1>4, <1>5, <1>6, <1>7, <1>8 DEF AnswerNext, AskStep, CacheStep

\* So the bases and the cache have their types.
LEMMA AnswerTypes == AnswerInv /\ ContentPart /\ RoomPart => AnswerTypeOK
BY DEF AnswerInv, KbInv, AskedInv, ContentPart, RoomPart, AnswerTypeOK

-----------------------------------------------------------------------------
(***************************************************************************)
(* The gaps.  Two gaps of a question are not both open; and a gap that     *)
(* waits for a draft waits for one that may still be promoted, but for     *)
(* what a death of the panel cut off.                                      *)
(***************************************************************************)
Gap == [question : Questions, status : {"open", "in_draft", "resolved", "ignored", "deleted"},
        evidence : Nat \ {0}, draft : Nat]

\* The types of gaps and lessons.
LoopTypes ==
    /\ gaps \in Seq(Gap)
    /\ drafts \in Seq({"pending", "promoted", "rejected", "withdrawn", "deleted"})
    /\ promoting \in {NoDraft} \cup DOMAIN drafts
    /\ cutOff \subseteq DOMAIN drafts
    /\ \A g \in DOMAIN gaps : gaps[g].draft \in {NoDraft} \cup DOMAIN drafts

\* Two open gaps are of two questions.
OpenPart ==
    \A g, h \in DOMAIN gaps :
        /\ gaps[g].status = "open" /\ gaps[h].status = "open"
        /\ gaps[g].question = gaps[h].question
        => g = h

\* All of it.
GapsInv == LoopTypes /\ OpenPart /\ PromotedMeansResolved

\* There is no gap at the start.
LEMMA GapsInitially == GapsInit => GapsInv
BY DEF GapsInit, GapsInv, LoopTypes, OpenPart, PromotedMeansResolved

\* The rows are written one by one, and none is added.
LEMMA GapsWritten ==
    ASSUME NEW gs \in Seq(Gap), NEW new, DOMAIN new = DOMAIN gs, new = [g \in DOMAIN gs |-> new[g]],
           \A g \in DOMAIN gs : new[g] \in Gap
    PROVE  new \in Seq(Gap)
<1>1. Len(gs) \in Nat /\ DOMAIN gs = 1..Len(gs)
  BY LenProperties
<1> QED
  BY <1>1

\* Every gap is a row.
LEMMA GapRows == GapsInv => \A g \in DOMAIN gaps : gaps[g] \in Gap
BY ElementOfSeq, LenProperties DEF GapsInv, LoopTypes

\* A row is added.
LEMMA GapAdded ==
    ASSUME NEW gs \in Seq(Gap), NEW r \in Gap
    PROVE  LET new == Append(gs, r)
           IN  /\ new \in Seq(Gap) /\ DOMAIN new = DOMAIN gs \cup {Len(gs) + 1}
               /\ Len(gs) + 1 \notin DOMAIN gs
               /\ new[Len(gs) + 1] = r /\ \A g \in DOMAIN gs : new[g] = gs[g]
BY AppendProperties, LenProperties

\* What a draft becomes.
LEMMA DraftWritten ==
    ASSUME LoopTypes, NEW d \in DOMAIN drafts,
           NEW to \in {"pending", "promoted", "rejected", "withdrawn", "deleted"}
    PROVE  LET new == [drafts EXCEPT ![d] = to]
           IN  /\ new \in Seq({"pending", "promoted", "rejected", "withdrawn", "deleted"})
               /\ DOMAIN new = DOMAIN drafts
               /\ \A e \in DOMAIN drafts : new[e] = IF e = d THEN to ELSE drafts[e]
BY LenProperties, ExceptSeq DEF LoopTypes

\* A gap is recorded, anew or in its open twin.
LEMMA RecordKeepsGaps ==
    ASSUME GapsInv, NEW q \in Questions, RecordGap(q)
    PROVE  GapsInv'
<1>1. UNCHANGED <<drafts, promoting, cutOff>> /\ gaps \in Seq(Gap)
  BY DEF RecordGap, GapsInv, LoopTypes
<1>2. CASE \E g \in OpenTwins(q) : gaps' = [gaps EXCEPT ![g].evidence = @ + 1]
  <2> PICK g \in OpenTwins(q) : gaps' = [gaps EXCEPT ![g].evidence = @ + 1]
    BY <1>2
  <2>1. g \in DOMAIN gaps /\ \A h \in DOMAIN gaps : gaps[h] \in Gap
    BY <1>1, ElementOfSeq, LenProperties DEF OpenTwins, GapsOf
  <2> DEFINE r == [gaps[g] EXCEPT !.evidence = @ + 1]
  <2>4. /\ r \in Gap /\ r.status = gaps[g].status /\ r.question = gaps[g].question
        /\ r.draft = gaps[g].draft
    BY <2>1 DEF Gap
  <2>5. gaps' = [gaps EXCEPT ![g] = r]
    OBVIOUS
  <2> HIDE DEF r
  <2>2. /\ DOMAIN gaps' = DOMAIN gaps /\ gaps' = [h \in DOMAIN gaps |-> gaps'[h]]
        /\ \A h \in DOMAIN gaps : /\ gaps'[h] \in Gap /\ gaps'[h].status = gaps[h].status
                                  /\ gaps'[h].question = gaps[h].question
                                  /\ gaps'[h].draft = gaps[h].draft
    BY <2>1, <2>4, <2>5
  <2>3. gaps' \in Seq(Gap)
    BY <1>1, <2>2, GapsWritten
  <2> QED
    BY <1>1, <2>2, <2>3 DEF GapsInv, LoopTypes, OpenPart, PromotedMeansResolved
<1>3. CASE OpenTwins(q) = {} /\ gaps' = Append(gaps, [question |-> q, status |-> "open",
                                                     evidence |-> 1, draft |-> NoDraft])
  <2> DEFINE r == [question |-> q, status |-> "open", evidence |-> 1, draft |-> NoDraft]
  <2>1. r \in Gap /\ r.question = q /\ r.status = "open" /\ r.draft = NoDraft
    BY DEF Gap, NoDraft
  <2> HIDE DEF r
  <2>2. gaps' = Append(gaps, r)
    BY <1>3 DEF r
  <2>3. /\ gaps' \in Seq(Gap) /\ DOMAIN gaps' = DOMAIN gaps \cup {Len(gaps) + 1}
        /\ gaps'[Len(gaps) + 1] = r /\ \A g \in DOMAIN gaps : gaps'[g] = gaps[g]
        /\ Len(gaps) + 1 \notin DOMAIN gaps
    BY <1>1, <2>1, <2>2, GapAdded
  <2>4. \A g \in DOMAIN gaps : gaps[g].question # q \/ gaps[g].status # "open"
    BY <1>3 DEF OpenTwins, GapsOf
  <2>5. LoopTypes'
    BY <1>1, <2>1, <2>3 DEF GapsInv, LoopTypes
  <2>6. OpenPart'
    BY <2>1, <2>3, <2>4 DEF GapsInv, OpenPart
  <2>7. PromotedMeansResolved'
    BY <1>1, <2>1, <2>3 DEF GapsInv, PromotedMeansResolved
  <2> QED
    BY <2>5, <2>6, <2>7 DEF GapsInv
<1> QED
  BY <1>2, <1>3 DEF RecordGap

\* The panel writes gaps alone: each keeps its question and its draft, or
\* loses it; none comes to wait, and one that is opened has no open twin.
LEMMA GapsAloneKeep ==
    ASSUME GapsInv, UNCHANGED <<drafts, promoting, cutOff>>,
           DOMAIN gaps' = DOMAIN gaps, gaps' = [g \in DOMAIN gaps |-> gaps'[g]],
           \A g \in DOMAIN gaps :
              /\ gaps'[g] \in Gap /\ gaps'[g].question = gaps[g].question
              /\ gaps'[g].draft \in {NoDraft, gaps[g].draft}
              /\ gaps'[g].status = "in_draft" => gaps[g].status = "in_draft"
              /\ gaps'[g].status = "open" =>
                    \A h \in DOMAIN gaps \ {g} :
                       gaps[h].question = gaps[g].question => gaps'[h].status # "open"
    PROVE  GapsInv'
<1>1. gaps' \in Seq(Gap)
  BY GapsWritten DEF GapsInv, LoopTypes
<1>2. LoopTypes'
  BY <1>1 DEF GapsInv, LoopTypes
<1>3. OpenPart'
  BY DEF GapsInv, OpenPart
<1>4. PromotedMeansResolved'
  BY DEF GapsInv, PromotedMeansResolved
<1> QED
  BY <1>2, <1>3, <1>4 DEF GapsInv

\* ignoreGap and resolveGap
LEMMA StatusKeepsGaps ==
    ASSUME GapsInv, NEW g \in DOMAIN gaps, NEW to \in Closed, SetGapStatus(g, to)
    PROVE  GapsInv'
<1> DEFINE r == [gaps[g] EXCEPT !.status = to]
<1>1. /\ r \in Gap /\ r.status \notin {"open", "in_draft"} /\ r.question = gaps[g].question
      /\ r.draft = gaps[g].draft
  BY GapRows DEF Gap, Closed
<1>2. gaps' = [gaps EXCEPT ![g] = r] /\ UNCHANGED <<drafts, promoting, cutOff>>
  BY DEF SetGapStatus
<1> HIDE DEF r
<1>3. \A h \in DOMAIN gaps : gaps'[h] = IF h = g THEN r ELSE gaps[h]
  BY <1>2
<1>4. \A h \in DOMAIN gaps : /\ gaps'[h] \in Gap /\ gaps'[h].question = gaps[h].question
                             /\ gaps'[h].draft \in {NoDraft, gaps[h].draft}
                             /\ gaps'[h].status = "in_draft" => gaps[h].status = "in_draft"
                             /\ gaps'[h].status = "open" => gaps[h].status = "open"
  BY <1>1, <1>3, GapRows
<1>5. \A h \in DOMAIN gaps : gaps'[h].status = "open" =>
        \A k \in DOMAIN gaps \ {h} : gaps[k].question = gaps[h].question => gaps'[k].status # "open"
  BY <1>4 DEF GapsInv, OpenPart
<1> QED
  BY <1>2, <1>4, <1>5, GapsAloneKeep

\* reopenGap
LEMMA ReopenKeepsGaps ==
    ASSUME GapsInv, NEW g \in DOMAIN gaps, ReopenGap(g)
    PROVE  GapsInv'
<1> DEFINE twins == OpenTwins(gaps[g].question) \ {g}
<1>1. UNCHANGED <<drafts, promoting, cutOff>> /\ gaps' = Reopened(g)
  BY DEF ReopenGap
<1>2. \A h \in twins : /\ h \in DOMAIN gaps /\ gaps[h].status = "open"
                       /\ gaps[h].question = gaps[g].question
  BY DEF OpenTwins, GapsOf
<1>3. \A h \in DOMAIN gaps \ {g} :
        gaps[h].status = "open" /\ gaps[h].question = gaps[g].question => h \in twins
  BY DEF OpenTwins, GapsOf
<1> DEFINE merged(h) == [gaps[h] EXCEPT !.evidence = @ + gaps[g].evidence]
<1> DEFINE opened(h) == [gaps[h] EXCEPT !.status = "open"]
<1>4. \A h \in DOMAIN gaps :
        /\ merged(h) \in Gap /\ merged(h).question = gaps[h].question
        /\ merged(h).draft = gaps[h].draft /\ merged(h).status = gaps[h].status
        /\ opened(h) \in Gap /\ opened(h).question = gaps[h].question
        /\ opened(h).draft = gaps[h].draft /\ opened(h).status = "open"
  BY GapRows DEF Gap
<1>5. /\ DOMAIN gaps' = DOMAIN gaps /\ gaps' = [h \in DOMAIN gaps |-> gaps'[h]]
      /\ \A h \in DOMAIN gaps :
            gaps'[h] = IF h \in twins THEN merged(h)
                       ELSE IF h = g /\ twins = {} THEN opened(h) ELSE gaps[h]
  BY <1>1 DEF Reopened
<1> HIDE DEF twins, merged, opened
<1>6. \A h \in DOMAIN gaps : /\ gaps'[h] \in Gap /\ gaps'[h].question = gaps[h].question
                             /\ gaps'[h].draft \in {NoDraft, gaps[h].draft}
                             /\ gaps'[h].status = "in_draft" => gaps[h].status = "in_draft"
                             /\ gaps'[h].status = "open" =>
                                   gaps[h].status = "open" \/ (h = g /\ twins = {})
  BY <1>4, <1>5, GapRows
<1>7. \A h \in DOMAIN gaps : gaps'[h].status = "open" =>
        \A k \in DOMAIN gaps \ {h} : gaps[k].question = gaps[h].question => gaps'[k].status # "open"
  BY <1>3, <1>6 DEF GapsInv, OpenPart
<1> QED
  BY <1>1, <1>5, <1>6, <1>7, GapsAloneKeep

\* purgeRows
LEMMA ForgetKeepsGaps ==
    ASSUME GapsInv, ForgetGaps
    PROVE  GapsInv'
<1>1. UNCHANGED <<drafts, promoting, cutOff>>
  BY DEF ForgetGaps
<1>2. PICK old \in SUBSET DOMAIN gaps :
        gaps' = [g \in DOMAIN gaps |-> IF g \in old THEN Deleted(gaps[g].question) ELSE gaps[g]]
  BY DEF ForgetGaps
<1>3. \A q \in Questions : /\ Deleted(q) \in Gap /\ Deleted(q).question = q
                           /\ Deleted(q).draft = NoDraft /\ Deleted(q).status = "deleted"
  BY DEF Deleted, Gap, NoDraft
<1>4. \A g \in DOMAIN gaps : gaps[g].question \in Questions
  BY GapRows DEF Gap
<1>5. \A h \in DOMAIN gaps : /\ gaps'[h] \in Gap /\ gaps'[h].question = gaps[h].question
                             /\ gaps'[h].draft \in {NoDraft, gaps[h].draft}
                             /\ gaps'[h].status = "in_draft" => gaps[h].status = "in_draft"
                             /\ gaps'[h].status = "open" => gaps[h].status = "open"
  BY <1>2, <1>3, <1>4, GapRows
<1>6. \A h \in DOMAIN gaps : gaps'[h].status = "open" =>
        \A k \in DOMAIN gaps \ {h} : gaps[k].question = gaps[h].question => gaps'[k].status # "open"
  BY <1>5 DEF GapsInv, OpenPart
<1> QED
  BY <1>1, <1>2, <1>5, <1>6, GapsAloneKeep

\* What a gap is once its draft is made.
LEMMA InDraftRow ==
    ASSUME NEW a \in Gap, NEW d \in Nat
    PROVE  LET r == [a EXCEPT !.status = "in_draft", !.draft = d]
           IN  r \in Gap /\ r.status = "in_draft" /\ r.question = a.question /\ r.draft = d
BY DEF Gap

\* A gap gets its draft: it is the first that waits for it.
LEMMA StartKeepsGaps ==
    ASSUME GapsInv, NEW g \in DOMAIN gaps, StartDraft(g)
    PROVE  GapsInv'
<1> DEFINE d == Len(drafts) + 1
<1> DEFINE r == [gaps[g] EXCEPT !.status = "in_draft", !.draft = d]
<1>1. /\ Len(drafts) \in Nat /\ DOMAIN drafts = 1..Len(drafts)
      /\ drafts' = Append(drafts, "pending") /\ UNCHANGED <<promoting, cutOff>>
  BY LenProperties DEF GapsInv, LoopTypes, StartDraft
<1>2. /\ drafts' \in Seq({"pending", "promoted", "rejected", "withdrawn", "deleted"})
      /\ DOMAIN drafts' = DOMAIN drafts \cup {d}
      /\ drafts'[d] = "pending" /\ \A e \in DOMAIN drafts : drafts'[e] = drafts[e]
  BY <1>1, AppendProperties DEF GapsInv, LoopTypes
<1>3. /\ r \in Gap /\ r.status = "in_draft" /\ r.question = gaps[g].question /\ r.draft = d
  <2>1. gaps[g] \in Gap /\ d \in Nat
    BY <1>1, GapRows
  <2> QED
    BY <2>1, InDraftRow
<1>4. gaps' = [gaps EXCEPT ![g] = r]
  <2>1. gaps' = [[gaps EXCEPT ![g].status = "in_draft"] EXCEPT ![g].draft = d]
    BY DEF StartDraft
  <2> QED
    BY <2>1, GapRows DEF Gap
<1> HIDE DEF r, d
<1>5. /\ DOMAIN gaps' = DOMAIN gaps /\ gaps' = [h \in DOMAIN gaps |-> gaps'[h]]
      /\ \A h \in DOMAIN gaps : gaps'[h] = IF h = g THEN r ELSE gaps[h]
  BY <1>4
<1>6. gaps' \in Seq(Gap)
  BY <1>3, <1>5, GapRows, GapsWritten DEF GapsInv, LoopTypes
<1>7. LoopTypes'
  BY <1>1, <1>2, <1>3, <1>5, <1>6 DEF GapsInv, LoopTypes
<1>8. OpenPart'
  BY <1>3, <1>5 DEF GapsInv, OpenPart
<1>9. PromotedMeansResolved'
  BY <1>1, <1>2, <1>3, <1>5 DEF GapsInv, LoopTypes, PromotedMeansResolved
<1> QED
  BY <1>7, <1>8, <1>9 DEF GapsInv

\* An inbox decision: a promotion is noted in `promoting`.
LEMMA DecisionKeepsGaps ==
    ASSUME GapsInv, NEW d \in DOMAIN drafts,
           RejectDraft(d) \/ WithdrawDraft(d) \/ PromoteDraft(d)
    PROVE  GapsInv'
<1>1. UNCHANGED <<gaps, cutOff>> /\ promoting = NoDraft
  BY DEF RejectDraft, WithdrawDraft, PromoteDraft, Decides, PanelIsFree
<1>2. \/ drafts[d] = "pending" /\ drafts' = [drafts EXCEPT ![d] = "rejected"] /\ promoting' = promoting
      \/ drafts[d] = "promoted" /\ drafts' = [drafts EXCEPT ![d] = "withdrawn"] /\ promoting' = promoting
      \/ drafts[d] = "pending" /\ drafts' = [drafts EXCEPT ![d] = "promoted"] /\ promoting' = d
  BY DEF RejectDraft, WithdrawDraft, PromoteDraft, Decides
<1>3. /\ drafts' \in Seq({"pending", "promoted", "rejected", "withdrawn", "deleted"})
      /\ DOMAIN drafts' = DOMAIN drafts
      /\ \A e \in DOMAIN drafts \ {d} : drafts'[e] = drafts[e]
  BY <1>2, DraftWritten DEF GapsInv
<1>4. drafts'[d] = "rejected" \/ promoting' = d \/ drafts[d] = "promoted"
  BY <1>2, DraftWritten DEF GapsInv
<1>5. LoopTypes' /\ OpenPart'
  BY <1>1, <1>2, <1>3 DEF GapsInv, LoopTypes, OpenPart
<1>6. PromotedMeansResolved'
  BY <1>1, <1>3, <1>4 DEF GapsInv, LoopTypes, PromotedMeansResolved
<1> QED
  BY <1>5, <1>6 DEF GapsInv

\* The gaps of a promoted draft are resolved, or the panel dies.
LEMMA PromotionEndKeepsGaps ==
    ASSUME GapsInv, ResolveByDraft \/ PanelDies
    PROVE  GapsInv'
<1>1. CASE PanelDies
  BY <1>1 DEF PanelDies, GapsInv, LoopTypes, OpenPart, PromotedMeansResolved
<1>2. CASE ResolveByDraft
  <2>1. /\ promoting # NoDraft /\ promoting' = NoDraft /\ UNCHANGED <<drafts, cutOff>>
        /\ DOMAIN gaps' = DOMAIN gaps /\ gaps' = [h \in DOMAIN gaps |-> gaps'[h]]
        /\ \A h \in DOMAIN gaps :
              gaps'[h] = IF gaps[h].draft = promoting /\ gaps[h].status = "in_draft"
                         THEN [gaps[h] EXCEPT !.status = "resolved"] ELSE gaps[h]
    BY <1>2 DEF ResolveByDraft, WaitingGapsOf
  <2>2. \A h \in DOMAIN gaps :
          LET r == [gaps[h] EXCEPT !.status = "resolved"]
          IN  /\ r \in Gap /\ r.status = "resolved" /\ r.draft = gaps[h].draft
              /\ r.question = gaps[h].question
    BY GapRows DEF Gap
  <2>3. \A h \in DOMAIN gaps :
          /\ gaps'[h] \in Gap /\ gaps'[h].draft = gaps[h].draft
          /\ gaps'[h].question = gaps[h].question
          /\ gaps'[h].status \in {"resolved", gaps[h].status}
          /\ gaps'[h].status = "in_draft" => gaps[h].draft # promoting
    BY <2>1, <2>2, GapRows
  <2>4. gaps' \in Seq(Gap)
    BY <2>1, <2>3, GapsWritten DEF GapsInv, LoopTypes
  <2>5. LoopTypes' /\ OpenPart'
    BY <2>1, <2>3, <2>4 DEF GapsInv, LoopTypes, OpenPart
  <2>6. PromotedMeansResolved'
    BY <2>1, <2>3 DEF GapsInv, PromotedMeansResolved
  <2> QED
    BY <2>5, <2>6 DEF GapsInv
<1> QED
  BY <1>1, <1>2

\* A rejected draft is deleted: its gaps let go of it.
LEMMA DeletionKeepsGaps ==
    ASSUME GapsInv, NEW d \in DOMAIN drafts, DeleteRejectedDraft(d)
    PROVE  GapsInv'
<1>1. /\ UNCHANGED <<promoting, cutOff>> /\ drafts' = [drafts EXCEPT ![d] = "deleted"]
      /\ DOMAIN gaps' = DOMAIN gaps /\ gaps' = [h \in DOMAIN gaps |-> gaps'[h]]
      /\ \A h \in DOMAIN gaps :
            gaps'[h] = IF gaps[h].draft = d THEN [gaps[h] EXCEPT !.draft = NoDraft] ELSE gaps[h]
  BY DEF DeleteRejectedDraft
<1>2. \A h \in DOMAIN gaps :
        LET r == [gaps[h] EXCEPT !.draft = NoDraft]
        IN  /\ r \in Gap /\ r.status = gaps[h].status /\ r.draft = NoDraft
            /\ r.question = gaps[h].question
  BY GapRows DEF Gap, NoDraft
<1>3. \A h \in DOMAIN gaps :
        /\ gaps'[h] \in Gap /\ gaps'[h].status = gaps[h].status
        /\ gaps'[h].question = gaps[h].question
        /\ gaps'[h].draft = NoDraft \/ (gaps'[h].draft = gaps[h].draft /\ gaps[h].draft # d)
  BY <1>1, <1>2, GapRows
<1>4. gaps' \in Seq(Gap)
  BY <1>1, <1>3, GapsWritten DEF GapsInv, LoopTypes
<1>5. /\ drafts' \in Seq({"pending", "promoted", "rejected", "withdrawn", "deleted"})
      /\ DOMAIN drafts' = DOMAIN drafts
      /\ \A e \in DOMAIN drafts \ {d} : drafts'[e] = drafts[e]
  BY <1>1, DraftWritten DEF GapsInv
<1>6. LoopTypes' /\ OpenPart'
  BY <1>1, <1>3, <1>4, <1>5 DEF GapsInv, LoopTypes, OpenPart
<1>7. PromotedMeansResolved'
  BY <1>1, <1>3, <1>5 DEF GapsInv, LoopTypes, PromotedMeansResolved
<1> QED
  BY <1>6, <1>7 DEF GapsInv

\* Every step of gaps and lessons.
LEMMA GapsStep == GapsInv /\ [GapsNext]_gapVars => GapsInv'
<1>1. GapsInv /\ UNCHANGED gapVars => GapsInv'
  BY DEF gapVars, GapsInv, LoopTypes, OpenPart, PromotedMeansResolved
<1> QED
  BY <1>1, RecordKeepsGaps, StatusKeepsGaps, ReopenKeepsGaps, ForgetKeepsGaps, StartKeepsGaps,
     DecisionKeepsGaps, PromotionEndKeepsGaps, DeletionKeepsGaps
  DEF GapsNext

(***************************************************************************)
(* The unique index of open gaps (ux_gaps_open_dedupe) refuses no write,   *)
(* for any questions and any order of records, drafts, reopenings and      *)
(* purges: reopenGap merges into the open twin.                            *)
(***************************************************************************)
THEOREM OneOpenGap == GapsSpec => []OneOpenGapPerQuestion
<1>1. ASSUME GapsInv, NEW q \in Questions PROVE Cardinality(OpenTwins(q)) <= 1
  <2>1. \A g, h \in OpenTwins(q) : g = h
    BY <1>1 DEF GapsInv, OpenPart, OpenTwins, GapsOf
  <2>2. OpenTwins(q) = {} \/ \E g : OpenTwins(q) = {g}
    BY <2>1
  <2>3. CASE OpenTwins(q) = {}
    BY <2>3, FS_EmptySet
  <2>4. CASE \E g : OpenTwins(q) = {g}
    <3>1. PICK g : OpenTwins(q) = {g}
      BY <2>4
    <3>2. Cardinality({g}) = 1
      BY FS_Singleton
    <3> QED
      BY <3>1, <3>2
  <2> QED
    BY <2>2, <2>3, <2>4
<1>2. GapsInv => OneOpenGapPerQuestion
  BY <1>1 DEF OneOpenGapPerQuestion
<1> QED
  BY <1>2, GapsInitially, GapsStep, PTL DEF GapsSpec

(***************************************************************************)
(* No gap waits for a draft that was promoted, but one whose promotion the *)
(* panel did not survive (promoteDraftEntry).                              *)
(***************************************************************************)
THEOREM PromotionResolves == GapsSpec => []PromotedMeansResolved
<1>1. GapsInv => PromotedMeansResolved
  BY DEF GapsInv
<1> QED
  BY <1>1, GapsInitially, GapsStep, PTL DEF GapsSpec

-----------------------------------------------------------------------------
(***************************************************************************)
(* The evidence.  Only retention takes evidence away, and it counts it.    *)
(***************************************************************************)
LedgerTypes == vain \in [Questions -> Nat] /\ forgotten \in [Questions -> Nat]

\* The evidence of the gaps there are and of the forgotten ones is what was
\* asked in vain.
LedgerInv == GapsInv /\ LedgerTypes /\ NothingAskedIsLost

\* The evidence, gap by gap.
EvidenceOf == [g \in DOMAIN gaps |-> gaps[g].evidence]

\* The evidence of some rows is a number.
LEMMA RowsSumUp ==
    ASSUME NEW gs \in Seq(Gap), NEW some \in SUBSET DOMAIN gs
    PROVE  SumFunctionOnSet([g \in DOMAIN gs |-> gs[g].evidence], some) \in Nat
<1> DEFINE e == [g \in DOMAIN gs |-> gs[g].evidence]
<1>1. Len(gs) \in Nat /\ DOMAIN gs = 1..Len(gs) /\ \A g \in DOMAIN gs : gs[g] \in Gap
  BY ElementOfSeq, LenProperties
<1>2. IsFiniteSet(1..Len(gs))
  BY <1>1, FS_Interval
<1>3. IsFiniteSet(some)
  BY <1>1, <1>2, FS_Subset
<1>4. \A g \in some : e[g] \in Nat
  BY <1>1 DEF Gap
<1> HIDE DEF e
<1>5. SumFunctionOnSet(e, some) \in Nat
  BY <1>3, <1>4, SumNatural
<1> QED
  BY <1>5 DEF e

\* The evidence of some gaps is a sum over a finite set.
LEMMA EvidenceIsSum ==
    ASSUME GapsInv, NEW some \in SUBSET DOMAIN gaps
    PROVE  /\ EvidenceIn(some) = SumFunctionOnSet(EvidenceOf, some)
           /\ IsFiniteSet(some) /\ EvidenceIn(some) \in Nat
           /\ \A g \in some : EvidenceOf[g] = gaps[g].evidence /\ EvidenceOf[g] \in Nat
<1>1. EvidenceIn(some) = SumFunctionOnSet(EvidenceOf, some)
  BY DEF EvidenceIn, EvidenceOf
<1>2. IsFiniteSet(some)
  <2>1. Len(gaps) \in Nat /\ DOMAIN gaps = 1..Len(gaps)
    BY LenProperties DEF GapsInv, LoopTypes
  <2>2. IsFiniteSet(1..Len(gaps))
    BY <2>1, FS_Interval
  <2> QED
    BY <2>1, <2>2, FS_Subset
<1>3. \A g \in some : EvidenceOf[g] = gaps[g].evidence /\ EvidenceOf[g] \in Nat
  BY GapRows DEF EvidenceOf, Gap
<1>4. SumFunctionOnSet(EvidenceOf, some) \in Nat
  BY RowsSumUp DEF EvidenceOf, GapsInv, LoopTypes
<1> QED
  BY <1>1, <1>2, <1>3, <1>4

\* The gaps that are left of a question keep their evidence, or gain some.
LEMMA EvidenceKept ==
    ASSUME GapsInv, GapsInv', NEW q, GapsLeft(q)' = GapsLeft(q),
           \A g \in GapsLeft(q) : gaps[g].evidence <= gaps'[g].evidence
    PROVE  Evidence(q) <= Evidence(q)'
<1> DEFINE left == GapsLeft(q)
           then == EvidenceOf'
<1>1. left \subseteq DOMAIN gaps /\ left \subseteq DOMAIN gaps'
  <2>1. GapsLeft(q)' \subseteq DOMAIN gaps'
    BY DEF GapsLeft, GapsOf
  <2> QED
    BY <2>1 DEF GapsLeft, GapsOf
<1>2. /\ Evidence(q) = SumFunctionOnSet(EvidenceOf, left) /\ IsFiniteSet(left)
      /\ \A g \in left : EvidenceOf[g] = gaps[g].evidence /\ EvidenceOf[g] \in Nat
  BY <1>1, EvidenceIsSum DEF Evidence
<1>3. Evidence(q)' = SumFunctionOnSet(then, left)
  BY DEF Evidence, EvidenceIn, EvidenceOf
<1>4. \A g \in left : then[g] = gaps'[g].evidence /\ then[g] \in Int
  <2>1. \A g \in DOMAIN gaps' : gaps'[g] \in Gap
    BY GapRows, ElementOfSeq, LenProperties DEF GapsInv, LoopTypes
  <2> QED
    BY <1>1, <2>1 DEF EvidenceOf, Gap
<1> HIDE DEF left, then
<1>5. \A g \in left : EvidenceOf[g] \in Int /\ then[g] \in Int /\ EvidenceOf[g] <= then[g]
  BY <1>2, <1>4 DEF left
<1>6. SumFunctionOnSet(EvidenceOf, left) <= SumFunctionOnSet(then, left)
  BY <1>2, <1>5, SumGrows
<1> QED
  BY <1>2, <1>3, <1>6

\* A question is asked in vain once more: the evidence grows by one.
LEMMA RecordIsEvidence ==
    ASSUME GapsInv, GapsInv', NEW q \in Questions, RecordGap(q)
    PROVE  /\ Evidence(q)' = Evidence(q) + 1
           /\ \A p \in Questions \ {q} : Evidence(p) <= Evidence(p)'
<1>1. \A g \in DOMAIN gaps : gaps[g] \in Gap
  BY GapRows
<1> DEFINE left == GapsLeft(q)
           then == EvidenceOf'
<1>2. /\ left \in SUBSET DOMAIN gaps
      /\ Evidence(q) = SumFunctionOnSet(EvidenceOf, left) /\ IsFiniteSet(left)
      /\ \A g \in left : EvidenceOf[g] = gaps[g].evidence /\ EvidenceOf[g] \in Nat
  <2>1. left \in SUBSET DOMAIN gaps
    BY DEF GapsLeft, GapsOf
  <2> QED
    BY <2>1, EvidenceIsSum DEF Evidence
<1>3. CASE \E g \in OpenTwins(q) : gaps' = [gaps EXCEPT ![g].evidence = @ + 1]
  <2>1. PICK g \in OpenTwins(q) : gaps' = [gaps EXCEPT ![g].evidence = @ + 1]
    BY <1>3
  <2>2. g \in DOMAIN gaps /\ gaps[g].question = q /\ gaps[g].status = "open" /\ g \in left
    BY DEF OpenTwins, GapsOf, GapsLeft
  <2>3. /\ DOMAIN gaps' = DOMAIN gaps
        /\ \A h \in DOMAIN gaps :
              /\ gaps'[h].question = gaps[h].question /\ gaps'[h].status = gaps[h].status
              /\ gaps'[h].evidence = gaps[h].evidence + (IF h = g THEN 1 ELSE 0)
    <3>1. \A h \in DOMAIN gaps :
            gaps'[h] = IF h = g THEN [gaps[h] EXCEPT !.evidence = @ + 1] ELSE gaps[h]
      BY <2>1, <2>2
    <3> QED
      BY <1>1, <2>1, <3>1 DEF Gap
  <2>4. \A p \in Questions : GapsLeft(p)' = GapsLeft(p)
    BY <2>3 DEF GapsLeft, GapsOf
  <2>5. \A p \in Questions \ {q} : Evidence(p) <= Evidence(p)'
    <3> TAKE p \in Questions \ {q}
    <3>1. \A h \in GapsLeft(p) : gaps[h].evidence <= gaps'[h].evidence
      BY <1>1, <2>3 DEF GapsLeft, GapsOf, Gap
    <3> QED
      BY <2>4, <3>1, EvidenceKept
  <2>6. Evidence(q)' = SumFunctionOnSet(then, left)
    BY <2>4 DEF Evidence, EvidenceIn, EvidenceOf
  <2>7. \A h \in left : then[h] = EvidenceOf[h] + (IF h = g THEN 1 ELSE 0)
    BY <1>2, <2>3 DEF EvidenceOf
  <2> HIDE DEF left, then
  <2>8. SumFunctionOnSet(EvidenceOf, left) = EvidenceOf[g] + SumFunctionOnSet(EvidenceOf, left \ {g})
    BY <1>2, <2>2, SumRemove
  <2>9. SumFunctionOnSet(then, left) = then[g] + SumFunctionOnSet(then, left \ {g})
    <3>1. \A h \in left : then[h] \in Int
      BY <1>2, <2>7
    <3> QED
      BY <1>2, <2>2, <3>1, SumRemove
  <2>10. IsFiniteSet(left \ {g}) /\ \A h \in left \ {g} : EvidenceOf[h] \in Int
    BY <1>2, FS_Subset
  <2>11. SumFunctionOnSet(EvidenceOf, left \ {g}) = SumFunctionOnSet(then, left \ {g})
    <3>1. \A h \in left \ {g} : EvidenceOf[h] \in Int /\ EvidenceOf[h] = then[h]
      BY <1>2, <2>7
    <3> QED
      BY <2>10, <3>1, SumSame
  <2>12. SumFunctionOnSet(EvidenceOf, left \ {g}) \in Int
    BY <2>10, SumIs
  <2>13. then[g] = EvidenceOf[g] + 1 /\ EvidenceOf[g] \in Nat
    BY <1>2, <2>2, <2>7
  <2>14. Evidence(q)' = Evidence(q) + 1
    <3> DEFINE w == SumFunctionOnSet(EvidenceOf, left \ {g})
               u == EvidenceOf[g]
    <3>1. Evidence(q)' = (u + 1) + w /\ Evidence(q) = u + w
      BY <1>2, <2>6, <2>8, <2>9, <2>11, <2>13
    <3>2. u \in Int /\ w \in Int
      BY <2>12, <2>13
    <3> HIDE DEF u, w
    <3> QED
      BY <3>1, <3>2
  <2> QED
    BY <2>5, <2>14
<1>4. CASE OpenTwins(q) = {} /\ gaps' = Append(gaps, [question |-> q, status |-> "open",
                                                     evidence |-> 1, draft |-> NoDraft])
  <2> DEFINE r == [question |-> q, status |-> "open", evidence |-> 1, draft |-> NoDraft]
             n == Len(gaps) + 1
  <2>1. r \in Gap /\ r.question = q /\ r.status = "open" /\ r.evidence = 1
    BY DEF Gap, NoDraft
  <2> HIDE DEF r
  <2>2. gaps' = Append(gaps, r) /\ gaps \in Seq(Gap)
    BY <1>4 DEF r, GapsInv, LoopTypes
  <2>3. /\ DOMAIN gaps' = DOMAIN gaps \cup {n} /\ n \notin DOMAIN gaps
        /\ gaps'[n] = r /\ \A g \in DOMAIN gaps : gaps'[g] = gaps[g]
    BY <2>1, <2>2, GapAdded
  <2> HIDE DEF n
  <2>4. \A p \in Questions \ {q} : GapsLeft(p)' = GapsLeft(p)
    BY <2>1, <2>3 DEF GapsLeft, GapsOf
  <2>5. GapsLeft(q)' = left \cup {n} /\ n \notin left
    BY <2>1, <2>3 DEF GapsLeft, GapsOf
  <2>6. \A p \in Questions \ {q} : Evidence(p) <= Evidence(p)'
    <3> TAKE p \in Questions \ {q}
    <3>1. \A h \in GapsLeft(p) : gaps[h].evidence <= gaps'[h].evidence
      BY <1>1, <2>3 DEF GapsLeft, GapsOf, Gap
    <3> QED
      BY <2>4, <3>1, EvidenceKept
  <2>7. Evidence(q)' = SumFunctionOnSet(then, left \cup {n})
    BY <2>5 DEF Evidence, EvidenceIn, EvidenceOf
  <2>8. then[n] = 1 /\ \A h \in left : then[h] = EvidenceOf[h]
    BY <1>2, <2>1, <2>3 DEF EvidenceOf
  <2> HIDE DEF left, then
  <2>9. IsFiniteSet(left \cup {n}) /\ (left \cup {n}) \ {n} = left
    BY <1>2, <2>5, FS_AddElement
  <2>10. SumFunctionOnSet(then, left \cup {n}) = then[n] + SumFunctionOnSet(then, left)
    <3>1. \A h \in left \cup {n} : then[h] \in Int
      BY <1>2, <2>8
    <3>2. SumFunctionOnSet(then, left \cup {n})
             = then[n] + SumFunctionOnSet(then, (left \cup {n}) \ {n})
      BY <2>9, <3>1, SumRemove
    <3> QED
      BY <2>9, <3>2
  <2>11. SumFunctionOnSet(EvidenceOf, left) = SumFunctionOnSet(then, left)
    <3>1. \A h \in left : EvidenceOf[h] \in Int /\ EvidenceOf[h] = then[h]
      BY <1>2, <2>8
    <3> QED
      BY <1>2, <3>1, SumSame
  <2>12. SumFunctionOnSet(EvidenceOf, left) \in Int
    <3>1. \A h \in left : EvidenceOf[h] \in Int
      BY <1>2
    <3> QED
      BY <1>2, <3>1, SumIs
  <2>13. Evidence(q)' = Evidence(q) + 1
    BY <1>2, <2>7, <2>8, <2>10, <2>11, <2>12
  <2> QED
    BY <2>6, <2>13
<1> QED
  BY <1>3, <1>4 DEF RecordGap

\* What retention deletes is counted.
LEMMA ForgottenIsCounted ==
    ASSUME GapsInv, GapsInv', LedgerTypes, ForgetGaps, NEW q \in Questions
    PROVE  /\ forgotten' \in [Questions -> Nat]
           /\ Evidence(q)' + forgotten'[q] = Evidence(q) + forgotten[q]
<1>1. PICK old \in SUBSET {g \in DOMAIN gaps : gaps[g].status \in Closed} :
        /\ gaps' = [g \in DOMAIN gaps |-> IF g \in old THEN Deleted(gaps[g].question) ELSE gaps[g]]
        /\ forgotten' = [p \in Questions |-> forgotten[p] + EvidenceIn(old \cap GapsOf(p))]
  BY DEF ForgetGaps
<1>2. \A p \in Questions : EvidenceIn(old \cap GapsOf(p)) \in Nat
  <2> TAKE p \in Questions
  <2>1. old \cap GapsOf(p) \in SUBSET DOMAIN gaps
    OBVIOUS
  <2> QED
    BY <2>1, EvidenceIsSum
<1>3. /\ forgotten' \in [Questions -> Nat]
      /\ forgotten'[q] = forgotten[q] + EvidenceIn(old \cap GapsOf(q))
  <2> DEFINE gone(p) == EvidenceIn(old \cap GapsOf(p))
  <2>1. \A p \in Questions : gone(p) \in Nat
    BY <1>2
  <2>2. forgotten' = [p \in Questions |-> forgotten[p] + gone(p)]
    BY <1>1
  <2> HIDE DEF gone
  <2>3. forgotten' \in [Questions -> Nat] /\ forgotten'[q] = forgotten[q] + gone(q)
    BY <2>1, <2>2 DEF LedgerTypes
  <2> QED
    BY <2>3 DEF gone
<1> DEFINE left == GapsLeft(q)
           K == old \cap GapsOf(q)
           then == EvidenceOf'
<1>4. K \in SUBSET left /\ left \in SUBSET DOMAIN gaps /\ K \in SUBSET DOMAIN gaps
  BY DEF GapsLeft, GapsOf, Closed
<1>5. GapsLeft(q)' = left \ K
  <2>1. DOMAIN gaps' = DOMAIN gaps /\ \A p : Deleted(p).question = p /\ Deleted(p).status = "deleted"
    BY <1>1 DEF Deleted
  <2>2. \A g \in DOMAIN gaps :
          gaps'[g].question = gaps[g].question
          /\ (gaps'[g].status # "deleted" <=> gaps[g].status # "deleted" /\ g \notin old)
    BY <1>1, <2>1
  <2> QED
    BY <2>1, <2>2 DEF GapsLeft, GapsOf
<1>6. Evidence(q)' = SumFunctionOnSet(then, left \ K)
  BY <1>5 DEF Evidence, EvidenceIn, EvidenceOf
<1>7. \A g \in left \ K : then[g] = EvidenceOf[g]
  BY <1>1, <1>4 DEF EvidenceOf, GapsLeft
<1>8. /\ Evidence(q) = SumFunctionOnSet(EvidenceOf, left) /\ IsFiniteSet(left)
      /\ \A g \in left : EvidenceOf[g] \in Nat
  BY <1>4, EvidenceIsSum DEF Evidence
<1>9. EvidenceIn(K) = SumFunctionOnSet(EvidenceOf, K) /\ EvidenceIn(K) \in Int
  BY <1>4, EvidenceIsSum
<1> HIDE DEF left, K, then
<1>10. SumFunctionOnSet(EvidenceOf, left)
          = SumFunctionOnSet(EvidenceOf, K) + SumFunctionOnSet(EvidenceOf, left \ K)
  BY <1>4, <1>8, SumSplit
<1>11. /\ IsFiniteSet(left \ K)
       /\ \A g \in left \ K : EvidenceOf[g] \in Int /\ EvidenceOf[g] = then[g]
  BY <1>7, <1>8, FS_Subset
<1>12. /\ SumFunctionOnSet(EvidenceOf, left \ K) = SumFunctionOnSet(then, left \ K)
       /\ SumFunctionOnSet(EvidenceOf, left \ K) \in Int
  <2>1. SumFunctionOnSet(EvidenceOf, left \ K) = SumFunctionOnSet(then, left \ K)
    BY <1>11, SumSame
  <2>2. \A g \in left \ K : EvidenceOf[g] \in Int
    BY <1>11
  <2>3. SumFunctionOnSet(EvidenceOf, left \ K) \in Int
    BY <1>11, <2>2, SumIs
  <2> QED
    BY <2>1, <2>3
<1>13. forgotten[q] \in Int /\ forgotten'[q] = forgotten[q] + EvidenceIn(K)
  BY <1>3 DEF LedgerTypes, K
<1> DEFINE u == SumFunctionOnSet(EvidenceOf, left \ K)
           v == EvidenceIn(K)
<1>14. Evidence(q)' = u /\ Evidence(q) = v + u /\ u \in Int /\ v \in Int
  BY <1>6, <1>8, <1>9, <1>10, <1>12
<1>15. forgotten'[q] = forgotten[q] + v
  BY <1>13
<1> HIDE DEF u, v
<1>16. Evidence(q)' + forgotten'[q] = Evidence(q) + forgotten[q]
  BY <1>13, <1>14, <1>15
<1> QED
  BY <1>3, <1>16

\* Every other step keeps the gaps that are left, and lowers no evidence.
LEMMA OthersKeepEvidence ==
    ASSUME GapsInv, GapsInv', NEW q \in Questions,
           \/ \E g \in DOMAIN gaps :
                 StartDraft(g) \/ ReopenGap(g) \/ \E to \in Closed : SetGapStatus(g, to)
           \/ \E d \in DOMAIN drafts : DeleteRejectedDraft(d)
           \/ ResolveByDraft
    PROVE  Evidence(q) <= Evidence(q)' /\ UNCHANGED <<vain, forgotten>>
<1>1. UNCHANGED <<vain, forgotten>>
  BY DEF StartDraft, ReopenGap, SetGapStatus, DeleteRejectedDraft, ResolveByDraft
<1>2. \A g \in DOMAIN gaps : gaps[g] \in Gap
  BY GapRows
<1> DEFINE Kept == /\ DOMAIN gaps' = DOMAIN gaps
                   /\ \A h \in DOMAIN gaps :
                         /\ gaps'[h].question = gaps[h].question
                         /\ gaps'[h].status # "deleted" <=> gaps[h].status # "deleted"
                         /\ gaps[h].evidence <= gaps'[h].evidence
<1>3. ASSUME NEW g \in DOMAIN gaps, StartDraft(g)
      PROVE  Kept
  <2>1. gaps[g].status = "open"
        /\ gaps' = [gaps EXCEPT ![g].status = "in_draft", ![g].draft = Len(drafts) + 1]
    BY <1>3 DEF StartDraft
  <2>2. \A h \in DOMAIN gaps : h # g => gaps'[h] = gaps[h]
    BY <1>2, <2>1
  <2>3. /\ gaps'[g].question = gaps[g].question /\ gaps'[g].status = "in_draft"
        /\ gaps'[g].evidence = gaps[g].evidence
    BY <1>2, <2>1 DEF Gap
  <2> QED
    BY <1>2, <2>1, <2>2, <2>3 DEF Gap
<1>4. ASSUME NEW g \in DOMAIN gaps, NEW to \in Closed, SetGapStatus(g, to)
      PROVE  Kept
  <2>1. to \in CanBecome[gaps[g].status] /\ gaps' = [gaps EXCEPT ![g].status = to]
    BY <1>4 DEF SetGapStatus
  <2>2. gaps[g].status # "deleted" /\ to # "deleted"
    BY <2>1 DEF CanBecome, Closed
  <2> QED
    BY <1>2, <2>1, <2>2 DEF Gap
<1>5. ASSUME NEW g \in DOMAIN gaps, ReopenGap(g)
      PROVE  Kept
  <2> DEFINE twins == OpenTwins(gaps[g].question) \ {g}
  <2>1. gaps[g].status # "deleted" /\ gaps[g].evidence \in Nat
    BY <1>2, <1>5 DEF ReopenGap, CanBecome, Gap
  <2>2. /\ DOMAIN gaps' = DOMAIN gaps
        /\ \A h \in DOMAIN gaps :
             gaps'[h] = IF h \in twins THEN [gaps[h] EXCEPT !.evidence = @ + gaps[g].evidence]
                        ELSE IF h = g /\ twins = {} THEN [gaps[h] EXCEPT !.status = "open"]
                        ELSE gaps[h]
    BY <1>5 DEF ReopenGap, Reopened
  <2> HIDE DEF twins
  <2>3. \A h \in DOMAIN gaps :
          /\ gaps'[h].question = gaps[h].question
          /\ gaps'[h].status # "deleted" <=> gaps[h].status # "deleted"
          /\ gaps[h].evidence <= gaps'[h].evidence
    <3> TAKE h \in DOMAIN gaps
    <3>1. gaps[h] \in Gap
      BY <1>2
    <3>2. CASE h \in twins
      <4>1. gaps'[h] = [gaps[h] EXCEPT !.evidence = @ + gaps[g].evidence]
        BY <2>2, <3>2
      <4> QED
        BY <2>1, <3>1, <4>1 DEF Gap
    <3>3. CASE h \notin twins /\ h = g /\ twins = {}
      <4>1. gaps'[h] = [gaps[h] EXCEPT !.status = "open"]
        BY <2>2, <3>3
      <4> QED
        BY <2>1, <3>1, <3>3, <4>1 DEF Gap
    <3>4. CASE h \notin twins /\ ~ (h = g /\ twins = {})
      <4>1. gaps'[h] = gaps[h]
        BY <2>2, <3>4
      <4> QED
        BY <3>1, <4>1 DEF Gap
    <3> QED
      BY <3>2, <3>3, <3>4
  <2> QED
    BY <2>2, <2>3
<1>6. ASSUME NEW d \in DOMAIN drafts, DeleteRejectedDraft(d)
      PROVE  Kept
  <2>1. gaps' = [g \in DOMAIN gaps |->
                   IF gaps[g].draft = d THEN [gaps[g] EXCEPT !.draft = NoDraft] ELSE gaps[g]]
    BY <1>6 DEF DeleteRejectedDraft
  <2> QED
    BY <1>2, <2>1 DEF Gap
<1>7. ASSUME ResolveByDraft
      PROVE  Kept
  <2>1. gaps' = [g \in DOMAIN gaps |->
                   IF g \in WaitingGapsOf(promoting)
                   THEN [gaps[g] EXCEPT !.status = "resolved"] ELSE gaps[g]]
    BY <1>7 DEF ResolveByDraft
  <2>2. \A g \in WaitingGapsOf(promoting) : gaps[g].status = "in_draft"
    BY DEF WaitingGapsOf
  <2> QED
    BY <1>2, <2>1, <2>2 DEF Gap
<1>8. Kept
  BY <1>3, <1>4, <1>5, <1>6, <1>7
<1>9. GapsLeft(q)' = GapsLeft(q)
  BY <1>8 DEF GapsLeft, GapsOf
<1>10. \A g \in GapsLeft(q) : gaps[g].evidence <= gaps'[g].evidence
  BY <1>8 DEF GapsLeft, GapsOf
<1>11. Evidence(q) <= Evidence(q)'
  BY <1>9, <1>10, EvidenceKept
<1> QED
  BY <1>1, <1>11

\* Nothing was asked at the start.
LEMMA LedgerInitially == GapsInit => LedgerInv
<1> SUFFICES ASSUME GapsInit PROVE LedgerInv
  OBVIOUS
<1>1. GapsInv
  BY GapsInitially
<1>2. /\ LedgerTypes /\ \A q \in Questions : vain[q] = 0 /\ forgotten[q] = 0
  BY DEF GapsInit, LedgerTypes
<1>3. \A q \in Questions : Evidence(q) = 0
  <2> TAKE q \in Questions
  <2>1. GapsLeft(q) = {}
    BY DEF GapsInit, GapsLeft, GapsOf
  <2> QED
    BY <2>1, SumEmpty DEF Evidence, EvidenceIn
<1> QED
  BY <1>1, <1>2, <1>3 DEF LedgerInv, NothingAskedIsLost

\* Every step of them keeps the sum.
LEMMA LedgerStep == LedgerInv /\ [GapsNext]_gapVars => LedgerInv'
<1> SUFFICES ASSUME LedgerInv, [GapsNext]_gapVars
             PROVE  LedgerInv'
  OBVIOUS
<1>1. GapsInv /\ GapsInv' /\ LedgerTypes /\ NothingAskedIsLost
  BY GapsStep DEF LedgerInv
<1>2. \A q \in Questions : /\ Evidence(q) \in Int /\ Evidence(q)' \in Int
                           /\ vain[q] \in Int /\ forgotten[q] \in Int
                           /\ vain[q] <= Evidence(q) + forgotten[q]
  <2>1. \A q \in Questions : Evidence(q) \in Int
    <3> TAKE q \in Questions
    <3>1. gaps \in Seq(Gap) /\ GapsLeft(q) \in SUBSET DOMAIN gaps
      BY <1>1 DEF GapsInv, LoopTypes, GapsLeft, GapsOf
    <3> QED
      BY <3>1, RowsSumUp DEF Evidence, EvidenceIn
  <2>2. \A q \in Questions : Evidence(q)' \in Int
    <3> TAKE q \in Questions
    <3>1. gaps' \in Seq(Gap) /\ GapsLeft(q)' \in SUBSET DOMAIN gaps'
      BY <1>1 DEF GapsInv, LoopTypes, GapsLeft, GapsOf
    <3>2. SumFunctionOnSet([g \in DOMAIN gaps' |-> gaps'[g].evidence], GapsLeft(q)') \in Int
      BY <3>1, RowsSumUp
    <3> QED
      BY <3>2 DEF Evidence, EvidenceIn
  <2> QED
    BY <1>1, <2>1, <2>2 DEF LedgerTypes, NothingAskedIsLost
<1>3. ASSUME NEW q \in Questions, RecordGap(q)
      PROVE  LedgerTypes' /\ NothingAskedIsLost'
  <2>1. vain' = [vain EXCEPT ![q] = @ + 1] /\ UNCHANGED forgotten
    BY <1>3 DEF RecordGap
  <2>2. LedgerTypes' /\ vain'[q] = vain[q] + 1 /\ \A p \in Questions \ {q} : vain'[p] = vain[p]
    BY <1>1, <2>1 DEF LedgerTypes
  <2>3. /\ Evidence(q)' = Evidence(q) + 1
        /\ \A p \in Questions \ {q} : Evidence(p) <= Evidence(p)'
    BY <1>1, <1>3, RecordIsEvidence
  <2>4. ASSUME NEW p \in Questions
        PROVE  vain'[p] <= Evidence(p)' + forgotten'[p]
    BY <1>2, <2>1, <2>2, <2>3
  <2> QED
    BY <1>2, <2>1, <2>2, <2>4 DEF NothingAskedIsLost
<1>4. ASSUME ForgetGaps
      PROVE  LedgerTypes' /\ NothingAskedIsLost'
  <2>1. UNCHANGED vain
    BY <1>4 DEF ForgetGaps
  <2>2. \A q \in Questions : /\ forgotten' \in [Questions -> Nat]
                             /\ Evidence(q)' + forgotten'[q] = Evidence(q) + forgotten[q]
    BY <1>1, <1>4, ForgottenIsCounted
  <2>3. forgotten' \in [Questions -> Nat]
    <3>1. CASE Questions = {}
      BY <1>4, <3>1 DEF ForgetGaps
    <3> QED
      BY <2>2, <3>1
  <2> QED
    BY <1>1, <1>2, <2>1, <2>2, <2>3 DEF LedgerTypes, NothingAskedIsLost
<1>5. ASSUME \/ \E g \in DOMAIN gaps :
                   StartDraft(g) \/ ReopenGap(g) \/ \E to \in Closed : SetGapStatus(g, to)
             \/ \E d \in DOMAIN drafts : DeleteRejectedDraft(d)
             \/ ResolveByDraft
      PROVE  LedgerTypes' /\ NothingAskedIsLost'
  <2>1. UNCHANGED <<vain, forgotten>>
    BY <1>5 DEF StartDraft, ReopenGap, SetGapStatus, DeleteRejectedDraft, ResolveByDraft
  <2>2. \A q \in Questions : Evidence(q) <= Evidence(q)'
    BY <1>1, <1>5, OthersKeepEvidence
  <2>3. \A q \in Questions : vain'[q] <= Evidence(q)' + forgotten'[q]
    BY <1>2, <2>1, <2>2
  <2> QED
    BY <1>1, <1>2, <2>1, <2>3 DEF LedgerTypes, NothingAskedIsLost
<1>6. CASE UNCHANGED <<gaps, vain, forgotten>>
  <2>1. \A q \in Questions : Evidence(q)' = Evidence(q)
    BY <1>6 DEF Evidence, EvidenceIn, GapsLeft, GapsOf
  <2> QED
    BY <1>1, <1>6, <2>1 DEF LedgerInv, LedgerTypes, NothingAskedIsLost
<1>7. \/ UNCHANGED <<gaps, vain, forgotten>> \/ ForgetGaps \/ ResolveByDraft
      \/ \E q \in Questions : RecordGap(q)
      \/ \E g \in DOMAIN gaps :
             StartDraft(g) \/ ReopenGap(g) \/ \E to \in Closed : SetGapStatus(g, to)
      \/ \E d \in DOMAIN drafts : DeleteRejectedDraft(d)
  BY DEF GapsNext, gapVars, PromoteDraft, RejectDraft, WithdrawDraft, Decides, PanelDies
<1> QED
  BY <1>1, <1>3, <1>4, <1>5, <1>6, <1>7 DEF LedgerInv

\* So the gaps have their types.
LEMMA GapTypes == LedgerInv => GapsTypeOK
<1>1. DOMAIN CanBecome = {"open", "in_draft", "resolved", "ignored", "deleted"}
  BY DEF CanBecome
<1> QED
  BY <1>1, GapRows DEF LedgerInv, GapsInv, LedgerTypes, LoopTypes, Gap, GapsTypeOK

(***************************************************************************)
(* Merging, reopening, drafting and resolving lose nothing that was asked  *)
(* in vain: for any questions and any order of recordGap, reopenGap,       *)
(* startDraftFromGap, resolveByDraft and purgeRows, the evidence of the    *)
(* rows of a question and of the closed rows retention deleted covers      *)
(* every recording of it.                                                  *)
(***************************************************************************)
THEOREM EvidenceIsKept == GapsSpec => []NothingAskedIsLost
<1>1. LedgerInv => NothingAskedIsLost
  BY DEF LedgerInv
<1> QED
  BY <1>1, LedgerInitially, LedgerStep, PTL DEF GapsSpec

=============================================================================
