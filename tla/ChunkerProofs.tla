---------------------------- MODULE ChunkerProofs ----------------------------
(***************************************************************************)
(* Theorems about Chunker: for every limit, every number of lines and      *)
(* every set of shapes whose openings leave room for a body, cutting a     *)
(* document loses and breaks nothing.  The proof follows the code from the *)
(* inside out.  A text is sound if it breaks neither a pair nor a fence    *)
(* line; what is seen of it is its body.  A long paragraph, a long line    *)
(* and a long fence are cut into sound pieces whose bodies are together    *)
(* the body of what is cut; packing keeps both; so the chunks of a section *)
(* show what its paragraphs show, those what its lines show, and the       *)
(* sections what the document shows.  ChunkerInv says so of a document     *)
(* that is cut in part, and is inductive.                                  *)
(***************************************************************************)
EXTENDS Chunker, DataLemmas

-----------------------------------------------------------------------------
(***************************************************************************)
(* Characters and the texts made of them.                                  *)
(***************************************************************************)
\* A character, and the texts made of them.
Kinds == {"letter", "space", "newline", "dot", "tick", "hash", "high", "low"}
Chars == [line : Nat, column : Nat, kind : Kinds]
Text == Seq(Chars)

\* The newline is a character that does not show and has no line.
LEMMA NewlineIs ==
    /\ Newline \in Chars /\ Newline.line = 0 /\ Newline.kind = "newline"
    /\ ~Shows(Newline) /\ <<Newline>> \in Text
<1>1. Newline \in Chars /\ Newline.line = 0 /\ Newline.kind = "newline"
  BY DEF Newline, Char, Chars, Kinds
<1>2. ~Shows(Newline)
  BY <1>1 DEF Shows
<1> HIDE DEF Chars
<1> QED
  BY <1>1, <1>2 DEF Text

\* The closing that the code adds is three backticks of no line.
LEMMA TicksAre ==
    /\ Ticks \in Text /\ Len(Ticks) = 3
    /\ \A i \in 1..3 : Ticks[i].kind = "tick" /\ Ticks[i].column = i /\ Ticks[i].line = 0
<1>1. \A i \in 1..3 : Ticks[i] = Char(0, i, "tick")
  BY DEF Ticks
<1>2. \A i \in 1..3 : Char(0, i, "tick") \in Chars /\ Char(0, i, "tick").kind = "tick"
         /\ Char(0, i, "tick").column = i /\ Char(0, i, "tick").line = 0
  BY DEF Char, Chars, Kinds
<1>3. Ticks \in [1..3 -> Chars]
  BY <1>2 DEF Ticks
<1> HIDE DEF Chars
<1>4. Ticks \in Seq(Chars)
  BY <1>3, SeqDef
<1> QED
  BY <1>1, <1>2, <1>3, <1>4, LenProperties DEF Text

\* What NothingIsLost keeps of the text, as a fold.
BodyStep(kept, e) == IF InBody(e) THEN Append(kept, e) ELSE kept

\* it is the function that the fold applies to the places of s.
IsKeptBody(s, it) ==
    it = [t \in SUBSET DOMAIN s |->
            IF t = {} THEN <<>> ELSE BodyStep(it[t \ {Max(t)}], s[Max(t)])]

\* The fold, opened once.
LEMMA KeptBodyUnfolds == \A s : Filtered(s, InBody) = (CHOOSE it : IsKeptBody(s, it))[DOMAIN s]
BY DEF IsKeptBody, Filtered, FoldLeft, MapThenFoldSet, BodyStep

\* It is a fold whose step is a function.
LEMMA KeptBodyIsFold ==
    ASSUME NEW s \in Seq(Chars), <<>> \in Text,
           \A a \in Text, e \in Chars : BodyStep(a, e) \in Text
    PROVE  Filtered(s, InBody) = FoldOf([a \in Text |-> [e \in Chars |-> BodyStep(a, e)]], <<>>, s)
<1> DEFINE step == [a \in Text |-> [e \in Chars |-> BodyStep(a, e)]]
           base == <<>>
           c == CHOOSE it : IsKeptBody(s, it)
<1>1. step \in [Text -> [Chars -> Text]]
  OBVIOUS
<1>2. \A a \in Text, e \in Chars : step[a][e] = BodyStep(a, e)
  OBVIOUS
<1>3. Len(s) \in Nat /\ DOMAIN s = 1..Len(s) /\ \A i \in 1..Len(s) : s[i] \in Chars
  BY LenProperties, ElementOfSeq
<1>0. base \in Text
  OBVIOUS
<1> HIDE DEF step, base
<1>4. PICK it \in [SUBSET DOMAIN s -> Text] : IsIter(step, base, s, it)
  BY <1>0, <1>1, FoldIter
<1>5. IsKeptBody(s, it)
  <2>1. ASSUME NEW t \in SUBSET DOMAIN s, t # {}
        PROVE  step[it[t \ {Max(t)}]][s[Max(t)]] = BodyStep(it[t \ {Max(t)}], s[Max(t)])
    <3>1. Max(t) \in 1..Len(s) /\ t \ {Max(t)} \in SUBSET DOMAIN s
      BY <1>3, <2>1, MaxOfPlaces
    <3>2. it[t \ {Max(t)}] \in Text /\ s[Max(t)] \in Chars
      BY <1>3, <3>1
    <3> QED
      BY <1>2, <3>2
  <2> QED
    BY <1>4, <2>1 DEF IsIter, IsKeptBody, base
<1>6. IsKeptBody(s, c)
  BY <1>5
<1> HIDE DEF c
<1>7. c[{}] = base
  BY <1>6 DEF IsKeptBody, base
<1>8. ASSUME NEW k \in 1..Len(s), c[1..(k - 1)] \in Text
      PROVE  c[1..k] = step[c[1..(k - 1)]][s[k]]
  <2>1. Max(1..k) = k /\ (1..k) \ {k} = 1..(k - 1) /\ 1..k \in SUBSET DOMAIN s /\ 1..k # {}
    BY <1>3, MaxOfPlaces
  <2>2. c[1..k] = BodyStep(c[1..(k - 1)], s[k])
    BY <1>6, <2>1 DEF IsKeptBody
  <2>3. s[k] \in Chars
    BY <1>3
  <2> QED
    BY <1>2, <1>8, <2>2, <2>3
<1>9. TakesSteps(step, base, s, Text, c)
  BY <1>7, <1>8 DEF TakesSteps
<1>a. Stepper(step, base, Text, Chars)
  BY <1>0, <1>1 DEF Stepper
<1>10. c[DOMAIN s] = FoldOf(step, base, s) /\ c[DOMAIN s] \in Text
  BY <1>a, <1>9, FoldMatch
<1> QED
  BY <1>10, KeptBodyUnfolds DEF c, step, base

\* One line more, after a newline.
AddLine(s, line) == s \o <<Newline>> \o line

\* it is the function that the fold applies to the places of s.
IsJoined(s, it, first) ==
    it = [t \in SUBSET DOMAIN s |->
            IF t = {} THEN first ELSE AddLine(it[t \ {Max(t)}], s[Max(t)])]

\* The fold, opened once.
LEMMA JoinedUnfolds == \A s, first : FoldLeft(AddLine, first, s) = (CHOOSE it : IsJoined(s, it, first))[DOMAIN s]
BY DEF IsJoined, FoldLeft, MapThenFoldSet, AddLine

\* It is a fold whose step is a function.
LEMMA JoinedIsFold ==
    ASSUME NEW first, NEW s \in Seq(Text), first \in Text,
           \A a \in Text, e \in Text : AddLine(a, e) \in Text
    PROVE  FoldLeft(AddLine, first, s) = FoldOf([a \in Text |-> [e \in Text |-> AddLine(a, e)]], first, s)
<1> DEFINE step == [a \in Text |-> [e \in Text |-> AddLine(a, e)]]
           base == first
           c == CHOOSE it : IsJoined(s, it, first)
<1>1. step \in [Text -> [Text -> Text]]
  OBVIOUS
<1>2. \A a \in Text, e \in Text : step[a][e] = AddLine(a, e)
  OBVIOUS
<1>3. Len(s) \in Nat /\ DOMAIN s = 1..Len(s) /\ \A i \in 1..Len(s) : s[i] \in Text
  BY LenProperties, ElementOfSeq
<1>0. base \in Text
  OBVIOUS
<1> HIDE DEF step, base
<1>4. PICK it \in [SUBSET DOMAIN s -> Text] : IsIter(step, base, s, it)
  BY <1>0, <1>1, FoldIter
<1>5. IsJoined(s, it, first)
  <2>1. ASSUME NEW t \in SUBSET DOMAIN s, t # {}
        PROVE  step[it[t \ {Max(t)}]][s[Max(t)]] = AddLine(it[t \ {Max(t)}], s[Max(t)])
    <3>1. Max(t) \in 1..Len(s) /\ t \ {Max(t)} \in SUBSET DOMAIN s
      BY <1>3, <2>1, MaxOfPlaces
    <3>2. it[t \ {Max(t)}] \in Text /\ s[Max(t)] \in Text
      BY <1>3, <3>1
    <3> QED
      BY <1>2, <3>2
  <2> QED
    BY <1>4, <2>1 DEF IsIter, IsJoined, base
<1>6. IsJoined(s, c, first)
  BY <1>5
<1> HIDE DEF c
<1>7. c[{}] = base
  BY <1>6 DEF IsJoined, base
<1>8. ASSUME NEW k \in 1..Len(s), c[1..(k - 1)] \in Text
      PROVE  c[1..k] = step[c[1..(k - 1)]][s[k]]
  <2>1. Max(1..k) = k /\ (1..k) \ {k} = 1..(k - 1) /\ 1..k \in SUBSET DOMAIN s /\ 1..k # {}
    BY <1>3, MaxOfPlaces
  <2>2. c[1..k] = AddLine(c[1..(k - 1)], s[k])
    BY <1>6, <2>1 DEF IsJoined
  <2>3. s[k] \in Text
    BY <1>3
  <2> QED
    BY <1>2, <1>8, <2>2, <2>3
<1>9. TakesSteps(step, base, s, Text, c)
  BY <1>7, <1>8 DEF TakesSteps
<1>a. Stepper(step, base, Text, Text)
  BY <1>0, <1>1 DEF Stepper
<1>10. c[DOMAIN s] = FoldOf(step, base, s) /\ c[DOMAIN s] \in Text
  BY <1>a, <1>9, FoldMatch
<1> QED
  BY <1>10, JoinedUnfolds DEF c, step, base

\* What is kept is the characters of a set.
LEMMA KeptIsSel ==
    ASSUME NEW s \in Text
    PROVE  Filtered(s, InBody) = Sel(Chars, {c \in Chars : InBody(c)}, s)
<1> DEFINE B == {c \in Chars : InBody(c)}
<1>1. \A a \in Text, e \in Chars : BodyStep(a, e) = (IF e \in B THEN Append(a, e) ELSE a)
  BY DEF BodyStep
<1>2. [a \in Text |-> [e \in Chars |-> BodyStep(a, e)]] = Picks(Chars, B)
  <2>1. [a \in Text |-> [e \in Chars |-> BodyStep(a, e)]]
          = [a \in Text |-> [e \in Chars |-> IF e \in B THEN Append(a, e) ELSE a]]
    <3>1. \A a \in Text : [e \in Chars |-> BodyStep(a, e)] = [e \in Chars |-> IF e \in B THEN Append(a, e) ELSE a]
      BY <1>1, Zenon
    <3> QED
      BY <3>1, Zenon
  <2> QED
    BY <2>1, Zenon DEF Picks, Text
<1>3. \A a \in Text, e \in Chars : BodyStep(a, e) \in Text
  BY <1>1, AppendProperties, SMTT(30) DEF Text
<1>4. <<>> \in Text /\ s \in Seq(Chars)
  BY EmptySeq DEF Text
<1>5. Filtered(s, InBody) = FoldOf([a \in Text |-> [e \in Chars |-> BodyStep(a, e)]], <<>>, s)
  BY <1>3, <1>4, KeptBodyIsFold
<1> HIDE DEF B
<1> QED
  BY <1>2, <1>5, Zenon DEF Sel, B

\* Lines joined: the first, and each other after a newline.
JoinedFrom(first, s) == FoldLeft(AddLine, first, s)

\* Lines joined to a first one, line by line.
LEMMA JoinedFromLaws ==
    ASSUME NEW first \in Text
    PROVE  /\ JoinedFrom(first, <<>>) = first
           /\ \A s \in Seq(Text) : JoinedFrom(first, s) \in Text
           /\ \A s \in Seq(Text), x \in Text :
                 JoinedFrom(first, Append(s, x)) = JoinedFrom(first, s) \o <<Newline>> \o x
<1> DEFINE step == [a \in Text |-> [e \in Text |-> AddLine(a, e)]]
<1>1. \A a, e \in Text : AddLine(a, e) \in Text
  BY NewlineIs, ConcatProperties DEF AddLine, Text
<1>2. step \in [Text -> [Text -> Text]] /\ \A a, e \in Text : step[a][e] = AddLine(a, e)
  BY <1>1
<1>3. \A s \in Seq(Text) : JoinedFrom(first, s) = FoldOf(step, first, s)
  BY <1>1, JoinedIsFold DEF JoinedFrom
<1>4. <<>> \in Seq(Text) /\ \A s \in Seq(Text), x \in Text : Append(s, x) \in Seq(Text)
  BY EmptySeq, AppendProperties
<1> HIDE DEF step
<1>5. FoldFollows(step, first, Text, Text)
  <2>1. Stepper(step, first, Text, Text)
    BY <1>2 DEF Stepper
  <2> QED
    BY <2>1, FoldLaws
<1>6. ASSUME NEW s \in Seq(Text), NEW x \in Text
      PROVE  JoinedFrom(first, Append(s, x)) = JoinedFrom(first, s) \o <<Newline>> \o x
  <2>1. JoinedFrom(first, Append(s, x)) = step[FoldOf(step, first, s)][x]
    BY <1>3, <1>4, <1>5 DEF FoldFollows
  <2>2. step[JoinedFrom(first, s)][x] = AddLine(JoinedFrom(first, s), x)
    BY <1>2, <1>3, <1>5 DEF FoldFollows
  <2> QED
    BY <1>3, <2>1, <2>2 DEF AddLine
<1> QED
  BY <1>3, <1>4, <1>5, <1>6 DEF FoldFollows

\* Lines joined, line by line.
LEMMA JoinedLaws ==
    /\ \A x \in Text : Joined(<<x>>) = x
    /\ \A s \in Seq(Text) : s # <<>> => Joined(s) \in Text
    /\ \A s \in Seq(Text), x \in Text :
          s # <<>> => Joined(Append(s, x)) = Joined(s) \o <<Newline>> \o x
<1>1. \A s : Joined(s) = JoinedFrom(Head(s), Tail(s))
  BY DEF Joined, JoinedFrom, AddLine
<1>2. ASSUME NEW x \in Text
      PROVE  Joined(<<x>>) = x
  <2>1. Head(<<x>>) = x /\ Tail(<<x>>) = <<>>
    OBVIOUS
  <2> QED
    BY <1>1, <2>1, JoinedFromLaws
<1>3. ASSUME NEW s \in Seq(Text), s # <<>>
      PROVE  Head(s) \in Text /\ Tail(s) \in Seq(Text)
  BY <1>3, HeadTailProperties
<1>4. ASSUME NEW s \in Seq(Text), NEW x \in Text, s # <<>>
      PROVE  Joined(Append(s, x)) = Joined(s) \o <<Newline>> \o x
  <2>1. Head(Append(s, x)) = Head(s) /\ Tail(Append(s, x)) = Append(Tail(s), x)
    <3> DEFINE T == Text
    <3>1. s \in Seq(T) /\ x \in T
      OBVIOUS
    <3> HIDE DEF T
    <3> QED
      BY <1>4, <3>1
  <2>2. Joined(Append(s, x)) = JoinedFrom(Head(s), Append(Tail(s), x)) /\ Joined(s) = JoinedFrom(Head(s), Tail(s))
    BY <1>1, <2>1
  <2>3. Head(s) \in Text /\ Tail(s) \in Seq(Text)
    BY <1>3, <1>4
  <2> DEFINE h == Head(s)
             t == Tail(s)
  <2> HIDE DEF h, t
  <2>4. h \in Text /\ t \in Seq(Text)
    BY <2>3 DEF h, t
  <2>5. JoinedFrom(h, Append(t, x)) = JoinedFrom(h, t) \o <<Newline>> \o x
    BY <2>4, JoinedFromLaws
  <2> QED
    BY <2>2, <2>5 DEF h, t
<1> QED
  BY <1>1, <1>2, <1>3, <1>4, JoinedFromLaws

\* No half of a pair stands alone.
Whole(s) ==
    \A j \in 1..Len(s) :
        /\ s[j].kind = "high" => j < Len(s) /\ s[j + 1].kind = "low"
        /\ s[j].kind = "low" => j > 1 /\ s[j - 1].kind = "high"

\* The backticks are three of a line of their own.
Neat(s) ==
    \A j \in 1..Len(s) : s[j].kind = "tick" =>
        /\ s[j].column \in 1..3
        /\ s[j].column = 1 /\ j > 1 => s[j - 1] = Newline
        /\ s[j].column # 1 => j > 1 /\ s[j - 1].kind = "tick" /\ s[j - 1].column = s[j].column - 1
        /\ s[j].column = 3 /\ j < Len(s) => s[j + 1] = Newline
        /\ s[j].column # 3 => j < Len(s) /\ s[j + 1].kind = "tick" /\ s[j + 1].column = s[j].column + 1

\* A text that breaks neither a pair nor a fence line.
Sound(s) == Whole(s) /\ Neat(s)

\* The places of two texts with a newline between them.
LEMMA JointIs ==
    ASSUME NEW s \in Text, NEW t \in Text
    PROVE  /\ s \o <<Newline>> \o t \in Text /\ Len(s) \in Nat /\ Len(t) \in Nat
           /\ Len(s \o <<Newline>> \o t) = Len(s) + 1 + Len(t)
           /\ \A i \in 1..Len(s) : (s \o <<Newline>> \o t)[i] = s[i]
           /\ (s \o <<Newline>> \o t)[Len(s) + 1] = Newline
           /\ \A i \in 1..Len(t) : (s \o <<Newline>> \o t)[Len(s) + 1 + i] = t[i]
<1> DEFINE r == s \o <<Newline>>
<1>1. r \in Seq(Chars) /\ s \in Seq(Chars) /\ t \in Seq(Chars) /\ Len(s) \in Nat /\ Len(t) \in Nat
  BY NewlineIs, ConcatProperties, LenProperties DEF Text
<1>2. Len(r) = Len(s) + 1 /\ (\A i \in 1..Len(s) : r[i] = s[i]) /\ r[Len(s) + 1] = Newline
  BY NewlineIs, <1>1, ConcatProperties DEF Text
<1> HIDE DEF r
<1> DEFINE j == r \o t
<1>3. j \in Seq(Chars) /\ Len(j) = Len(r) + Len(t)
      /\ \A i \in 1..(Len(r) + Len(t)) : j[i] = IF i <= Len(r) THEN r[i] ELSE t[i - Len(r)]
  BY <1>1, ConcatProperties
<1> HIDE DEF j
<1>4. \A i \in 1..Len(s) : j[i] = s[i]
  BY <1>1, <1>2, <1>3
<1>5. j[Len(s) + 1] = Newline
  BY <1>1, <1>2, <1>3
<1>6. \A i \in 1..Len(t) : j[Len(s) + 1 + i] = t[i]
  BY <1>1, <1>2, <1>3
<1> QED
  BY <1>1, <1>2, <1>3, <1>4, <1>5, <1>6 DEF j, r, Text

\* Joined with a newline, two texts are sound exactly when each is.
LEMMA SoundJoint ==
    ASSUME NEW s \in Text, NEW t \in Text
    PROVE  Sound(s \o <<Newline>> \o t) <=> Sound(s) /\ Sound(t)
<1> DEFINE j == s \o <<Newline>> \o t
           n == Len(s)
           m == Len(t)
<1>1. /\ n \in Nat /\ m \in Nat /\ Len(j) = n + 1 + m
      /\ \A i \in 1..n : j[i] = s[i]
      /\ j[n + 1] = Newline
      /\ \A i \in 1..m : j[n + 1 + i] = t[i]
  BY JointIs
<1>2. Newline.kind = "newline"
  BY NewlineIs
<1> HIDE DEF j
<1>3. ASSUME Whole(j)
      PROVE  Whole(s)
  <2> SUFFICES ASSUME NEW i \in 1..n
               PROVE  /\ s[i].kind = "high" => i < n /\ s[i + 1].kind = "low"
                      /\ s[i].kind = "low" => i > 1 /\ s[i - 1].kind = "high"
    BY DEF Whole
  <2> HIDE DEF n, m
  <2>1. i \in 1..Len(j) /\ j[i] = s[i] /\ (i < n => j[i + 1] = s[i + 1]) /\ (i > 1 => j[i - 1] = s[i - 1])
        /\ (i = n => j[i + 1] = Newline)
    BY <1>1
  <2> QED
    BY <1>1, <1>2, <1>3, <2>1 DEF Whole
<1>4. ASSUME Whole(j)
      PROVE  Whole(t)
  <2> SUFFICES ASSUME NEW i \in 1..m
               PROVE  /\ t[i].kind = "high" => i < m /\ t[i + 1].kind = "low"
                      /\ t[i].kind = "low" => i > 1 /\ t[i - 1].kind = "high"
    BY DEF Whole
  <2> HIDE DEF n, m
  <2> DEFINE k == n + 1 + i
  <2>1. k \in 1..Len(j) /\ j[k] = t[i] /\ (i < m => k < Len(j) /\ j[k + 1] = t[i + 1]) /\ (i > 1 => j[k - 1] = t[i - 1])
        /\ (i = 1 => j[k - 1] = Newline) /\ (i = m => k = Len(j))
    BY <1>1
  <2> HIDE DEF k
  <2> QED
    BY <1>1, <1>2, <1>4, <2>1 DEF Whole
<1>5. ASSUME Whole(s), Whole(t)
      PROVE  Whole(j)
  <2> SUFFICES ASSUME NEW i \in 1..Len(j)
               PROVE  /\ j[i].kind = "high" => i < Len(j) /\ j[i + 1].kind = "low"
                      /\ j[i].kind = "low" => i > 1 /\ j[i - 1].kind = "high"
    BY DEF Whole
  <2>1. CASE i \in 1..n
    <3>1. /\ s[i].kind = "high" => i < n /\ s[i + 1].kind = "low"
          /\ s[i].kind = "low" => i > 1 /\ s[i - 1].kind = "high"
      BY <1>5, <2>1 DEF Whole
    <3> HIDE DEF n, m
    <3> QED
      BY <1>1, <2>1, <3>1
  <2>2. CASE i = n + 1
    BY <1>1, <1>2, <2>2
  <2>3. CASE i > n + 1
    <3> DEFINE k == i - (n + 1)
    <3>1. k \in 1..m /\ i = n + 1 + k
      BY <1>1, <2>3
    <3>2. /\ t[k].kind = "high" => k < m /\ t[k + 1].kind = "low"
          /\ t[k].kind = "low" => k > 1 /\ t[k - 1].kind = "high"
      BY <1>5, <3>1 DEF Whole
    <3> HIDE DEF n, m, k
    <3>3. j[i] = t[k] /\ (k < m => j[i + 1] = t[k + 1] /\ i < Len(j)) /\ (k > 1 => j[i - 1] = t[k - 1] /\ i > 1)
      BY <1>1, <3>1
    <3> QED
      BY <3>2, <3>3
  <2> HIDE DEF n, m
  <2> QED
    BY <1>1, <2>1, <2>2, <2>3
<1>6. ASSUME Neat(j)
      PROVE  Neat(s)
  <2> SUFFICES ASSUME NEW i \in 1..n, s[i].kind = "tick"
               PROVE  /\ s[i].column \in 1..3
                      /\ s[i].column = 1 /\ i > 1 => s[i - 1] = Newline
                      /\ s[i].column # 1 => i > 1 /\ s[i - 1].kind = "tick" /\ s[i - 1].column = s[i].column - 1
                      /\ s[i].column = 3 /\ i < n => s[i + 1] = Newline
                      /\ s[i].column # 3 => i < n /\ s[i + 1].kind = "tick" /\ s[i + 1].column = s[i].column + 1
    BY DEF Neat
  <2> HIDE DEF n, m
  <2>1. i \in 1..Len(j) /\ i < Len(j) /\ j[i] = s[i] /\ (i < n => j[i + 1] = s[i + 1]) /\ (i > 1 => j[i - 1] = s[i - 1])
        /\ (i = n => j[i + 1] = Newline)
    BY <1>1
  <2>2. /\ j[i].column \in 1..3
        /\ j[i].column = 1 /\ i > 1 => j[i - 1] = Newline
        /\ j[i].column # 1 => i > 1 /\ j[i - 1].kind = "tick" /\ j[i - 1].column = j[i].column - 1
        /\ j[i].column = 3 /\ i < Len(j) => j[i + 1] = Newline
        /\ j[i].column # 3 => i < Len(j) /\ j[i + 1].kind = "tick" /\ j[i + 1].column = j[i].column + 1
    BY <1>6, <2>1 DEF Neat
  <2>3. i < n \/ i = n
    BY <1>1
  <2> QED
    BY <1>2, <2>1, <2>2, <2>3
<1>7. ASSUME Neat(j)
      PROVE  Neat(t)
  <2> SUFFICES ASSUME NEW i \in 1..m, t[i].kind = "tick"
               PROVE  /\ t[i].column \in 1..3
                      /\ t[i].column = 1 /\ i > 1 => t[i - 1] = Newline
                      /\ t[i].column # 1 => i > 1 /\ t[i - 1].kind = "tick" /\ t[i - 1].column = t[i].column - 1
                      /\ t[i].column = 3 /\ i < m => t[i + 1] = Newline
                      /\ t[i].column # 3 => i < m /\ t[i + 1].kind = "tick" /\ t[i + 1].column = t[i].column + 1
    BY DEF Neat
  <2> HIDE DEF n, m
  <2> DEFINE k == n + 1 + i
  <2>a. k \in 1..Len(j) /\ k > 1 /\ j[k] = t[i] /\ (i = m => ~(k < Len(j))) /\ (i < m => k < Len(j))
    BY <1>1
  <2>b. (i < m => j[k + 1] = t[i + 1]) /\ (i > 1 => j[k - 1] = t[i - 1]) /\ (i = 1 => j[k - 1] = Newline)
    BY <1>1
  <2>1. k \in 1..Len(j) /\ k > 1 /\ j[k] = t[i] /\ (i < m => k < Len(j) /\ j[k + 1] = t[i + 1]) /\ (i > 1 => j[k - 1] = t[i - 1])
        /\ (i = 1 => j[k - 1] = Newline) /\ (i = m => ~(k < Len(j)))
    BY <2>a, <2>b
  <2> HIDE DEF k
  <2>2. /\ j[k].column \in 1..3
        /\ j[k].column = 1 /\ k > 1 => j[k - 1] = Newline
        /\ j[k].column # 1 => k > 1 /\ j[k - 1].kind = "tick" /\ j[k - 1].column = j[k].column - 1
        /\ j[k].column = 3 /\ k < Len(j) => j[k + 1] = Newline
        /\ j[k].column # 3 => k < Len(j) /\ j[k + 1].kind = "tick" /\ j[k + 1].column = j[k].column + 1
    BY <1>7, <2>1 DEF Neat
  <2>3. (i < m \/ i = m) /\ (i > 1 \/ i = 1)
    BY <1>1
  <2> QED
    BY <1>2, <2>1, <2>2, <2>3
<1>8. ASSUME Neat(s), Neat(t)
      PROVE  Neat(j)
  <2> SUFFICES ASSUME NEW i \in 1..Len(j), j[i].kind = "tick"
               PROVE  /\ j[i].column \in 1..3
                      /\ j[i].column = 1 /\ i > 1 => j[i - 1] = Newline
                      /\ j[i].column # 1 => i > 1 /\ j[i - 1].kind = "tick" /\ j[i - 1].column = j[i].column - 1
                      /\ j[i].column = 3 /\ i < Len(j) => j[i + 1] = Newline
                      /\ j[i].column # 3 => i < Len(j) /\ j[i + 1].kind = "tick" /\ j[i + 1].column = j[i].column + 1
    BY DEF Neat
  <2>1. CASE i \in 1..n
    <3>1. j[i] = s[i] /\ s[i].kind = "tick" /\ i < Len(j) /\ (i < n => j[i + 1] = s[i + 1])
          /\ (i > 1 => j[i - 1] = s[i - 1]) /\ (i = n => j[i + 1] = Newline) /\ (i < n \/ i = n)
      BY <1>1, <2>1
    <3>2. /\ s[i].column \in 1..3
          /\ s[i].column = 1 /\ i > 1 => s[i - 1] = Newline
          /\ s[i].column # 1 => i > 1 /\ s[i - 1].kind = "tick" /\ s[i - 1].column = s[i].column - 1
          /\ s[i].column = 3 /\ i < n => s[i + 1] = Newline
          /\ s[i].column # 3 => i < n /\ s[i + 1].kind = "tick" /\ s[i + 1].column = s[i].column + 1
      BY <1>8, <2>1, <3>1 DEF Neat
    <3> HIDE DEF n, m
    <3> QED
      BY <3>1, <3>2
  <2>2. CASE i = n + 1
    BY <1>1, <1>2, <2>2
  <2>3. CASE i > n + 1
    <3> DEFINE k == i - (n + 1)
    <3>1. k \in 1..m /\ i = n + 1 + k
      BY <1>1, <2>3
    <3> HIDE DEF k
    <3>a. j[i] = t[k] /\ i > 1 /\ (k < m => i < Len(j)) /\ (k = m => ~(i < Len(j))) /\ (k < m \/ k = m) /\ (k > 1 \/ k = 1)
      <4> HIDE DEF n, m
      <4> QED
        BY <1>1, <3>1
    <3>b. (k < m => j[i + 1] = t[k + 1]) /\ (k > 1 => j[i - 1] = t[k - 1]) /\ (k = 1 => j[i - 1] = Newline)
      <4> HIDE DEF n, m
      <4> QED
        BY <1>1, <3>1
    <3>2. j[i] = t[k] /\ t[k].kind = "tick" /\ (k < m => j[i + 1] = t[k + 1] /\ i < Len(j))
          /\ (k > 1 => j[i - 1] = t[k - 1]) /\ i > 1 /\ (k = 1 => j[i - 1] = Newline)
          /\ (k = m => ~(i < Len(j))) /\ (k < m \/ k = m) /\ (k > 1 \/ k = 1)
      BY <3>a, <3>b
    <3>3. /\ t[k].column \in 1..3
          /\ t[k].column = 1 /\ k > 1 => t[k - 1] = Newline
          /\ t[k].column # 1 => k > 1 /\ t[k - 1].kind = "tick" /\ t[k - 1].column = t[k].column - 1
          /\ t[k].column = 3 /\ k < m => t[k + 1] = Newline
          /\ t[k].column # 3 => k < m /\ t[k + 1].kind = "tick" /\ t[k + 1].column = t[k].column + 1
      BY <1>8, <3>1, <3>2 DEF Neat
    <3> HIDE DEF n, m
    <3> QED
      BY <3>2, <3>3
  <2> HIDE DEF n, m
  <2> QED
    BY <1>1, <2>1, <2>2, <2>3
<1> QED
  BY <1>3, <1>4, <1>5, <1>6, <1>7, <1>8 DEF Sound, j

-----------------------------------------------------------------------------
(***************************************************************************)
(* The lines of a text.                                                    *)
(***************************************************************************)
\* The lines so far, the last of them open.
SomeLines == Seq(Text) \ {<<>>}

\* A newline opens a line, any other character is one more of the last.
LineStep(lines, c) ==
    IF c = Newline THEN Append(lines, <<>>) ELSE [lines EXCEPT ![Len(lines)] = Append(@, c)]

\* it is the function that the fold applies to the places of s.
IsLines(s, it) ==
    it = [t \in SUBSET DOMAIN s |->
            IF t = {} THEN << <<>> >> ELSE LineStep(it[t \ {Max(t)}], s[Max(t)])]

\* The fold, opened once.
LEMMA LinesUnfolds == \A s : LinesOf(s) = (CHOOSE it : IsLines(s, it))[DOMAIN s]
BY DEF IsLines, LinesOf, FoldLeft, MapThenFoldSet, LineStep

\* It is a fold whose step is a function.
LEMMA LinesIsFold ==
    ASSUME NEW s \in Seq(Chars), << <<>> >> \in SomeLines,
           \A a \in SomeLines, e \in Chars : LineStep(a, e) \in SomeLines
    PROVE  LinesOf(s) = FoldOf([a \in SomeLines |-> [e \in Chars |-> LineStep(a, e)]], << <<>> >>, s)
<1> DEFINE step == [a \in SomeLines |-> [e \in Chars |-> LineStep(a, e)]]
           base == << <<>> >>
           c == CHOOSE it : IsLines(s, it)
<1>1. step \in [SomeLines -> [Chars -> SomeLines]]
  OBVIOUS
<1>2. \A a \in SomeLines, e \in Chars : step[a][e] = LineStep(a, e)
  OBVIOUS
<1>3. Len(s) \in Nat /\ DOMAIN s = 1..Len(s) /\ \A i \in 1..Len(s) : s[i] \in Chars
  BY LenProperties, ElementOfSeq
<1>0. base \in SomeLines
  OBVIOUS
<1> HIDE DEF step, base
<1>4. PICK it \in [SUBSET DOMAIN s -> SomeLines] : IsIter(step, base, s, it)
  BY <1>0, <1>1, FoldIter
<1>5. IsLines(s, it)
  <2>1. ASSUME NEW t \in SUBSET DOMAIN s, t # {}
        PROVE  step[it[t \ {Max(t)}]][s[Max(t)]] = LineStep(it[t \ {Max(t)}], s[Max(t)])
    <3>1. Max(t) \in 1..Len(s) /\ t \ {Max(t)} \in SUBSET DOMAIN s
      BY <1>3, <2>1, MaxOfPlaces
    <3>2. it[t \ {Max(t)}] \in SomeLines /\ s[Max(t)] \in Chars
      BY <1>3, <3>1
    <3> QED
      BY <1>2, <3>2
  <2> QED
    BY <1>4, <2>1 DEF IsIter, IsLines, base
<1>6. IsLines(s, c)
  BY <1>5
<1> HIDE DEF c
<1>7. c[{}] = base
  BY <1>6 DEF IsLines, base
<1>8. ASSUME NEW k \in 1..Len(s), c[1..(k - 1)] \in SomeLines
      PROVE  c[1..k] = step[c[1..(k - 1)]][s[k]]
  <2>1. Max(1..k) = k /\ (1..k) \ {k} = 1..(k - 1) /\ 1..k \in SUBSET DOMAIN s /\ 1..k # {}
    BY <1>3, MaxOfPlaces
  <2>2. c[1..k] = LineStep(c[1..(k - 1)], s[k])
    BY <1>6, <2>1 DEF IsLines
  <2>3. s[k] \in Chars
    BY <1>3
  <2> QED
    BY <1>2, <1>8, <2>2, <2>3
<1>9. TakesSteps(step, base, s, SomeLines, c)
  BY <1>7, <1>8 DEF TakesSteps
<1>a. Stepper(step, base, SomeLines, Chars)
  BY <1>0, <1>1 DEF Stepper
<1>10. c[DOMAIN s] = FoldOf(step, base, s) /\ c[DOMAIN s] \in SomeLines
  BY <1>a, <1>9, FoldMatch
<1> QED
  BY <1>10, LinesUnfolds DEF c, step, base

\* Lines have a last one; the last one changed.
LEMMA LastOfLines ==
    ASSUME NEW L \in SomeLines
    PROVE  \E F \in Seq(Text), l \in Text :
              /\ L = Append(F, l) /\ L[Len(L)] = l
              /\ \A y \in Text : [L EXCEPT ![Len(L)] = y] = Append(F, y)
<1> DEFINE T == Text
<1>1. L \in Seq(T) /\ L # <<>>
  BY DEF SomeLines
<1> SUFFICES \E F \in Seq(T), l \in T :
              /\ L = Append(F, l) /\ L[Len(L)] = l
              /\ \A y \in T : [L EXCEPT ![Len(L)] = y] = Append(F, y)
  OBVIOUS
<1> HIDE DEF T
<1> DEFINE n == Len(L)
           F == SubSeq(L, 1, n - 1)
           l == L[n]
<1>2. n \in Nat /\ n > 0 /\ l \in T /\ L \in [1..n -> T]
  BY <1>1, LenProperties, EmptySeq
<1>3. F \in Seq(T) /\ Len(F) = n - 1 /\ \A i \in 1..(n - 1) : F[i] = L[i]
  BY <1>1, <1>2, PartIs
<1> HIDE DEF F, l
<1> HIDE DEF n
<1>a. \A i \in 1..n : i # n => i \in 1..(n - 1)
  BY <1>2
<1>5. ASSUME NEW y \in T
      PROVE  [L EXCEPT ![n] = y] = Append(F, y)
  <2> DEFINE u == [L EXCEPT ![n] = y]
             v == Append(F, y)
  <2>1. u \in [1..n -> T] /\ u[n] = y /\ \A i \in 1..n : i # n => u[i] = L[i]
    BY <1>2
  <2>2. u \in Seq(T) /\ Len(u) = n
    BY <1>2, <2>1, SeqDef, LenProperties
  <2>3. v \in Seq(T) /\ Len(v) = n /\ v[n] = y /\ \A i \in 1..(n - 1) : v[i] = F[i]
    BY <1>2, <1>3, AppendProperties
  <2> HIDE DEF u, v
  <2>4. \A i \in 1..n : u[i] = v[i]
    BY <1>3, <1>a, <2>1, <2>3
  <2> QED
    BY <2>2, <2>3, <2>4, SeqEqual DEF u, v
<1>6. L = Append(F, l)
  <2>1. [L EXCEPT ![n] = l] = L
    BY <1>2 DEF l
  <2> QED
    BY <1>2, <1>5, <2>1
<1>7. L = Append(F, l) /\ L[n] = l /\ l \in T /\ F \in Seq(T)
  BY <1>2, <1>3, <1>6 DEF l
<1> QED
  BY <1>5, <1>7 DEF n

\* There is always a last line.
LEMMA LineStepTyped ==
    /\ << <<>> >> \in SomeLines
    /\ \A a \in SomeLines, e \in Chars : LineStep(a, e) \in SomeLines
<1>1. << <<>> >> \in SomeLines
  <2>1. <<>> \in Text
    BY EmptySeq DEF Text
  <2>2. \A x \in Text : <<x>> \in Seq(Text) /\ <<x>> # <<>>
    OBVIOUS
  <2> QED
    BY <2>1, <2>2 DEF SomeLines
<1>2. ASSUME NEW a \in SomeLines, NEW e \in Chars
      PROVE  LineStep(a, e) \in SomeLines
  <2>1. PICK F \in Seq(Text), l \in Text : a = Append(F, l) /\ a[Len(a)] = l
                  /\ \A y \in Text : [a EXCEPT ![Len(a)] = y] = Append(F, y)
    BY LastOfLines
  <2>2. \A G \in Seq(Text), x \in Text : Append(G, x) \in SomeLines
    <3> TAKE G \in Seq(Text), x \in Text
    <3> DEFINE T == Text
    <3>1. G \in Seq(T) /\ x \in T
      OBVIOUS
    <3> HIDE DEF T
    <3>2. Append(G, x) \in Seq(T) /\ Append(G, x) # <<>>
      BY <3>1, AppendProperties
    <3> QED
      BY <3>2 DEF T, SomeLines
  <2>3. <<>> \in Text /\ Append(l, e) \in Text
    BY EmptySeq, AppendProperties DEF Text
  <2>4. LineStep(a, e) = IF e = Newline THEN Append(a, <<>>) ELSE Append(F, Append(l, e))
    BY <2>1, <2>3 DEF LineStep
  <2> QED
    BY <2>1, <2>2, <2>3, <2>4 DEF SomeLines
<1> QED
  BY <1>1, <1>2

\* The lines of a text, character by character.
LEMMA LinesOfLaws ==
    /\ LinesOf(<<>>) = << <<>> >>
    /\ \A s \in Text : LinesOf(s) \in SomeLines
    /\ \A s \in Text, c \in Chars : LinesOf(Append(s, c)) = LineStep(LinesOf(s), c)
<1> DEFINE step == [a \in SomeLines |-> [e \in Chars |-> LineStep(a, e)]]
           base == << <<>> >>
<1>1. base \in SomeLines /\ step \in [SomeLines -> [Chars -> SomeLines]]
      /\ \A a \in SomeLines, e \in Chars : step[a][e] = LineStep(a, e)
  BY LineStepTyped
<1>2. ASSUME NEW s \in Seq(Chars)
      PROVE  LinesOf(s) = FoldOf(step, base, s)
  BY LineStepTyped, LinesIsFold
<1> HIDE DEF step, base
<1>3. FoldFollows(step, base, SomeLines, Chars)
  <2>1. Stepper(step, base, SomeLines, Chars)
    BY <1>1 DEF Stepper
  <2> QED
    BY <2>1, FoldLaws
<1>4. <<>> \in Text /\ \A s \in Text, c \in Chars : Append(s, c) \in Text
  BY EmptySeq, AppendProperties DEF Text
<1>5. \A s \in Text : LinesOf(s) = FoldOf(step, base, s)
  BY <1>2 DEF Text
<1>6. LinesOf(<<>>) = << <<>> >>
  BY <1>3, <1>4, <1>5 DEF FoldFollows, base
<1>7. \A s \in Text : LinesOf(s) \in SomeLines
  BY <1>3, <1>5 DEF FoldFollows, Text
<1>8. ASSUME NEW s \in Text, NEW c \in Chars
      PROVE  LinesOf(Append(s, c)) = LineStep(LinesOf(s), c)
  <2>1. FoldOf(step, base, Append(s, c)) = step[FoldOf(step, base, s)][c]
    BY <1>3 DEF FoldFollows, Text
  <2> QED
    BY <1>1, <1>4, <1>5, <1>7, <2>1
<1> QED
  BY <1>6, <1>7, <1>8

\* The characters of S, and lines of them, without a newline.
NoNewline(x) == \A i \in 1..Len(x) : x[i] # Newline

\* L are the lines of s.
CutOf(S, L, s) == L \in Seq(Seq(S)) /\ L # <<>> /\ Joined(L) = s /\ \A j \in 1..Len(L) : NoNewline(L[j])

\* Texts of some of the characters are texts.
LEMMA TextOf ==
    ASSUME NEW S \in SUBSET Chars
    PROVE  Seq(S) \in SUBSET Text /\ Seq(Seq(S)) \in SUBSET Seq(Text)
<1>1. Seq(S) \in SUBSET Text
  BY DEF Text
<1>2. \A A, B : A \in SUBSET B => Seq(A) \in SUBSET Seq(B)
  OBVIOUS
<1> QED
  BY <1>1, <1>2

\* What LinesOf yields, joined, is the text again.
LEMMA LinesJoin ==
    ASSUME NEW S \in SUBSET Chars, NEW s \in Seq(S)
    PROVE  CutOf(S, LinesOf(s), s)
<1> DEFINE G == {u \in Seq(S) : CutOf(S, LinesOf(u), u)}
<1>0. Seq(S) \in SUBSET Text /\ Seq(Seq(S)) \in SUBSET Seq(Text)
  BY TextOf
<1>1. <<>> \in G
  <2>1. <<>> \in Seq(S)
    BY EmptySeq
  <2>2. << <<>> >> \in Seq(Seq(S)) /\ << <<>> >> # <<>> /\ Len(<< <<>> >>) = 1 /\ << <<>> >>[1] = <<>>
    <3>1. \A x \in Seq(S) : <<x>> \in Seq(Seq(S)) /\ <<x>> # <<>> /\ Len(<<x>>) = 1 /\ <<x>>[1] = x
      OBVIOUS
    <3> QED
      BY <2>1, <3>1
  <2>3. Joined(<< <<>> >>) = <<>>
    BY <1>0, <2>1, JoinedLaws
  <2>4. NoNewline(<<>>)
    BY DEF NoNewline
  <2> DEFINE b == << <<>> >>
  <2>5. LinesOf(<<>>) = b /\ b \in Seq(Seq(S)) /\ b # <<>> /\ Joined(b) = <<>> /\ Len(b) = 1 /\ b[1] = <<>>
    BY <2>2, <2>3, LinesOfLaws
  <2> HIDE DEF b
  <2>6. \A j \in 1..Len(b) : NoNewline(b[j])
    BY <2>4, <2>5
  <2> DEFINE e == <<>>
  <2>7. CutOf(S, b, e) /\ e \in Seq(S) /\ LinesOf(e) = b
    BY <2>1, <2>5, <2>6 DEF CutOf
  <2> HIDE DEF e
  <2>8. e \in G
    BY <2>7
  <2> QED
    BY <2>8 DEF e
<1>2. ASSUME NEW u \in G, NEW c \in S
      PROVE  Append(u, c) \in G
  <2>1. u \in Seq(S) /\ u \in Text /\ c \in Chars /\ Append(u, c) \in Seq(S)
    BY <1>0, AppendProperties
  <2> DEFINE L == LinesOf(u)
             M == LinesOf(Append(u, c))
  <2>2. M = LineStep(L, c) /\ L \in SomeLines
    BY <2>1, LinesOfLaws
  <2>3. L \in Seq(Seq(S)) /\ Joined(L) = u /\ \A j \in 1..Len(L) : NoNewline(L[j])
    BY DEF CutOf
  <2> HIDE DEF L, M, G
  <2>4. PICK F \in Seq(Text), l \in Text : L = Append(F, l) /\ L[Len(L)] = l
                  /\ \A y \in Text : [L EXCEPT ![Len(L)] = y] = Append(F, y)
    BY <2>2, LastOfLines
  <2>5. Len(L) = Len(F) + 1 /\ Len(F) \in Nat /\ \A j \in 1..Len(F) : L[j] = F[j]
    BY <2>4, AppendProperties, LenProperties
  <2>6. l \in Seq(S) /\ NoNewline(l)
    <3>1. Len(L) \in 1..Len(L)
      BY <2>5
    <3> QED
      BY <2>3, <2>4, <3>1, ElementOfSeq
  <2>7. \A j \in 1..Len(F) : F[j] \in Seq(S) /\ NoNewline(F[j])
    <3> TAKE j \in 1..Len(F)
    <3>1. j \in 1..Len(L)
      BY <2>5
    <3> QED
      BY <2>3, <2>5, <3>1, ElementOfSeq
  <2>8. F \in Seq(Seq(S))
    <3>1. F \in [1..Len(F) -> Text]
      BY <2>4, LenProperties
    <3>2. F \in [1..Len(F) -> Seq(S)]
      BY <2>7, <3>1
    <3> QED
      BY <2>5, <3>2, SeqDef
  <2>9. ASSUME NEW A \in Seq(Seq(S)), NEW y \in Seq(S), NoNewline(y), \A j \in 1..Len(A) : NoNewline(A[j])
        PROVE  /\ Append(A, y) \in Seq(Seq(S)) /\ Append(A, y) # <<>>
               /\ \A j \in 1..Len(Append(A, y)) : NoNewline(Append(A, y)[j])
    <3> DEFINE T == Seq(S)
    <3>1. A \in Seq(T) /\ y \in T
      OBVIOUS
    <3> HIDE DEF T
    <3> DEFINE B == Append(A, y)
    <3>2. B \in Seq(T) /\ B # <<>> /\ Len(B) = Len(A) + 1 /\ B[Len(A) + 1] = y
          /\ (\A j \in 1..Len(A) : B[j] = A[j]) /\ Len(A) \in Nat
      BY <3>1, AppendIs
    <3>3. \A j \in 1..Len(B) : j = Len(A) + 1 \/ j \in 1..Len(A)
      BY <3>1, AppendIs
    <3> HIDE DEF B
    <3> QED
      BY <2>9, <3>2, <3>3 DEF B, T
  <2>10. CASE c = Newline
    <3>1. M = Append(L, <<>>)
      BY <2>2, <2>10 DEF LineStep
    <3>2. <<>> \in Seq(S) /\ <<>> \in Text /\ NoNewline(<<>>)
      BY EmptySeq DEF NoNewline, Text
    <3>3. Joined(M) = Joined(L) \o <<Newline>> \o <<>>
      BY <2>2, <3>1, <3>2, JoinedLaws DEF SomeLines
    <3>4. u \o <<Newline>> \o <<>> = Append(u, Newline)
      <4>1. u \in Seq(Chars) /\ Newline \in Chars
        BY <2>1, NewlineIs DEF Text
      <4> QED
        BY <4>1
    <3>5. Joined(M) = Append(u, c)
      BY <2>3, <2>10, <3>3, <3>4
    <3>6. M \in Seq(Seq(S)) /\ M # <<>> /\ \A j \in 1..Len(M) : NoNewline(M[j])
      BY <2>3, <2>9, <3>1, <3>2
    <3> QED
      BY <2>1, <3>5, <3>6 DEF CutOf, G, M
  <2>11. CASE c # Newline
    <3> DEFINE k == Append(l, c)
    <3>1. k \in Text /\ k \in Seq(S) /\ NoNewline(k)
      <4>1. l \in Seq(S) /\ Len(l) \in Nat
        BY <2>6, LenProperties
      <4>2. k \in Seq(S) /\ Len(k) = Len(l) + 1 /\ k[Len(l) + 1] = c /\ \A j \in 1..Len(l) : k[j] = l[j]
        BY <2>1, <4>1, AppendProperties
      <4> HIDE DEF k
      <4>3. \A j \in 1..Len(k) : j = Len(l) + 1 \/ j \in 1..Len(l)
        BY <4>1, <4>2
      <4>4. NoNewline(k)
        BY <2>6, <2>11, <4>2, <4>3 DEF NoNewline
      <4> QED
        BY <1>0, <4>2, <4>4
    <3>2. M = Append(F, k)
      BY <2>2, <2>4, <2>11, <3>1 DEF LineStep
    <3>3. Joined(M) = Append(u, c)
      <4>1. CASE F = <<>>
        <5>1. L = <<l>> /\ M = <<k>>
          BY <2>4, <3>2, <4>1
        <5>2. Joined(L) = l /\ Joined(M) = k
          BY <2>4, <3>1, <5>1, JoinedLaws
        <5> QED
          BY <2>3, <5>2
      <4>2. CASE F # <<>>
        <5> DEFINE f == Joined(F)
        <5>1. f \in Text
          BY <2>4, <4>2, JoinedLaws
        <5>2. Joined(L) = f \o <<Newline>> \o l /\ Joined(M) = f \o <<Newline>> \o k
          BY <2>4, <3>1, <3>2, <4>2, JoinedLaws
        <5> HIDE DEF f
        <5>3. f \o <<Newline>> \o Append(l, c) = Append(f \o <<Newline>> \o l, c)
          <6>1. f \in Seq(Chars) /\ Newline \in Chars /\ l \in Seq(Chars) /\ c \in Chars
            BY <2>1, <2>4, <5>1, NewlineIs DEF Text
          <6> QED
            BY <6>1
        <5> QED
          BY <2>3, <5>2, <5>3
      <4> QED
        BY <4>1, <4>2
    <3>4. M \in Seq(Seq(S)) /\ M # <<>> /\ \A j \in 1..Len(M) : NoNewline(M[j])
      <4> HIDE DEF k
      <4> QED
        BY <2>7, <2>8, <2>9, <3>1, <3>2
    <3> QED
      BY <2>1, <3>3, <3>4 DEF CutOf, G, M
  <2> QED
    BY <2>10, <2>11
<1>3. G \in SUBSET Seq(S)
  OBVIOUS
<1> HIDE DEF G
<1>4. G = Seq(S)
  BY <1>1, <1>2, <1>3, SeqSetInduction
<1> QED
  BY <1>4 DEF G

-----------------------------------------------------------------------------
(***************************************************************************)
(* Trimming.                                                               *)
(***************************************************************************)
\* The first and the last of some places.
LEMMA EndsOfPlaces ==
    ASSUME NEW n \in Nat, NEW t \in SUBSET (1..n), t # {}
    PROVE  /\ Max(t) \in t /\ \A i \in t : i <= Max(t)
           /\ Min(t) \in t /\ \A i \in t : Min(t) <= i
<1>1. Max(t) \in t /\ \A i \in t : i <= Max(t)
  BY MaxOfPlaces
<1>2. \E x \in t : \A y \in t : x <= y
  <2> DEFINE flip == {i \in 1..(n + 1) : n + 1 - i \in t}
  <2>1. flip \in SUBSET (1..(n + 1)) /\ flip # {}
    <3>1. PICK x \in t : TRUE
      OBVIOUS
    <3>2. n + 1 - x \in 1..(n + 1) /\ n + 1 - (n + 1 - x) = x
      OBVIOUS
    <3> QED
      BY <3>1, <3>2
  <2>2. Max(flip) \in flip /\ \A i \in flip : i <= Max(flip)
    <3> HIDE DEF flip
    <3>1. n + 1 \in Nat
      OBVIOUS
    <3> DEFINE k == n + 1
    <3>2. k \in Nat /\ flip \in SUBSET (1..k) /\ flip # {}
      BY <2>1, <3>1
    <3> HIDE DEF k
    <3> QED
      BY <3>2, MaxOfPlaces
  <2> DEFINE m == n + 1 - Max(flip)
  <2>3. m \in t
    BY <2>2
  <2>4. \A y \in t : m <= y
    <3> TAKE y \in t
    <3>1. n + 1 - y \in 1..(n + 1) /\ n + 1 - (n + 1 - y) = y
      OBVIOUS
    <3>2. n + 1 - y \in flip
      BY <3>1
    <3>3. n + 1 - y <= Max(flip) /\ Max(flip) \in 1..(n + 1)
      BY <2>2, <3>2
    <3> HIDE DEF flip
    <3> QED
      BY <3>1, <3>3
  <2> HIDE DEF m
  <2> QED
    BY <2>3, <2>4
<1>3. Min(t) \in t /\ \A i \in t : Min(t) <= i
  BY <1>2 DEF Min
<1> QED
  BY <1>1, <1>3

\* What is trimmed off shows nothing, and what is left begins with what shows.
LEMMA TrimStartIs ==
    ASSUME NEW s \in Text
    PROVE  /\ IsBlank(s) => TrimStart(s) = <<>>
           /\ ~IsBlank(s) => \E a \in 1..Len(s) :
                 /\ TrimStart(s) = SubSeq(s, a, Len(s)) /\ Shows(s[a])
                 /\ \A i \in 1..(a - 1) : ~Shows(s[i])
<1>1. IsBlank(s) => TrimStart(s) = <<>>
  BY DEF TrimStart
<1>2. ASSUME ~IsBlank(s)
      PROVE  \E a \in 1..Len(s) :
                 /\ TrimStart(s) = SubSeq(s, a, Len(s)) /\ Shows(s[a])
                 /\ \A i \in 1..(a - 1) : ~Shows(s[i])
  <2> DEFINE I == {i \in 1..Len(s) : Shows(s[i])}
             a == Min(I)
  <2>1. Len(s) \in Nat /\ DOMAIN s = 1..Len(s)
    BY LenProperties DEF Text
  <2>2. I # {} /\ I \in SUBSET (1..Len(s))
    BY <1>2, <2>1 DEF IsBlank
  <2>3. a \in I /\ \A i \in I : a <= i
    <3> HIDE DEF I
    <3> QED
      BY <2>1, <2>2, EndsOfPlaces
  <2>4. SelectInSeq(s, Shows) = a
    BY <2>2 DEF SelectInSeq
  <2>5. TrimStart(s) = SubSeq(s, a, Len(s))
    BY <1>2, <2>4 DEF TrimStart
  <2>6. a \in 1..Len(s) /\ Shows(s[a])
    BY <2>3
  <2>7. \A i \in 1..(a - 1) : ~Shows(s[i])
    <3> TAKE i \in 1..(a - 1)
    <3>1. i \in 1..Len(s) /\ ~(a <= i)
      BY <2>1, <2>6
    <3> QED
      BY <2>3, <3>1
  <2> HIDE DEF a
  <2> QED
    BY <2>5, <2>6, <2>7
<1> QED
  BY <1>1, <1>2

\* What TrimEnd leaves ends with the last character that shows.
LEMMA TrimEndIs ==
    ASSUME NEW s \in Text
    PROVE  /\ IsBlank(s) => TrimEnd(s) = <<>>
           /\ ~IsBlank(s) => \E b \in 1..Len(s) :
                 /\ TrimEnd(s) = SubSeq(s, 1, b) /\ Shows(s[b])
                 /\ \A i \in (b + 1)..Len(s) : ~Shows(s[i])
<1>1. IsBlank(s) => TrimEnd(s) = <<>>
  BY DEF TrimEnd
<1>2. ASSUME ~IsBlank(s)
      PROVE  \E b \in 1..Len(s) :
                 /\ TrimEnd(s) = SubSeq(s, 1, b) /\ Shows(s[b])
                 /\ \A i \in (b + 1)..Len(s) : ~Shows(s[i])
  <2> DEFINE I == {i \in 1..Len(s) : Shows(s[i])}
             b == Max(I)
  <2>1. Len(s) \in Nat /\ DOMAIN s = 1..Len(s)
    BY LenProperties DEF Text
  <2>2. I # {} /\ I \in SUBSET (1..Len(s))
    BY <1>2, <2>1 DEF IsBlank
  <2>3. b \in I /\ \A i \in I : i <= b
    <3> HIDE DEF I
    <3> QED
      BY <2>1, <2>2, EndsOfPlaces
  <2>4. SelectLastInSeq(s, Shows) = b
    BY <2>2 DEF SelectLastInSeq
  <2>5. TrimEnd(s) = SubSeq(s, 1, b)
    BY <1>2, <2>4 DEF TrimEnd
  <2>6. b \in 1..Len(s) /\ Shows(s[b])
    BY <2>3
  <2>7. \A i \in (b + 1)..Len(s) : ~Shows(s[i])
    <3> TAKE i \in (b + 1)..Len(s)
    <3>1. i \in 1..Len(s) /\ ~(i <= b)
      BY <2>1, <2>6
    <3> QED
      BY <2>3, <3>1
  <2> HIDE DEF b
  <2> QED
    BY <2>5, <2>6, <2>7
<1> QED
  BY <1>1, <1>2

\* What TrimBoth leaves begins and ends with characters that show.
LEMMA TrimBothIs ==
    ASSUME NEW s \in Text
    PROVE  /\ IsBlank(s) => TrimBoth(s) = <<>>
           /\ ~IsBlank(s) => \E a \in 1..Len(s) : \E b \in a..Len(s) :
                 /\ TrimBoth(s) = SubSeq(s, a, b) /\ Shows(s[a]) /\ Shows(s[b])
                 /\ \A i \in 1..(a - 1) : ~Shows(s[i])
                 /\ \A i \in (b + 1)..Len(s) : ~Shows(s[i])
<1>0. Len(s) \in Nat /\ DOMAIN s = 1..Len(s) /\ s \in Seq(Chars)
  BY LenProperties DEF Text
<1>1. ASSUME IsBlank(s)
      PROVE  TrimBoth(s) = <<>>
  <2>1. TrimEnd(s) = <<>> /\ <<>> \in Text /\ IsBlank(<<>>)
    BY <1>1, EmptySeq, TrimEndIs DEF Text, IsBlank
  <2> QED
    BY <2>1, TrimStartIs DEF TrimBoth
<1>2. ASSUME ~IsBlank(s)
      PROVE  \E a \in 1..Len(s) : \E b \in a..Len(s) :
                 /\ TrimBoth(s) = SubSeq(s, a, b) /\ Shows(s[a]) /\ Shows(s[b])
                 /\ \A i \in 1..(a - 1) : ~Shows(s[i])
                 /\ \A i \in (b + 1)..Len(s) : ~Shows(s[i])
  <2>1. PICK b \in 1..Len(s) :
                 /\ TrimEnd(s) = SubSeq(s, 1, b) /\ Shows(s[b])
                 /\ \A i \in (b + 1)..Len(s) : ~Shows(s[i])
    BY <1>2, TrimEndIs
  <2> DEFINE t == SubSeq(s, 1, b)
  <2>2. t \in Seq(Chars) /\ Len(t) = b /\ \A i \in 1..b : t[i] = s[i]
    <3>1. 1 \in 1..(Len(s) + 1) /\ b \in 0..Len(s) /\ b - 1 + 1 = b
      BY <1>0
    <3> QED
      BY <1>0, <3>1, PartIs
  <2> HIDE DEF t
  <2>3. ~IsBlank(t)
    <3>1. DOMAIN t = 1..b /\ b \in 1..b
      BY <1>0, <2>2, LenProperties
    <3> QED
      BY <2>1, <2>2, <3>1 DEF IsBlank
  <2>4. PICK a \in 1..Len(t) :
                 /\ TrimStart(t) = SubSeq(t, a, Len(t)) /\ Shows(t[a])
                 /\ \A i \in 1..(a - 1) : ~Shows(t[i])
    BY <2>2, <2>3, TrimStartIs DEF Text
  <2>5. a \in 1..b /\ a \in 1..Len(s) /\ b \in a..Len(s)
    BY <1>0, <2>2
  <2>6. SubSeq(t, a, b) = SubSeq(s, a, b)
    <3> DEFINE u == SubSeq(t, a, b)
               v == SubSeq(s, a, b)
    <3>1. a \in 1..(Len(t) + 1) /\ b \in (a - 1)..Len(t) /\ a \in 1..(Len(s) + 1) /\ b \in (a - 1)..Len(s)
      BY <1>0, <2>2, <2>5
    <3>2. u \in Seq(Chars) /\ Len(u) = b - a + 1 /\ \A i \in 1..(b - a + 1) : u[i] = t[a + i - 1]
      BY <2>2, <3>1, PartIs
    <3>3. v \in Seq(Chars) /\ Len(v) = b - a + 1 /\ \A i \in 1..(b - a + 1) : v[i] = s[a + i - 1]
      BY <1>0, <3>1, PartIs
    <3>4. \A i \in 1..(b - a + 1) : a + i - 1 \in 1..b
      BY <2>5
    <3> HIDE DEF u, v
    <3>5. \A i \in 1..Len(u) : u[i] = v[i]
      BY <2>2, <3>2, <3>3, <3>4
    <3> QED
      BY <3>2, <3>3, <3>5, SeqEqual DEF u, v
  <2>7. TrimBoth(s) = SubSeq(s, a, b)
    BY <2>1, <2>2, <2>4, <2>6 DEF TrimBoth, t
  <2>8. Shows(s[a]) /\ \A i \in 1..(a - 1) : ~Shows(s[i])
    BY <2>2, <2>4, <2>5
  <2> QED
    BY <2>1, <2>5, <2>7, <2>8
<1> QED
  BY <1>1, <1>2

-----------------------------------------------------------------------------
(***************************************************************************)
(* What is seen of a text but for the backticks, and its fences.           *)
(***************************************************************************)
\* What is seen of a text but for the backticks, and the backticks that end a fence line.
Plain == {c \in Chars : Shows(c) /\ c.kind # "tick"}
Closers == {c \in Chars : c.kind = "tick" /\ c.column = 3}
Body(s) == Sel(Chars, Plain, s)
Marks(s) == Len(Sel(Chars, Closers, s))

\* A newline is neither seen nor a closing.
LEMMA NewlineNotSeen == Newline \notin Plain /\ Newline \notin Closers
BY NewlineIs DEF Plain, Closers

\* Nothing that is kept is lost or added between two texts joined.
LEMMA SelJoint ==
    ASSUME NEW B, Newline \notin B, NEW s \in Text, NEW t \in Text
    PROVE  Sel(Chars, B, s \o <<Newline>> \o t) = Sel(Chars, B, s) \o Sel(Chars, B, t)
<1> DEFINE r == s \o <<Newline>>
           sel(u) == Sel(Chars, B, u)
<1>1. s \in Seq(Chars) /\ t \in Seq(Chars) /\ Newline \in Chars /\ r = Append(s, Newline)
  BY NewlineIs DEF Text
<1>2. r \in Seq(Chars)
  BY <1>1, AppendProperties
<1>3. sel(r) = sel(s)
  <2> HIDE DEF r
  <2>1. sel(Append(s, Newline)) = sel(s)
    BY <1>1, SelAppend
  <2> QED
    BY <1>1, <2>1
<1>4. sel(r \o t) = sel(r) \o sel(t)
  <2> HIDE DEF r
  <2> QED
    BY <1>1, <1>2, SelConcat
<1> QED
  BY <1>3, <1>4

\* What is kept of a text is a text.
LEMMA SelIsSeq ==
    ASSUME NEW B, NEW s \in Text
    PROVE  Sel(Chars, B, s) \in Seq(Chars) /\ Len(Sel(Chars, B, s)) \in Nat
<1>1. s \in Seq(Chars)
  BY DEF Text
<1>2. Sel(Chars, B, s) \in Seq(Chars)
  BY <1>1, SelTyped
<1> QED
  BY <1>2, LenProperties

\* Two texts joined show what each shows, and have the fences of both.
LEMMA BodyJoint ==
    ASSUME NEW s \in Text, NEW t \in Text
    PROVE  /\ Body(s \o <<Newline>> \o t) = Body(s) \o Body(t)
           /\ Marks(s \o <<Newline>> \o t) = Marks(s) + Marks(t)
           /\ Body(s) \in Text /\ Marks(s) \in Nat
<1>1. Body(s \o <<Newline>> \o t) = Body(s) \o Body(t)
  BY NewlineNotSeen, SelJoint DEF Body
<1> DEFINE a == Sel(Chars, Closers, s)
           b == Sel(Chars, Closers, t)
<1>2. Sel(Chars, Closers, s \o <<Newline>> \o t) = a \o b
  BY NewlineNotSeen, SelJoint
<1>3. a \in Seq(Chars) /\ b \in Seq(Chars) /\ Len(a) \in Nat
  BY SelIsSeq
<1> HIDE DEF a, b
<1>4. Len(a \o b) = Len(a) + Len(b)
  BY <1>3, ConcatProperties
<1>5. Marks(s \o <<Newline>> \o t) = Marks(s) + Marks(t) /\ Marks(s) \in Nat
  BY <1>2, <1>3, <1>4 DEF Marks, a, b
<1>6. Body(s) \in Text
  BY SelIsSeq DEF Body, Text
<1> QED
  BY <1>1, <1>5, <1>6

\* A line is the three backticks of a fence, or there are none in it.
FenceLine(x) == Len(x) = 3 /\ \A i \in 1..3 : x[i].kind = "tick" /\ x[i].column = i
NoTicks(x) == \A i \in 1..Len(x) : x[i].kind # "tick"

\* In a line the backticks are those of a fence line.
LEMMA NeatLine ==
    ASSUME NEW x \in Text, NoNewline(x), Neat(x)
    PROVE  FenceLine(x) \/ NoTicks(x)
<1>1. Len(x) \in Nat
  BY LenProperties DEF Text
<1>2. ASSUME NEW i \in 1..Len(x), x[i].kind = "tick"
      PROVE  FenceLine(x)
  <2> DEFINE at(j, k) == j \in 1..Len(x) /\ x[j].kind = "tick" /\ x[j].column = k
  <2>1. ASSUME NEW j \in Int, at(j, 1)
        PROVE  FenceLine(x)
    <3>1. j = 1
      BY <1>1, <2>1 DEF Neat, NoNewline
    <3>2. at(2, 2)
      BY <1>1, <2>1, <3>1 DEF Neat
    <3>3. at(3, 3)
      BY <1>1, <3>2 DEF Neat
    <3>4. Len(x) <= 3
      <4> SUFFICES ASSUME 3 < Len(x)
                   PROVE  FALSE
        BY <1>1
      <4>1. x[4] = Newline
        BY <1>1, <3>3 DEF Neat
      <4>2. 4 \in 1..Len(x)
        BY <1>1
      <4> QED
        BY <4>1, <4>2 DEF NoNewline
    <3>a. 3 \in 1..Len(x)
      BY <3>3
    <3>5. Len(x) = 3
      <4> DEFINE n == Len(x)
      <4>1. n \in Nat /\ 3 <= n /\ n <= 3
        BY <1>1, <3>a, <3>4
      <4> HIDE DEF n
      <4>2. n = 3
        BY <4>1
      <4> QED
        BY <4>2 DEF n
    <3>6. \A k \in 1..3 : k = 1 \/ k = 2 \/ k = 3
      OBVIOUS
    <3>7. at(1, 1)
      BY <2>1, <3>1
    <3>8. \A k \in 1..3 : at(k, k)
      <4> HIDE DEF at
      <4> QED
        BY <3>2, <3>3, <3>6, <3>7
    <3> QED
      BY <3>5, <3>8 DEF FenceLine
  <2>2. ASSUME NEW j \in Int, at(j, 2)
        PROVE  at(j - 1, 1)
    BY <1>1, <2>2 DEF Neat
  <2>3. ASSUME NEW j \in Int, at(j, 3)
        PROVE  at(j - 1, 2)
    BY <1>1, <2>3 DEF Neat
  <2>4. x[i].column \in 1..3
    BY <1>2 DEF Neat
  <2> HIDE DEF at
  <2>5. i \in Int /\ i - 1 \in Int /\ (at(i, 1) \/ at(i, 2) \/ at(i, 3))
    BY <1>2, <2>4 DEF at
  <2> QED
    BY <2>1, <2>2, <2>3, <2>5
<1> QED
  BY <1>2 DEF NoTicks

\* A backtick shows.
LEMMA ShowsTicks == \A c : c.kind = "tick" => Shows(c)
BY DEF Shows

\* isFence tells the two kinds of lines apart.
LEMMA FenceOfLine ==
    ASSUME NEW x \in Text
    PROVE  /\ FenceLine(x) => IsFence(x) /\ Marks(x) = 1 /\ Body(x) = <<>>
           /\ NoTicks(x) => ~IsFence(x) /\ Marks(x) = 0
<1>0. Len(x) \in Nat /\ x \in Seq(Chars) /\ DOMAIN x = 1..Len(x)
  BY LenProperties DEF Text
<1>1. ASSUME FenceLine(x)
      PROVE  IsFence(x)
  <2>1. Len(x) = 3 /\ \A i \in 1..3 : x[i].kind = "tick" /\ Shows(x[i])
    BY <1>1, ShowsTicks DEF FenceLine
  <2>2. ~IsBlank(x)
    BY <1>0, <2>1 DEF IsBlank
  <2>3. PICK a \in 1..Len(x) : TrimStart(x) = SubSeq(x, a, Len(x)) /\ \A i \in 1..(a - 1) : ~Shows(x[i])
    BY <2>2, TrimStartIs
  <2>4. a = 1
    BY <2>1, <2>3
  <2>5. TrimStart(x) = x
    <3>1. SubSeq(x, 1, Len(x)) = x
      BY <1>0
    <3> QED
      BY <2>3, <2>4, <3>1
  <2> DEFINE t == TrimStart(x)
  <2>6. t = x
    BY <2>5
  <2>7. Len(t) = 3 /\ \A i \in 1..3 : t[i].kind = "tick"
    BY <2>1, <2>6, Zenon
  <2> HIDE DEF t
  <2>8. Len(t) >= 3
    BY <2>7
  <2> QED
    BY <2>7, <2>8, Zenon DEF IsFence, t
<1>2. ASSUME NoTicks(x)
      PROVE  ~IsFence(x)
  <2>1. CASE IsBlank(x)
    <3>1. TrimStart(x) = <<>> /\ Len(<<>>) = 0
      BY <2>1, TrimStartIs, EmptySeq
    <3> DEFINE t == TrimStart(x)
    <3>2. Len(t) = 0
      BY <3>1
    <3> HIDE DEF t
    <3>3. ~(Len(t) >= 3)
      BY <3>2
    <3> QED
      BY <3>3 DEF IsFence, t
  <2>2. CASE ~IsBlank(x)
    <3>1. PICK a \in 1..Len(x) : TrimStart(x) = SubSeq(x, a, Len(x))
      BY <2>2, TrimStartIs
    <3> DEFINE t == TrimStart(x)
    <3>2. Len(t) = Len(x) - a + 1 /\ \A i \in 1..(Len(x) - a + 1) : t[i] = x[a + i - 1]
      <4>1. a \in 1..(Len(x) + 1) /\ Len(x) \in (a - 1)..Len(x)
        BY <1>0
      <4> QED
        BY <1>0, <3>1, <4>1, PartIs
    <3> HIDE DEF t
    <3>3. ASSUME Len(t) >= 3
          PROVE  t[1].kind # "tick"
      <4>1. t[1] = x[a]
        BY <1>0, <3>2, <3>3
      <4> QED
        BY <1>2, <4>1 DEF NoTicks
    <3> QED
      BY <3>3 DEF IsFence, t
  <2> QED
    BY <2>1, <2>2
<1>3. ASSUME NoTicks(x)
      PROVE  Marks(x) = 0
  <2>1. \A i \in 1..Len(x) : x[i] \notin Closers
    BY <1>3 DEF NoTicks, Closers
  <2>2. Sel(Chars, Closers, x) = <<>>
    BY <1>0, <2>1, SelNothing
  <2> QED
    BY <2>2, EmptySeq DEF Marks
<1>4. ASSUME FenceLine(x)
      PROVE  Body(x) = <<>>
  <2>1. \A i \in 1..Len(x) : x[i] \notin Plain
    BY <1>4 DEF FenceLine, Plain
  <2> QED
    BY <1>0, <2>1, SelNothing DEF Body
<1>5. ASSUME FenceLine(x)
      PROVE  Marks(x) = 1
  <2> DEFINE h == SubSeq(x, 1, 2)
             l == x[3]
  <2>1. Len(x) = 3 /\ l \in Chars /\ l.kind = "tick" /\ l.column = 3
        /\ \A i \in 1..2 : x[i].column # 3
    BY <1>0, <1>5, ElementOfSeq DEF FenceLine
  <2>2. h \in Seq(Chars) /\ Len(h) = 2 /\ \A i \in 1..2 : h[i] = x[i]
    <3>1. 1 \in 1..(Len(x) + 1) /\ 2 \in (1 - 1)..Len(x)
      BY <2>1
    <3> QED
      BY <1>0, <3>1, PartIs
  <2> HIDE DEF h, l
  <2>3. x = Append(h, l)
    <3> DEFINE y == Append(h, l)
    <3>1. y \in Seq(Chars) /\ Len(y) = 3 /\ y[3] = l /\ \A j \in 1..2 : y[j] = h[j]
      <4>1. h \in Seq(Chars) /\ l \in Chars /\ Len(h) + 1 = 3
        BY <2>1, <2>2
      <4>2. y \in Seq(Chars) /\ Len(y) = Len(h) + 1 /\ y[Len(h) + 1] = l
            /\ \A j \in 1..Len(h) : y[j] = h[j]
        BY <4>1, AppendIs
      <4> HIDE DEF y
      <4> QED
        BY <2>2, <4>1, <4>2
    <3> HIDE DEF y
    <3>2. \A j \in 1..Len(x) : x[j] = y[j]
      <4>1. \A j \in 1..Len(x) : j = 3 \/ j \in 1..2
        BY <2>1
      <4> QED
        BY <2>2, <3>1, <4>1 DEF l
    <3> QED
      BY <1>0, <2>1, <3>1, <3>2, SeqEqual DEF y
  <2>4. \A i \in 1..Len(h) : h[i] \notin Closers
    BY <2>1, <2>2 DEF Closers
  <2>5. Sel(Chars, Closers, h) = <<>>
    BY <2>2, <2>4, SelNothing
  <2>6. l \in Closers
    BY <2>1 DEF Closers
  <2>7. Sel(Chars, Closers, Append(h, l)) = Append(Sel(Chars, Closers, h), l)
    BY <2>1, <2>2, <2>6, SelAppend
  <2>8. Sel(Chars, Closers, x) = <<l>>
    BY <2>3, <2>5, <2>7
  <2> QED
    BY <2>8 DEF Marks
<1> QED
  BY <1>1, <1>2, <1>3, <1>4, <1>5

\* Some lines, and one more.
LEMMA LinesAre ==
    /\ SomeLines = Seq(Text) \ {<<>>}
    /\ \A x \in Text : <<x>> \in SomeLines /\ Len(<<x>>) = 1 /\ <<x>>[1] = x
    /\ \A L \in SomeLines, x \in Text : Append(L, x) \in SomeLines
    /\ \A L \in SomeLines : L \in Seq(Text) /\ L # <<>> /\ Joined(L) \in Text
<1>1. ASSUME NEW L \in SomeLines, NEW x \in Text
      PROVE  Append(L, x) \in SomeLines
  <2>1. L \in Seq(Text)
    BY DEF SomeLines
  <2>2. Append(L, x) \in Seq(Text) /\ Append(L, x) # <<>>
    BY <2>1, AppendIs
  <2> QED
    BY <2>2 DEF SomeLines
<1>2. \A L \in SomeLines : L \in Seq(Text) /\ L # <<>> /\ Joined(L) \in Text
  BY JoinedLaws DEF SomeLines
<1>3. ASSUME NEW x \in Text
      PROVE  <<x>> \in SomeLines /\ Len(<<x>>) = 1 /\ <<x>>[1] = x
  <2> DEFINE T == Text
  <2>1. x \in T
    OBVIOUS
  <2> HIDE DEF T
  <2>2. <<x>> \in Seq(T) /\ <<x>> # <<>> /\ Len(<<x>>) = 1 /\ <<x>>[1] = x
    BY <2>1
  <2> QED
    BY <2>2 DEF SomeLines, T
<1> QED
  BY <1>1, <1>2, <1>3 DEF SomeLines

\* Lines joined are sound exactly when each of them is.
LEMMA SoundLines ==
    ASSUME NEW M \in SomeLines
    PROVE  Sound(Joined(M)) <=> \A j \in 1..Len(M) : Sound(M[j])
<1> DEFINE G == {L \in SomeLines : Sound(Joined(L)) <=> \A j \in 1..Len(L) : Sound(L[j])}
<1>1. ASSUME NEW x \in Text
      PROVE  <<x>> \in G
  <2> DEFINE L == <<x>>
  <2>1. L \in SomeLines /\ Len(L) = 1 /\ L[1] = x /\ Joined(L) = x
    BY LinesAre, JoinedLaws
  <2> HIDE DEF L
  <2>2. (\A j \in 1..Len(L) : Sound(L[j])) <=> Sound(L[1])
    BY <2>1
  <2>3. L \in G
    BY <2>1, <2>2
  <2> QED
    BY <2>3 DEF L
<1>2. ASSUME NEW L \in G, NEW x \in Text
      PROVE  Append(L, x) \in G
  <2> DEFINE M1 == Append(L, x)
  <2>1. L \in SomeLines /\ L \in Seq(Text) /\ L # <<>> /\ Joined(L) \in Text /\ M1 \in SomeLines
        /\ (Sound(Joined(L)) <=> \A j \in 1..Len(L) : Sound(L[j]))
    BY LinesAre
  <2>2. Joined(M1) = Joined(L) \o <<Newline>> \o x
    BY <2>1, JoinedLaws
  <2>3. Sound(Joined(M1)) <=> Sound(Joined(L)) /\ Sound(x)
    BY <2>1, <2>2, SoundJoint
  <2>4. /\ Len(L) \in Nat /\ Len(M1) = Len(L) + 1
        /\ M1[Len(L) + 1] = x
        /\ \A j \in 1..Len(L) : M1[j] = L[j]
        /\ \A j \in 1..(Len(L) + 1) : j = Len(L) + 1 \/ j \in 1..Len(L)
    BY <2>1, AppendIs
  <2> HIDE DEF M1, G
  <2>5. (\A j \in 1..Len(M1) : Sound(M1[j])) <=> (\A j \in 1..Len(L) : Sound(L[j])) /\ Sound(x)
    <3>1. \A j \in 1..Len(L) : j \in 1..Len(M1)
      BY <2>4
    <3>2. Len(L) + 1 \in 1..Len(M1)
      BY <2>4
    <3> QED
      BY <2>4, <3>1, <3>2
  <2>6. M1 \in G
    BY <2>1, <2>3, <2>5 DEF G
  <2> QED
    BY <2>6 DEF M1
<1>3. G \in SUBSET (Seq(Text) \ {<<>>})
  BY LinesAre
<1> HIDE DEF G
<1>4. G = Seq(Text) \ {<<>>}
  BY <1>1, <1>2, <1>3, LinesInduction
<1>5. M \in G
  BY <1>4, LinesAre
<1> QED
  BY <1>5 DEF G

\* What is kept of lines joined is what is kept of the lines.
LEMMA SelLines ==
    ASSUME NEW B, Newline \notin B, NEW M \in SomeLines
    PROVE  Sel(Chars, B, Joined(M)) = Sel(Chars, B, FlattenSeq(M))
<1> DEFINE sel(u) == Sel(Chars, B, u)
           G == {L \in SomeLines : sel(Joined(L)) = sel(FlattenSeq(L))}
<1>1. ASSUME NEW x \in Text
      PROVE  <<x>> \in G
  <2>1. <<x>> \in SomeLines /\ Joined(<<x>>) = x
    BY LinesAre, JoinedLaws
  <2>2. FlattenSeq(<<x>>) = x
    BY FlattenOne DEF Text
  <2> QED
    BY <2>1, <2>2
<1>2. ASSUME NEW L \in G, NEW x \in Text
      PROVE  Append(L, x) \in G
  <2> DEFINE M1 == Append(L, x)
  <2>1. L \in SomeLines /\ L \in Seq(Text) /\ L # <<>> /\ Joined(L) \in Text /\ M1 \in SomeLines
        /\ sel(Joined(L)) = sel(FlattenSeq(L))
    BY LinesAre
  <2>2. Joined(M1) = Joined(L) \o <<Newline>> \o x
    BY <2>1, JoinedLaws
  <2>3. sel(Joined(M1)) = sel(Joined(L)) \o sel(x)
    BY <2>1, <2>2, SelJoint
  <2>4. FlattenSeq(M1) = FlattenSeq(L) \o x /\ FlattenSeq(L) \in Seq(Chars) /\ x \in Seq(Chars)
    BY <2>1, FlattenLaws DEF Text
  <2>5. sel(FlattenSeq(M1)) = sel(FlattenSeq(L)) \o sel(x)
    BY <2>4, SelConcat
  <2> HIDE DEF M1, sel
  <2> QED
    BY <2>1, <2>3, <2>5 DEF M1
<1>3. G \in SUBSET (Seq(Text) \ {<<>>})
  BY LinesAre
<1> HIDE DEF G
<1>4. G = Seq(Text) \ {<<>>}
  BY <1>1, <1>2, <1>3, LinesInduction
<1>5. M \in G
  BY <1>4, LinesAre
<1> QED
  BY <1>5 DEF G

\* The lines that are fences are counted by the backticks that end them.
FenceRows(L) == {j \in DOMAIN L : IsFence(L[j])}

\* The fences among some lines are as many as the lines joined have.
Counted(L) == IsFiniteSet(FenceRows(L)) /\ Cardinality(FenceRows(L)) = Marks(Joined(L))
AllNeat(L) == \A j \in 1..Len(L) : NoNewline(L[j]) /\ Neat(L[j])

\* A line has one fence or none.
LEMMA NeatCount ==
    ASSUME NEW x \in Text, NoNewline(x), Neat(x)
    PROVE  Marks(x) = IF IsFence(x) THEN 1 ELSE 0
BY NeatLine, FenceOfLine

\* So with every sequence of lines.
LEMMA FenceCount ==
    ASSUME NEW M \in SomeLines, AllNeat(M)
    PROVE  Counted(M)
<1> DEFINE G == {L \in SomeLines : AllNeat(L) => Counted(L)}
<1>1. ASSUME NEW x \in Text
      PROVE  <<x>> \in G
  <2> DEFINE L == <<x>>
  <2>1. L \in SomeLines /\ Len(L) = 1 /\ L[1] = x /\ Joined(L) = x
    BY LinesAre, JoinedLaws
  <2>2. DOMAIN L = {1}
    BY <2>1
  <2> HIDE DEF L
  <2> SUFFICES ASSUME AllNeat(L)
               PROVE  Counted(L)
    BY <2>1 DEF L
  <2>3. NoNewline(x) /\ Neat(x)
    BY <2>1 DEF AllNeat
  <2>4. Marks(x) = IF IsFence(x) THEN 1 ELSE 0
    BY <2>3, NeatCount
  <2>5. CASE IsFence(x)
    <3>1. FenceRows(L) = {1}
      BY <2>1, <2>2, <2>5 DEF FenceRows
    <3> QED
      BY <2>1, <2>4, <2>5, <3>1, FS_Singleton DEF Counted
  <2>6. CASE ~IsFence(x)
    <3>1. FenceRows(L) = {}
      BY <2>1, <2>2, <2>6 DEF FenceRows
    <3> QED
      BY <2>1, <2>4, <2>6, <3>1, FS_EmptySet DEF Counted
  <2> QED
    BY <2>5, <2>6
<1>2. ASSUME NEW L \in G, NEW x \in Text
      PROVE  Append(L, x) \in G
  <2> DEFINE M1 == Append(L, x)
             n == Len(L)
  <2>1. L \in SomeLines /\ L \in Seq(Text) /\ L # <<>> /\ Joined(L) \in Text /\ M1 \in SomeLines
        /\ (AllNeat(L) => Counted(L))
    BY LinesAre
  <2>2. Joined(M1) = Joined(L) \o <<Newline>> \o x
    BY <2>1, JoinedLaws
  <2>3. Marks(Joined(M1)) = Marks(Joined(L)) + Marks(x) /\ Marks(Joined(L)) \in Nat
    BY <2>1, <2>2, BodyJoint
  <2>4. /\ n \in Nat /\ Len(M1) = n + 1
        /\ M1[n + 1] = x
        /\ \A j \in 1..n : M1[j] = L[j]
        /\ \A j \in 1..(n + 1) : j = n + 1 \/ j \in 1..n
        /\ M1 \in Seq(Text)
    BY <2>1, AppendIs
  <2>5. DOMAIN L = 1..n /\ DOMAIN M1 = 1..(n + 1)
    BY <2>1, <2>4, LenProperties
  <2> HIDE DEF M1, G, n
  <2> SUFFICES ASSUME AllNeat(M1)
               PROVE  Counted(M1)
    BY <2>1 DEF G, M1
  <2>6. /\ \A j \in 1..n : NoNewline(L[j]) /\ Neat(L[j])
        /\ NoNewline(x) /\ Neat(x)
    <3>1. \A j \in 1..n : j \in 1..Len(M1)
      BY <2>4
    <3>2. n + 1 \in 1..Len(M1)
      BY <2>4
    <3> QED
      BY <2>4, <3>1, <3>2 DEF AllNeat
  <2>7. Counted(L)
    BY <2>1, <2>6 DEF AllNeat, n
  <2>8. Marks(x) = IF IsFence(x) THEN 1 ELSE 0
    BY <2>6, NeatCount
  <2> DEFINE R == FenceRows(L)
             Q == FenceRows(M1)
  <2>9. IsFiniteSet(R) /\ Cardinality(R) = Marks(Joined(L)) /\ n + 1 \notin R
    BY <2>4, <2>5, <2>7 DEF Counted, FenceRows
  <2>10. CASE IsFence(x)
    <3>1. Q = R \cup {n + 1}
      BY <2>4, <2>5, <2>10 DEF FenceRows
    <3> HIDE DEF R, Q
    <3>2. IsFiniteSet(R \cup {n + 1}) /\ Cardinality(R \cup {n + 1}) = Cardinality(R) + 1
      BY <2>9, FS_AddElement
    <3> QED
      BY <2>3, <2>8, <2>9, <2>10, <3>1, <3>2 DEF Counted, Q
  <2>11. CASE ~IsFence(x)
    <3>1. Q = R
      BY <2>4, <2>5, <2>11 DEF FenceRows
    <3> HIDE DEF R, Q
    <3> QED
      BY <2>3, <2>8, <2>9, <2>11, <3>1 DEF Counted, Q
  <2> QED
    BY <2>10, <2>11
<1>3. G \in SUBSET (Seq(Text) \ {<<>>})
  BY LinesAre
<1> HIDE DEF G
<1>4. G = Seq(Text) \ {<<>>}
  BY <1>1, <1>2, <1>3, LinesInduction
<1>5. M \in G
  BY <1>4, LinesAre
<1> QED
  BY <1>5 DEF G

\* In a sound text, so many lines are fences.
LEMMA FencesOfText ==
    ASSUME NEW s \in Text, Sound(s)
    PROVE  Cardinality({j \in DOMAIN LinesOf(s) : IsFence(LinesOf(s)[j])}) = Marks(s)
<1> DEFINE L == LinesOf(s)
<1>1. L \in SomeLines /\ Joined(L) = s /\ \A j \in 1..Len(L) : NoNewline(L[j])
  <2>1. s \in Seq(Chars) /\ Chars \in SUBSET Chars
    BY DEF Text
  <2>2. CutOf(Chars, LinesOf(s), s)
    BY <2>1, LinesJoin
  <2> QED
    BY <2>2, LinesOfLaws DEF CutOf
<1> HIDE DEF L
<1>2. \A j \in 1..Len(L) : Sound(L[j])
  BY <1>1, SoundLines
<1>3. AllNeat(L)
  BY <1>1, <1>2 DEF AllNeat, Sound
<1>4. Counted(L)
  BY <1>1, <1>3, FenceCount
<1> QED
  BY <1>1, <1>4 DEF Counted, FenceRows, L

-----------------------------------------------------------------------------
(***************************************************************************)
(* Parts of a sound text.                                                  *)
(***************************************************************************)
\* A part of a part.
LEMMA PartOfPart ==
    ASSUME NEW S, NEW s \in Seq(S), NEW a \in 1..(Len(s) + 1), NEW b \in (a - 1)..Len(s),
           NEW c \in 1..(b - a + 2), NEW d \in (c - 1)..(b - a + 1)
    PROVE  /\ SubSeq(SubSeq(s, a, b), c, d) = SubSeq(s, a + c - 1, a + d - 1)
           /\ a + c - 1 \in 1..(Len(s) + 1) /\ a + d - 1 \in (a + c - 2)..Len(s)
<1> DEFINE t == SubSeq(s, a, b)
           u == SubSeq(t, c, d)
           v == SubSeq(s, a + c - 1, a + d - 1)
<1>1. Len(s) \in Nat
  BY LenProperties
<1>2. t \in Seq(S) /\ Len(t) = b - a + 1 /\ \A i \in 1..(b - a + 1) : t[i] = s[a + i - 1]
  BY PartIs
<1>3. a + c - 1 \in 1..(Len(s) + 1) /\ a + d - 1 \in (a + c - 2)..Len(s)
  BY <1>1
<1> HIDE DEF t
<1>4. c \in 1..(Len(t) + 1) /\ d \in (c - 1)..Len(t)
  BY <1>1, <1>2
<1>5. u \in Seq(S) /\ Len(u) = d - c + 1 /\ \A i \in 1..(d - c + 1) : u[i] = t[c + i - 1]
  BY <1>2, <1>4, PartIs
<1>6. v \in Seq(S) /\ Len(v) = d - c + 1 /\ \A i \in 1..(d - c + 1) : v[i] = s[a + c - 1 + i - 1]
  <2> DEFINE x == a + c - 1
             y == a + d - 1
  <2>1. x \in 1..(Len(s) + 1) /\ y \in (x - 1)..Len(s) /\ y - x + 1 = d - c + 1
    BY <1>1, <1>3
  <2> HIDE DEF x, y
  <2>2. SubSeq(s, x, y) \in Seq(S) /\ Len(SubSeq(s, x, y)) = y - x + 1
        /\ \A i \in 1..(y - x + 1) : SubSeq(s, x, y)[i] = s[x + i - 1]
    BY <2>1, PartIs
  <2> QED
    BY <2>1, <2>2 DEF x, y
<1> HIDE DEF u, v
<1>7. \A i \in 1..Len(u) : u[i] = v[i]
  <2> TAKE i \in 1..Len(u)
  <2>1. i \in 1..(d - c + 1) /\ c + i - 1 \in 1..(b - a + 1) /\ a + (c + i - 1) - 1 = a + c - 1 + i - 1
    BY <1>1, <1>5
  <2> QED
    BY <1>2, <1>5, <1>6, <2>1
<1> QED
  BY <1>3, <1>5, <1>6, <1>7, SeqEqual DEF u, v, t

\* A part that leaves off only what does not show.
LEMMA PartSound ==
    ASSUME NEW s \in Text, NEW a \in 1..Len(s), NEW b \in a..Len(s),
           \A i \in 1..(a - 1) : ~Shows(s[i]), \A i \in (b + 1)..Len(s) : ~Shows(s[i])
    PROVE  LET t == SubSeq(s, a, b)
           IN  /\ Sound(s) => Sound(t)
               /\ Body(t) = Body(s) /\ Marks(t) = Marks(s)
<1> DEFINE t == SubSeq(s, a, b)
           m == b - a + 1
<1>0. Len(s) \in Nat /\ s \in Seq(Chars) /\ a \in 1..(Len(s) + 1) /\ b \in (a - 1)..Len(s) /\ m \in Nat
  BY LenProperties DEF Text
<1>1. t \in Seq(Chars) /\ Len(t) = m /\ \A i \in 1..m : t[i] = s[a + i - 1]
  BY <1>0, PartIs
<1>2. \A i \in 1..Len(s) : i \notin a..b => ~Shows(s[i])
  BY <1>0
<1>3. ASSUME NEW B, \A c \in B : Shows(c)
      PROVE  Sel(Chars, B, t) = Sel(Chars, B, s)
  <2>1. \A i \in 1..Len(s) : i \notin a..b => s[i] \notin B
    BY <1>2, <1>3
  <2> QED
    BY <1>0, <2>1, SelPart
<1>4. Body(t) = Body(s) /\ Marks(t) = Marks(s)
  <2>1. (\A c \in Plain : Shows(c)) /\ (\A c \in Closers : Shows(c))
    BY ShowsTicks DEF Plain, Closers
  <2> HIDE DEF t
  <2> QED
    BY <1>3, <2>1 DEF Body, Marks
<1> HIDE DEF t
<1>5. ASSUME Whole(s)
      PROVE  Whole(t)
  <2> SUFFICES ASSUME NEW i \in 1..m
               PROVE  /\ t[i].kind = "high" => i < m /\ t[i + 1].kind = "low"
                      /\ t[i].kind = "low" => i > 1 /\ t[i - 1].kind = "high"
    BY <1>1 DEF Whole
  <2> DEFINE k == a + i - 1
  <2>1. k \in 1..Len(s) /\ t[i] = s[k] /\ k \in a..b
    BY <1>0, <1>1
  <2>2. (i < m => t[i + 1] = s[k + 1]) /\ (i > 1 => t[i - 1] = s[k - 1])
    <3>1. (i < m => i + 1 \in 1..m /\ a + (i + 1) - 1 = k + 1) /\ (i > 1 => i - 1 \in 1..m /\ a + (i - 1) - 1 = k - 1)
      BY <1>0
    <3> HIDE DEF k, m
    <3> QED
      BY <1>1, <3>1
  <2>3. (i < m \/ k = b) /\ (i > 1 \/ k = a)
    BY <1>0
  <2> HIDE DEF k, m
  <2>4. /\ s[k].kind = "high" => k < Len(s) /\ s[k + 1].kind = "low"
        /\ s[k].kind = "low" => k > 1 /\ s[k - 1].kind = "high"
    BY <1>5, <2>1 DEF Whole
  <2>5. ASSUME s[k].kind = "high"
        PROVE  k # b
    <3> SUFFICES ASSUME k = b
                 PROVE  FALSE
      OBVIOUS
    <3>1. k + 1 \in (b + 1)..Len(s)
      BY <1>0, <2>1, <2>4, <2>5
    <3>2. ~Shows(s[k + 1])
      BY <3>1
    <3> QED
      BY <2>4, <2>5, <3>2 DEF Shows
  <2>6. ASSUME s[k].kind = "low"
        PROVE  k # a
    <3> SUFFICES ASSUME k = a
                 PROVE  FALSE
      OBVIOUS
    <3>1. k - 1 \in 1..(a - 1)
      BY <1>0, <2>1, <2>4, <2>6
    <3>2. ~Shows(s[k - 1])
      BY <3>1
    <3> QED
      BY <2>4, <2>6, <3>2 DEF Shows
  <2> QED
    BY <2>1, <2>2, <2>3, <2>4, <2>5, <2>6
<1>6. ASSUME Neat(s)
      PROVE  Neat(t)
  <2> SUFFICES ASSUME NEW i \in 1..m, t[i].kind = "tick"
               PROVE  /\ t[i].column \in 1..3
                      /\ t[i].column = 1 /\ i > 1 => t[i - 1] = Newline
                      /\ t[i].column # 1 => i > 1 /\ t[i - 1].kind = "tick" /\ t[i - 1].column = t[i].column - 1
                      /\ t[i].column = 3 /\ i < m => t[i + 1] = Newline
                      /\ t[i].column # 3 => i < m /\ t[i + 1].kind = "tick" /\ t[i + 1].column = t[i].column + 1
    BY <1>1 DEF Neat
  <2> DEFINE k == a + i - 1
  <2>1. k \in 1..Len(s) /\ t[i] = s[k] /\ k \in a..b
    BY <1>0, <1>1
  <2>2. (i < m => t[i + 1] = s[k + 1]) /\ (i > 1 => t[i - 1] = s[k - 1])
    <3>1. (i < m => i + 1 \in 1..m /\ a + (i + 1) - 1 = k + 1) /\ (i > 1 => i - 1 \in 1..m /\ a + (i - 1) - 1 = k - 1)
      BY <1>0
    <3> HIDE DEF k, m
    <3> QED
      BY <1>1, <3>1
  <2>3. (i < m \/ k = b) /\ (i > 1 \/ k = a) /\ (i > 1 => k > 1) /\ (i < m => k < Len(s))
    BY <1>0
  <2> HIDE DEF k, m
  <2>4. /\ s[k].column \in 1..3
        /\ s[k].column = 1 /\ k > 1 => s[k - 1] = Newline
        /\ s[k].column # 1 => k > 1 /\ s[k - 1].kind = "tick" /\ s[k - 1].column = s[k].column - 1
        /\ s[k].column = 3 /\ k < Len(s) => s[k + 1] = Newline
        /\ s[k].column # 3 => k < Len(s) /\ s[k + 1].kind = "tick" /\ s[k + 1].column = s[k].column + 1
    BY <1>6, <2>1 DEF Neat
  <2>5. ASSUME s[k].column # 3
        PROVE  k # b
    <3> SUFFICES ASSUME k = b
                 PROVE  FALSE
      OBVIOUS
    <3>1. k + 1 \in (b + 1)..Len(s)
      BY <1>0, <2>1, <2>4, <2>5
    <3>2. ~Shows(s[k + 1])
      BY <3>1
    <3> QED
      BY <2>4, <2>5, <3>2, ShowsTicks
  <2>6. ASSUME s[k].column # 1
        PROVE  k # a
    <3> SUFFICES ASSUME k = a
                 PROVE  FALSE
      OBVIOUS
    <3>1. k - 1 \in 1..(a - 1)
      BY <1>0, <2>1, <2>4, <2>6
    <3>2. ~Shows(s[k - 1])
      BY <3>1
    <3> QED
      BY <2>4, <2>6, <3>2, ShowsTicks
  <2> QED
    BY <2>1, <2>2, <2>3, <2>4, <2>5, <2>6
<1> QED
  BY <1>4, <1>5, <1>6 DEF Sound, t

\* A part of a text without backticks, cut beside the pairs.
LEMMA CutWhole ==
    ASSUME NEW s \in Text, NEW a \in 1..(Len(s) + 1), NEW b \in (a - 1)..Len(s), Whole(s),
           a = Len(s) + 1 \/ s[a].kind # "low", b = 0 \/ s[b].kind # "high"
    PROVE  Whole(SubSeq(s, a, b))
<1> DEFINE t == SubSeq(s, a, b)
           m == b - a + 1
<1>0. Len(s) \in Nat /\ s \in Seq(Chars) /\ m \in Nat
  BY LenProperties DEF Text
<1>1. t \in Seq(Chars) /\ Len(t) = m /\ \A i \in 1..m : t[i] = s[a + i - 1]
  BY <1>0, PartIs
<1> HIDE DEF t
<1> SUFFICES ASSUME NEW i \in 1..m
             PROVE  /\ t[i].kind = "high" => i < m /\ t[i + 1].kind = "low"
                    /\ t[i].kind = "low" => i > 1 /\ t[i - 1].kind = "high"
  BY <1>1 DEF Whole, t
<1> DEFINE k == a + i - 1
<1>2. k \in 1..Len(s) /\ t[i] = s[k] /\ k \in a..b
  BY <1>0, <1>1
<1>3. (i < m => t[i + 1] = s[k + 1]) /\ (i > 1 => t[i - 1] = s[k - 1])
  <2>1. (i < m => i + 1 \in 1..m /\ a + (i + 1) - 1 = k + 1) /\ (i > 1 => i - 1 \in 1..m /\ a + (i - 1) - 1 = k - 1)
    BY <1>0
  <2> HIDE DEF k, m
  <2> QED
    BY <1>1, <2>1
<1>4. (i < m \/ k = b) /\ (i > 1 \/ k = a) /\ b # 0 /\ a # Len(s) + 1
  BY <1>0
<1> HIDE DEF k, m
<1>5. /\ s[k].kind = "high" => k < Len(s) /\ s[k + 1].kind = "low"
      /\ s[k].kind = "low" => k > 1 /\ s[k - 1].kind = "high"
  BY <1>2 DEF Whole
<1> QED
  BY <1>2, <1>3, <1>4, <1>5

\* A cut moved off a pair.
LEMMA SafeCut ==
    ASSUME NEW s \in Text, Whole(s), NEW n \in 1..Len(s)
    PROVE  LET r == SafeCutIndex(s, n)
           IN  /\ r \in 1..Len(s) /\ s[r].kind # "high"
               /\ r < Len(s) => s[r + 1].kind # "low"
               /\ r = n \/ (r = n - 1 /\ n < Len(s)) \/ (n = 1 /\ r = 2)
<1> DEFINE r == SafeCutIndex(s, n)
<1>0. Len(s) \in Nat
  BY LenProperties DEF Text
<1>1. \A j \in 1..Len(s) :
        /\ s[j].kind = "high" => j < Len(s) /\ s[j + 1].kind = "low"
        /\ s[j].kind = "low" => j > 1 /\ s[j - 1].kind = "high"
  BY DEF Whole
<1>2. ASSUME n < Len(s), s[n].kind = "high", s[n + 1].kind = "low"
      PROVE  r = IF n > 1 THEN n - 1 ELSE n + 1
  BY <1>2 DEF SafeCutIndex
<1>3. ASSUME ~(n < Len(s) /\ s[n].kind = "high" /\ s[n + 1].kind = "low")
      PROVE  r = n
  BY <1>3 DEF SafeCutIndex
<1> HIDE DEF r
<1>4. r \in 1..Len(s) /\ (r = n \/ (r = n - 1 /\ n < Len(s)) \/ (n = 1 /\ r = 2)) /\ s[r].kind # "high"
  BY <1>0, <1>1, <1>2, <1>3
<1>5. ASSUME r < Len(s)
      PROVE  s[r + 1].kind # "low"
  <2>1. r + 1 \in 1..Len(s) /\ (r + 1) - 1 = r
    BY <1>0, <1>4, <1>5
  <2> QED
    BY <1>1, <1>4, <2>1
<1> QED
  BY <1>4, <1>5 DEF r

-----------------------------------------------------------------------------
(***************************************************************************)
(* What is seen of several texts.                                          *)
(***************************************************************************)
\* What is seen of several texts in turn.
Bodies(texts) == Body(FlattenSeq(texts))

\* What is seen of two texts in turn.
LEMMA BodyLaws ==
    /\ Body(<<>>) = <<>>
    /\ \A s \in Text : Body(s) \in Text
    /\ \A s, t \in Text : Body(s \o t) = Body(s) \o Body(t)
<1>1. \A s \in Text : Body(s) \in Text
  BY SelIsSeq DEF Body, Text
<1>2. Body(<<>>) = <<>>
  BY SelNone DEF Body
<1>3. ASSUME NEW s \in Text, NEW t \in Text
      PROVE  Body(s \o t) = Body(s) \o Body(t)
  <2>1. s \in Seq(Chars) /\ t \in Seq(Chars)
    BY DEF Text
  <2> QED
    BY <2>1, SelConcat DEF Body
<1> QED
  BY <1>1, <1>2, <1>3

\* What is seen of several texts in turn.
LEMMA BodiesLaws ==
    /\ Bodies(<<>>) = <<>>
    /\ \A u \in Seq(Text) : Bodies(u) \in Text
    /\ \A u, v \in Seq(Text) : Bodies(u \o v) = Bodies(u) \o Bodies(v)
    /\ \A x \in Text : <<x>> \in Seq(Text) /\ Bodies(<<x>>) = Body(x)
    /\ \A u \in Seq(Text), x \in Text : Bodies(Append(u, x)) = Bodies(u) \o Body(x)
<1>1. FlattenSeq(<<>>) = <<>> /\ \A u \in Seq(Text) : FlattenSeq(u) \in Text
  BY FlattenLaws DEF Text
<1>2. ASSUME NEW u \in Seq(Text), NEW v \in Seq(Text)
      PROVE  Bodies(u \o v) = Bodies(u) \o Bodies(v)
  <2>1. FlattenSeq(u \o v) = FlattenSeq(u) \o FlattenSeq(v)
    BY FlattenConcat DEF Text
  <2> QED
    BY <1>1, <2>1, BodyLaws DEF Bodies
<1>3. ASSUME NEW u \in Seq(Text), NEW x \in Text
      PROVE  Bodies(Append(u, x)) = Bodies(u) \o Body(x)
  <2>1. FlattenSeq(Append(u, x)) = FlattenSeq(u) \o x
    BY FlattenLaws DEF Text
  <2> QED
    BY <1>1, <2>1, BodyLaws DEF Bodies
<1>4. ASSUME NEW x \in Text
      PROVE  <<x>> \in Seq(Text) /\ Bodies(<<x>>) = Body(x)
  <2>1. FlattenSeq(<<x>>) = x
    BY FlattenOne DEF Text
  <2>2. <<x>> \in Seq(Text)
    BY LinesAre
  <2> QED
    BY <2>1, <2>2 DEF Bodies
<1> QED
  BY <1>1, <1>2, <1>3, <1>4, BodyLaws DEF Bodies

\* A text of which nothing shows has no body.
LEMMA BlankBody ==
    ASSUME NEW s \in Text, IsBlank(s)
    PROVE  Body(s) = <<>>
<1>1. s \in Seq(Chars) /\ DOMAIN s = 1..Len(s)
  BY LenProperties DEF Text
<1>2. \A i \in 1..Len(s) : s[i] \notin Plain
  BY <1>1 DEF IsBlank, Plain
<1> QED
  BY <1>1, <1>2, SelNothing DEF Body

-----------------------------------------------------------------------------
(***************************************************************************)
(* A long paragraph is cut at the ends of sentences, or at the limit.      *)
(***************************************************************************)
\* Where SplitLongParagraph cuts a text, what it cuts off and what is left.
CutEnd(s) == Max({SafeCutIndex(s, SentenceEnd(s)), 1})
HeadOf(s) == TrimEnd(SubSeq(s, 1, CutEnd(s)))
TailOf(s) == TrimStart(SubSeq(s, CutEnd(s) + 1, Len(s)))

\* The limit leaves room for the backticks, their newlines and a pair.
LEMMA LimitIs == MaxLen \in Nat /\ MaxLen > 9
<1>1. Len(TickKinds) = 3
  BY DEF TickKinds
<1> QED
  BY <1>1, ChunkerAssumption

\* It cuts within the limit, and beside the pairs.
LEMMA CutEndIs ==
    ASSUME NEW s \in Text, Len(s) > MaxLen
    PROVE  /\ CutEnd(s) \in 1..MaxLen /\ CutEnd(s) \in 1..(Len(s) - 1)
           /\ Whole(s) => s[CutEnd(s)].kind # "high" /\ s[CutEnd(s) + 1].kind # "low"
<1> DEFINE n == SentenceEnd(s)
           r == SafeCutIndex(s, n)
<1>0. Len(s) \in Nat /\ MaxLen \in Nat /\ MaxLen > 9
  BY LimitIs, LenProperties DEF Text
<1>1. n \in 2..MaxLen
  <2> DEFINE ends == {i \in 2..(MaxLen - 1) : s[i].kind = "dot" /\ s[i + 1].kind = "space"}
  <2>1. ends # {} => Max(ends) \in ends
    <3>1. ends \in SUBSET (1..MaxLen)
      BY <1>0
    <3> HIDE DEF ends
    <3> QED
      BY <1>0, <3>1, EndsOfPlaces
  <2>2. n = IF ends = {} THEN MaxLen ELSE Max(ends)
    BY DEF SentenceEnd
  <2>3. \A i \in ends : i \in 2..MaxLen
    BY <1>0
  <2> HIDE DEF ends
  <2> QED
    BY <1>0, <2>1, <2>2, <2>3
<1> HIDE DEF n
<1>2. r = n \/ r = n - 1
  BY <1>0, <1>1 DEF SafeCutIndex
<1>3. Whole(s) => s[r].kind # "high" /\ (r < Len(s) => s[r + 1].kind # "low")
  <2>1. n \in 1..Len(s)
    BY <1>0, <1>1
  <2> QED
    BY <2>1, SafeCut
<1> HIDE DEF r
<1>4. Max({r, 1}) = r /\ r \in 1..MaxLen /\ r \in 1..(Len(s) - 1) /\ r < Len(s)
  <2>1. r \in Int /\ r >= 1 /\ r <= MaxLen /\ r <= Len(s) - 1
    BY <1>0, <1>1, <1>2
  <2> QED
    BY <1>0, <2>1, LargerOfTwo
<1>5. CutEnd(s) = r
  BY <1>4 DEF CutEnd, n, r
<1> QED
  BY <1>3, <1>4, <1>5

\* Where a long text is cut: a beginning within the limit, and a rest of fewer characters.
LEMMA CutText ==
    ASSUME NEW S \in SUBSET Chars, NEW s \in Seq(S), Len(s) > MaxLen
    PROVE  /\ HeadOf(s) \in Seq(S) /\ TailOf(s) \in Seq(S)
           /\ Len(TailOf(s)) \in 0..(Len(s) - 1)
           /\ TailOf(s) = SubSeq(s, Len(s) - Len(TailOf(s)) + 1, Len(s))
           /\ TailOf(s) = <<>> \/ Shows(TailOf(s)[1])
           /\ Whole(s) /\ NoTicks(s) => Whole(TailOf(s)) /\ NoTicks(TailOf(s))
           /\ Whole(s) /\ NoTicks(s) /\ Shows(s[1]) =>
                /\ Whole(HeadOf(s)) /\ NoTicks(HeadOf(s)) /\ HeadOf(s) # <<>>
                /\ HeadOf(s)[1] = s[1] /\ Len(HeadOf(s)) <= MaxLen
                /\ Body(s) = Body(HeadOf(s)) \o Body(TailOf(s))
<1> DEFINE n == Len(s)
           e == CutEnd(s)
           h == SubSeq(s, 1, e)
           t == SubSeq(s, e + 1, n)
<1>0. s \in Text /\ n \in Nat /\ Seq(S) \in SUBSET Text /\ MaxLen \in Nat
  BY TextOf, LenProperties, LimitIs
<1>1. e \in 1..MaxLen /\ e \in 1..(n - 1) /\ (Whole(s) => s[e].kind # "high" /\ s[e + 1].kind # "low")
  BY <1>0, CutEndIs
<1> HIDE DEF n, e
<1>2. /\ 1 \in 1..(n + 1) /\ e \in (1 - 1)..n /\ e + 1 \in 1..(n + 1) /\ n \in ((e + 1) - 1)..n
      /\ e - 1 + 1 = e /\ n - (e + 1) + 1 = n - e
  BY <1>0, <1>1
<1>3. h \in Seq(S) /\ Len(h) = e /\ \A i \in 1..e : h[i] = s[i]
  <2>1. h \in Seq(S) /\ Len(h) = e - 1 + 1 /\ \A i \in 1..(e - 1 + 1) : h[i] = s[1 + i - 1]
    BY <1>2, PartIs DEF n
  <2>2. \A i \in 1..e : 1 + i - 1 = i
    BY <1>1
  <2> QED
    BY <1>2, <2>1, <2>2
<1>4. t \in Seq(S) /\ Len(t) = n - e /\ \A i \in 1..(n - e) : t[i] = s[e + 1 + i - 1]
  <2> DEFINE x == e + 1
  <2>1. x \in 1..(Len(s) + 1) /\ n \in (x - 1)..Len(s) /\ n - x + 1 = n - e
    BY <1>0, <1>1, <1>2 DEF n
  <2> HIDE DEF x, n
  <2>2. SubSeq(s, x, n) \in Seq(S) /\ Len(SubSeq(s, x, n)) = n - x + 1
        /\ \A i \in 1..(n - x + 1) : SubSeq(s, x, n)[i] = s[x + i - 1]
    BY <2>1, PartIs
  <2> QED
    BY <2>1, <2>2 DEF x
<1>5. h \in Text /\ t \in Text
  BY <1>0, <1>3, <1>4
<1>6. s = h \o t
  <2>1. SubSeq(s, 1, e) \o SubSeq(s, e + 1, n) = s
    <3>1. s = (SubSeq(s, 1, 1 - 1) \o SubSeq(s, 1, e)) \o SubSeq(s, e + 1, n)
      BY <1>2, CutInThree DEF n
    <3>2. SubSeq(s, 1, 1 - 1) = <<>>
      <4>1. 1 - 1 \in (1 - 1)..n /\ (1 - 1) - 1 + 1 = 0
        BY <1>0
      <4>2. SubSeq(s, 1, 1 - 1) \in Seq(S) /\ Len(SubSeq(s, 1, 1 - 1)) = 0
        BY <1>2, <4>1, PartIs DEF n
      <4> QED
        BY <4>2, EmptySeq
    <3>3. <<>> \o h = h
      <4> HIDE DEF h
      <4> QED
        BY <1>3, ConcatEmptySeq
    <3> QED
      BY <3>1, <3>2, <3>3
  <2> QED
    BY <2>1
<1>7. /\ HeadOf(s) = TrimEnd(h) /\ TailOf(s) = TrimStart(t)
  BY DEF HeadOf, TailOf, h, t, e, n
<1> HIDE DEF h, t
<1>8. TrimEnd(h) \in Seq(S)
  <2>1. CASE IsBlank(h)
    BY <1>5, <2>1, TrimEndIs, EmptySeq
  <2>2. CASE ~IsBlank(h)
    <3>1. PICK b \in 1..Len(h) : TrimEnd(h) = SubSeq(h, 1, b)
      BY <1>5, <2>2, TrimEndIs
    <3>2. 1 \in 1..(Len(h) + 1) /\ b \in (1 - 1)..Len(h)
      BY <1>1, <1>3
    <3> QED
      BY <1>3, <3>1, <3>2, PartIs
  <2> QED
    BY <2>1, <2>2
<1> DEFINE r == TrimStart(t)
<1>9. /\ r \in Seq(S) /\ Len(r) \in 0..(n - 1) /\ r = SubSeq(s, n - Len(r) + 1, n)
      /\ r = <<>> \/ Shows(r[1])
      /\ Body(r) = Body(t)
      /\ Whole(t) /\ NoTicks(t) => Whole(r) /\ NoTicks(r)
  <2>1. CASE IsBlank(t)
    <3> DEFINE q == <<>>
    <3>1. r = q
      BY <1>5, <2>1, TrimStartIs
    <3>2. q \in Seq(S) /\ Len(q) = 0 /\ Body(q) = <<>> /\ Body(t) = <<>> /\ Whole(q) /\ NoTicks(q) /\ q = <<>>
      BY <1>5, <2>1, EmptySeq, BlankBody, BodyLaws DEF Whole, NoTicks
    <3> HIDE DEF r, q
    <3>3. 0 \in 0..(n - 1) /\ n - 0 + 1 = n + 1
      BY <1>0, <1>1
    <3>4. q = SubSeq(s, n + 1, n)
      <4>1. n + 1 \in 1..(n + 1) /\ n \in ((n + 1) - 1)..n /\ n - (n + 1) + 1 = 0
        BY <1>0
      <4>2. SubSeq(s, n + 1, n) \in Seq(S) /\ Len(SubSeq(s, n + 1, n)) = 0
        BY <4>1, PartIs DEF n
      <4> QED
        BY <3>2, <4>2, EmptySeq
    <3> QED
      BY <3>1, <3>2, <3>3, <3>4
  <2>2. CASE ~IsBlank(t)
    <3>1. PICK a \in 1..Len(t) :
             /\ r = SubSeq(t, a, Len(t)) /\ Shows(t[a])
             /\ \A i \in 1..(a - 1) : ~Shows(t[i])
      BY <1>5, <2>2, TrimStartIs
    <3> HIDE DEF r
    <3>2. a \in 1..(n - e) /\ a \in 1..(Len(t) + 1) /\ Len(t) \in (a - 1)..Len(t) /\ Len(t) \in a..Len(t)
      BY <1>0, <1>1, <1>4
    <3>3. r \in Seq(S) /\ Len(r) = Len(t) - a + 1 /\ \A i \in 1..(Len(t) - a + 1) : r[i] = t[a + i - 1]
      <4> DEFINE y == Len(t)
      <4>1. t \in Seq(S) /\ y \in (a - 1)..Len(t) /\ a \in 1..(Len(t) + 1) /\ r = SubSeq(t, a, y)
        BY <1>4, <3>1, <3>2
      <4> HIDE DEF y
      <4>2. r \in Seq(S) /\ Len(r) = y - a + 1 /\ \A i \in 1..(y - a + 1) : r[i] = t[a + i - 1]
        BY <4>1, PartIs
      <4> QED
        BY <4>2 DEF y
    <3>4. Len(r) \in 0..(n - 1) /\ Len(r) \in Nat /\ Len(r) # 0 /\ r[1] = t[a]
      BY <1>0, <1>1, <1>4, <3>2, <3>3
    <3>5. r = SubSeq(s, n - Len(r) + 1, n)
      <4>1. a \in 1..(n - (e + 1) + 2) /\ n - e \in (a - 1)..(n - (e + 1) + 1)
        BY <1>0, <1>1, <3>2
      <4>2. SubSeq(SubSeq(s, e + 1, n), a, n - e) = SubSeq(s, e + 1 + a - 1, e + 1 + (n - e) - 1)
        BY <1>2, <4>1, PartOfPart DEF n
      <4>3. e + 1 + a - 1 = n - Len(r) + 1 /\ e + 1 + (n - e) - 1 = n
        BY <1>0, <1>1, <1>4, <3>2, <3>3
      <4> QED
        BY <1>4, <3>1, <4>2, <4>3 DEF t
    <3>6. Body(r) = Body(t) /\ (Sound(t) => Sound(r))
      <4>1. \A i \in (Len(t) + 1)..Len(t) : ~Shows(t[i])
        BY <1>0, <1>1, <1>4
      <4> QED
        BY <1>5, <3>1, <3>2, <4>1, PartSound
    <3>7. NoTicks(t) => NoTicks(r)
      <4>1. \A i \in 1..Len(r) : a + i - 1 \in 1..Len(t)
        BY <1>0, <1>1, <1>4, <3>2, <3>3
      <4> QED
        BY <3>3, <4>1 DEF NoTicks
    <3>8. NoTicks(t) => Neat(t)
      BY DEF NoTicks, Neat
    <3> QED
      BY <3>1, <3>3, <3>4, <3>5, <3>6, <3>7, <3>8 DEF Sound
  <2> QED
    BY <2>1, <2>2
<1>10. ASSUME Whole(s), NoTicks(s)
       PROVE  Whole(h) /\ NoTicks(h) /\ Whole(t) /\ NoTicks(t)
  <2>1. Whole(h)
    <3>1. 1 = Len(s) + 1 \/ s[1].kind # "low"
      <4>1. 1 \in 1..Len(s)
        BY <1>0, <1>1 DEF n
      <4> QED
        BY <1>10, <4>1 DEF Whole
    <3> QED
      BY <1>0, <1>1, <1>2, <1>10, <3>1, CutWhole DEF h, n
  <2>2. Whole(t)
    <3>1. n = 0 \/ s[n].kind # "high"
      <4>1. n # 0 => n \in 1..Len(s) /\ ~(n < Len(s))
        BY <1>0 DEF n
      <4> QED
        BY <1>10, <4>1 DEF Whole
    <3> QED
      BY <1>0, <1>1, <1>2, <1>10, <3>1, CutWhole DEF t, n
  <2>3. NoTicks(h)
    <3>1. \A i \in 1..e : i \in 1..Len(s)
      BY <1>0, <1>1 DEF n
    <3> QED
      BY <1>3, <1>10, <3>1 DEF NoTicks
  <2>4. NoTicks(t)
    <3>1. \A i \in 1..(n - e) : e + 1 + i - 1 \in 1..Len(s)
      BY <1>0, <1>1 DEF n
    <3> QED
      BY <1>4, <1>10, <3>1 DEF NoTicks
  <2> QED
    BY <2>1, <2>2, <2>3, <2>4
<1> DEFINE l == TrimEnd(h)
<1>11. ASSUME Whole(s), NoTicks(s), Shows(s[1])
       PROVE  /\ Whole(l) /\ NoTicks(l) /\ l # <<>>
              /\ l[1] = s[1] /\ Len(l) <= MaxLen /\ Body(l) = Body(h)
  <2>1. ~IsBlank(h)
    <3>1. 1 \in DOMAIN h /\ h[1] = s[1]
      BY <1>1, <1>3, LenProperties
    <3> QED
      BY <1>11, <3>1 DEF IsBlank
  <2>2. PICK b \in 1..Len(h) : l = SubSeq(h, 1, b) /\ \A i \in (b + 1)..Len(h) : ~Shows(h[i])
    BY <1>5, <2>1, TrimEndIs
  <2> HIDE DEF l
  <2>3. 1 \in 1..(Len(h) + 1) /\ b \in (1 - 1)..Len(h) /\ 1 \in 1..Len(h) /\ b \in 1..Len(h) /\ b - 1 + 1 = b
    BY <1>1, <1>3
  <2>4. Len(l) = b /\ \A i \in 1..b : l[i] = h[i]
    <3>1. Len(l) = b - 1 + 1 /\ \A i \in 1..(b - 1 + 1) : l[i] = h[1 + i - 1]
      BY <1>3, <2>2, <2>3, PartIs
    <3>2. \A i \in 1..b : 1 + i - 1 = i
      BY <2>3
    <3> QED
      BY <2>3, <3>1, <3>2
  <2>5. Body(l) = Body(h) /\ (Sound(h) => Sound(l))
    <3>1. \A i \in 1..(1 - 1) : ~Shows(h[i])
      OBVIOUS
    <3> QED
      BY <1>5, <2>2, <2>3, <3>1, PartSound
  <2>6. Sound(h)
    BY <1>10, <1>11 DEF NoTicks, Neat, Sound
  <2>7. NoTicks(l)
    BY <1>10, <1>11, <1>3, <1>1, <2>3, <2>4 DEF NoTicks
  <2>8. l[1] = s[1]
    BY <1>1, <1>3, <2>3, <2>4
  <2>9. l # <<>> /\ Len(l) <= MaxLen
    BY <1>0, <1>1, <1>3, <2>3, <2>4, EmptySeq
  <2> QED
    BY <2>5, <2>6, <2>7, <2>8, <2>9 DEF Sound
<1>12. Body(s) = Body(h) \o Body(t)
  BY <1>5, <1>6, BodyLaws
<1> QED
  BY <1>7, <1>8, <1>9, <1>10, <1>11, <1>12 DEF n

\* The characters of a document, which know their line, and white space.
Own == {c \in Chars : Shows(c) => c.line # 0}

\* What a chunk is made of.
Piece(S) ==
    {s \in Seq(S) : Sound(s) /\ s # <<>> /\ Shows(s[1]) /\ s[1].line # 0 /\ Len(s) <= MaxLen}

\* The last characters of p.
RestOf(p, left) == SubSeq(p, Len(p) - left + 1, Len(p))

\* f is the function that SplitLongParagraph applies to the length of p.
LongCuts(p, f) ==
    f = [left \in 0..Len(p) |->
            IF left <= MaxLen THEN (IF RestOf(p, left) = <<>> THEN <<>> ELSE <<RestOf(p, left)>>)
            ELSE <<HeadOf(RestOf(p, left))>>
                   \o f[Len(TrimStart(SubSeq(RestOf(p, left), CutEnd(RestOf(p, left)) + 1, left)))]]

\* The recursion, opened once.
LEMMA LongUnfolds == \A p : SplitLongParagraph(p) = (CHOOSE f : LongCuts(p, f))[Len(p)]
BY DEF SplitLongParagraph, LongCuts, HeadOf, CutEnd, RestOf

\* What the rest of a paragraph begins with once it is trimmed.
Fresh(s) == Whole(s) /\ NoTicks(s) /\ (s = <<>> \/ Shows(s[1]))

\* What is left to cut is the end of p.
LEMMA RestIs ==
    ASSUME NEW S, NEW p \in Seq(S), NEW left \in 0..Len(p)
    PROVE  /\ RestOf(p, left) \in Seq(S) /\ Len(RestOf(p, left)) = left
           /\ \A k \in 0..left : SubSeq(RestOf(p, left), left - k + 1, left) = RestOf(p, k)
<1> DEFINE n == Len(p)
           a == n - left + 1
<1>1. n \in Nat /\ left \in Nat /\ a \in 1..(n + 1) /\ n \in (a - 1)..n /\ n - a + 1 = left
  BY LenProperties
<1>2. SubSeq(p, a, n) \in Seq(S) /\ Len(SubSeq(p, a, n)) = n - a + 1
  <2> HIDE DEF a
  <2> QED
    BY <1>1, PartIs
<1>3. ASSUME NEW k \in 0..left
      PROVE  SubSeq(RestOf(p, left), left - k + 1, left) = RestOf(p, k)
  <2> DEFINE c == left - k + 1
             d == left
  <2>1. c \in 1..(n - a + 2) /\ d \in (c - 1)..(n - a + 1) /\ a + c - 1 = n - k + 1 /\ a + d - 1 = n
    BY <1>1
  <2> HIDE DEF c, d, a
  <2>2. SubSeq(SubSeq(p, a, n), c, d) = SubSeq(p, a + c - 1, a + d - 1)
    BY <1>1, <2>1, PartOfPart
  <2> QED
    BY <2>1, <2>2 DEF RestOf, c, d, a
<1> QED
  BY <1>1, <1>2, <1>3 DEF RestOf

\* splitLongParagraph (chunker.ts:117) cuts a paragraph without fences, of any
\* length, into pieces within the limit that break no surrogate pair and together
\* show what the paragraph shows.
THEOREM LongParagraph ==
    ASSUME NEW S \in SUBSET Own, NEW p \in Seq(S), Fresh(p)
    PROVE  LET out == SplitLongParagraph(p)
           IN  /\ out \in Seq({t \in Piece(S) : NoTicks(t)})
               /\ Bodies(out) = Body(p)
<1> DEFINE n == Len(p)
           D == 0..n
           stop == {left \in D : left <= MaxLen}
           rest(left) == RestOf(p, left)
           out == [left \in D |-> IF left \in stop
                                  THEN IF rest(left) = <<>> THEN <<>> ELSE <<rest(left)>>
                                  ELSE <<HeadOf(rest(left))>>]
           next == [left \in D |-> IF left \in stop THEN left ELSE Len(TailOf(rest(left)))]
           rank == [left \in D |-> left]
           T == {t \in Piece(S) : NoTicks(t)}
           X == Seq(S)
<1>0. n \in Nat /\ S \in SUBSET Chars /\ MaxLen \in Nat /\ MaxLen > 9 /\ Seq(S) \in SUBSET Text
  <2>1. S \in SUBSET Chars
    BY DEF Own
  <2> QED
    BY <2>1, LimitIs, LenProperties, TextOf
<1>1. ASSUME NEW left \in D
      PROVE  rest(left) \in Seq(S) /\ Len(rest(left)) = left /\ left \in Nat
  BY <1>0, RestIs
<1>2. ASSUME NEW left \in D, left \notin stop
      PROVE  /\ HeadOf(rest(left)) \in Seq(S)
             /\ Len(TailOf(rest(left))) \in 0..(left - 1)
             /\ TailOf(rest(left)) = rest(Len(TailOf(rest(left))))
             /\ Fresh(rest(left)) =>
                  /\ Fresh(TailOf(rest(left)))
                  /\ HeadOf(rest(left)) \in T
                  /\ Body(rest(left)) = Body(HeadOf(rest(left))) \o Body(TailOf(rest(left)))
  <2> DEFINE s == rest(left)
             k == Len(TailOf(s))
  <2>1. s \in Seq(S) /\ Len(s) = left /\ left > MaxLen /\ left \in Nat
    BY <1>0, <1>1, <1>2
  <2> HIDE DEF s
  <2>2. /\ HeadOf(s) \in Seq(S) /\ TailOf(s) \in Seq(S)
        /\ k \in 0..(left - 1)
        /\ TailOf(s) = SubSeq(s, left - k + 1, left)
        /\ TailOf(s) = <<>> \/ Shows(TailOf(s)[1])
        /\ Whole(s) /\ NoTicks(s) => Whole(TailOf(s)) /\ NoTicks(TailOf(s))
        /\ Whole(s) /\ NoTicks(s) /\ Shows(s[1]) =>
             /\ Whole(HeadOf(s)) /\ NoTicks(HeadOf(s)) /\ HeadOf(s) # <<>>
             /\ HeadOf(s)[1] = s[1] /\ Len(HeadOf(s)) <= MaxLen
             /\ Body(s) = Body(HeadOf(s)) \o Body(TailOf(s))
    BY <1>0, <2>1, CutText
  <2>3. TailOf(s) = rest(k)
    <3>1. k \in 0..left
      BY <2>1, <2>2
    <3> HIDE DEF k
    <3>2. SubSeq(RestOf(p, left), left - k + 1, left) = RestOf(p, k)
      BY <3>1, RestIs
    <3> QED
      BY <2>2, <3>2 DEF s
  <2>4. ASSUME Fresh(s)
        PROVE  /\ Fresh(TailOf(s)) /\ HeadOf(s) \in T
               /\ Body(s) = Body(HeadOf(s)) \o Body(TailOf(s))
    <3>1. s # <<>> /\ 1 \in 1..Len(s)
      BY <1>0, <2>1, EmptySeq
    <3>2. Shows(s[1]) /\ Whole(s) /\ NoTicks(s)
      BY <2>4, <3>1 DEF Fresh
    <3>3. s[1] \in Own
      BY <2>1, <3>1, ElementOfSeq
    <3>4. s[1].line # 0
      BY <3>2, <3>3 DEF Own
    <3>5. Sound(HeadOf(s))
      BY <2>2, <3>2 DEF Sound, NoTicks, Neat
    <3>6. HeadOf(s) \in T
      BY <2>2, <3>2, <3>4, <3>5 DEF Piece
    <3> QED
      BY <2>2, <3>2, <3>6 DEF Fresh
  <2> HIDE DEF T
  <2> QED
    BY <2>2, <2>3, <2>4 DEF s
<1>3. out \in [D -> Seq(X)] /\ next \in [D -> D] /\ rank \in [D -> Nat] /\ n + 1 \in Nat
      /\ (\A d \in D : rank[d] < n + 1) /\ \A d \in D : d \notin stop => rank[next[d]] < rank[d]
  <2>1. ASSUME NEW left \in D
        PROVE  (IF left \in stop
                THEN IF rest(left) = <<>> THEN <<>> ELSE <<rest(left)>>
                ELSE <<HeadOf(rest(left))>>) \in Seq(X)
    <3>1. \A x \in X : <<x>> \in Seq(X)
      <4> HIDE DEF X
      <4> QED
        OBVIOUS
    <3>2. rest(left) \in X /\ (left \notin stop => HeadOf(rest(left)) \in X) /\ <<>> \in Seq(X)
      BY <1>1, <1>2, EmptySeq
    <3> HIDE DEF X, stop
    <3> QED
      BY <3>1, <3>2
  <2>2. out \in [D -> Seq(X)]
    <3> HIDE DEF D, X, stop
    <3> QED
      BY <2>1
  <2>3. ASSUME NEW left \in D, left \notin stop
        PROVE  Len(TailOf(rest(left))) \in D /\ Len(TailOf(rest(left))) < left
    <3> DEFINE k == Len(TailOf(rest(left)))
    <3>1. k \in 0..(left - 1)
      BY <1>2, <2>3
    <3> HIDE DEF k
    <3>2. k \in D /\ k < left
      BY <1>0, <3>1
    <3> QED
      BY <3>2 DEF k
  <2>4. next \in [D -> D]
    <3> HIDE DEF D, stop
    <3> QED
      BY <2>3
  <2>5. \A d \in D : d \notin stop => next[d] \in D /\ next[d] < d
    <3> HIDE DEF D, stop
    <3> QED
      BY <2>3
  <2>6. rank \in [D -> Nat] /\ n + 1 \in Nat /\ \A d \in D : rank[d] < n + 1 /\ rank[d] = d
    BY <1>0
  <2> HIDE DEF rank, next, stop, D
  <2> QED
    BY <2>2, <2>4, <2>5, <2>6
<1>4. \E f \in [D -> Seq(X)] : Unfolds(D, stop, out, next, f)
  <2> HIDE DEF D, X, stop, out, next, rank, n
  <2> DEFINE N == n + 1
  <2>1. N \in Nat /\ \A d \in D : rank[d] < N
    BY <1>3
  <2> HIDE DEF N
  <2> QED
    BY <1>3, <2>1, UnfoldsExist
<1>5. ASSUME NEW f, f = [left \in D |-> f[left]]
      PROVE  Unfolds(D, stop, out, next, f) <=> LongCuts(p, f)
  <2>1. ASSUME NEW left \in D
        PROVE  (IF left \in stop THEN out[left] ELSE out[left] \o f[next[left]])
               = IF left <= MaxLen THEN (IF RestOf(p, left) = <<>> THEN <<>> ELSE <<RestOf(p, left)>>)
                 ELSE <<HeadOf(RestOf(p, left))>>
                   \o f[Len(TrimStart(SubSeq(RestOf(p, left), CutEnd(RestOf(p, left)) + 1, left)))]
    <3>1. left \in stop <=> left <= MaxLen
      OBVIOUS
    <3>2. left \notin stop => next[left] = Len(TrimStart(SubSeq(RestOf(p, left), CutEnd(RestOf(p, left)) + 1, left)))
      <4>1. left \notin stop => next[left] = Len(TailOf(rest(left)))
        OBVIOUS
      <4>2. Len(rest(left)) = left
        BY <1>1
      <4> QED
        BY <4>1, <4>2 DEF TailOf
    <3>3. out[left] = IF left \in stop
                      THEN IF rest(left) = <<>> THEN <<>> ELSE <<rest(left)>>
                      ELSE <<HeadOf(rest(left))>>
      OBVIOUS
    <3> HIDE DEF stop, next, out
    <3> QED
      BY <3>1, <3>2, <3>3
  <2> DEFINE g(left) == IF left <= MaxLen THEN (IF RestOf(p, left) = <<>> THEN <<>> ELSE <<RestOf(p, left)>>)
                 ELSE <<HeadOf(RestOf(p, left))>>
                   \o f[Len(TrimStart(SubSeq(RestOf(p, left), CutEnd(RestOf(p, left)) + 1, left)))]
  <2>2. Unfolds(D, stop, out, next, f) <=> \A left \in D : f[left] = g(left)
    <3> HIDE DEF D, stop, out, next, g
    <3>1. \A left \in D : (IF left \in stop THEN out[left] ELSE out[left] \o f[next[left]]) = g(left)
      BY <2>1 DEF g
    <3> QED
      BY <3>1 DEF Unfolds
  <2>3. (\A left \in D : f[left] = g(left)) <=> f = [left \in D |-> g(left)]
    <3> HIDE DEF D, g
    <3>1. (\A left \in D : f[left] = g(left)) => [left \in D |-> f[left]] = [left \in D |-> g(left)]
      OBVIOUS
    <3>2. f = [left \in D |-> g(left)] => \A left \in D : f[left] = g(left)
      OBVIOUS
    <3> QED
      BY <1>5, <3>1, <3>2
  <2>4. LongCuts(p, f) <=> f = [left \in D |-> g(left)]
    BY DEF LongCuts
  <2> QED
    BY <2>2, <2>3, <2>4
<1> DEFINE c == CHOOSE f : LongCuts(p, f)
<1>6. LongCuts(p, c)
  <2>1. PICK f \in [D -> Seq(X)] : Unfolds(D, stop, out, next, f)
    BY <1>4
  <2>2. f = [left \in D |-> f[left]]
    OBVIOUS
  <2>3. LongCuts(p, f)
    <3> HIDE DEF D, stop, out, next
    <3> QED
      BY <1>5, <2>1, <2>2
  <2> QED
    BY <2>3
<1> HIDE DEF c
<1>7. c = [left \in D |-> c[left]]
  BY <1>6 DEF LongCuts
<1>8. Unfolds(D, stop, out, next, c)
  <2> HIDE DEF D, stop, out, next
  <2> QED
    BY <1>5, <1>6, <1>7
<1> DEFINE claim(left) == Fresh(rest(left)) => c[left] \in Seq(T) /\ Bodies(c[left]) = Body(rest(left))
           Good == {m \in Nat : \A left \in D : left < m => claim(left)}
<1>9. ASSUME NEW left \in D, \A k \in D : k < left => claim(k)
      PROVE  claim(left)
  <2> SUFFICES ASSUME Fresh(rest(left))
               PROVE  c[left] \in Seq(T) /\ Bodies(c[left]) = Body(rest(left))
    OBVIOUS
  <2> DEFINE s == rest(left)
  <2>1. s \in Seq(S) /\ Len(s) = left /\ s \in Text
    BY <1>0, <1>1
  <2>2. \A t \in T : t \in Text
    BY <1>0 DEF Piece
  <2>3. CASE left \in stop
    <3>1. c[left] = IF s = <<>> THEN <<>> ELSE <<s>>
      <4>1. out[left] = IF s = <<>> THEN <<>> ELSE <<s>>
        BY <2>3
      <4> HIDE DEF D, stop, out, next
      <4> QED
        BY <1>8, <2>3, <4>1 DEF Unfolds
    <3> HIDE DEF s
    <3>2. CASE s = <<>>
      <4>1. c[left] = <<>> /\ <<>> \in Seq(T)
        BY <3>1, <3>2, EmptySeq
      <4>2. Bodies(<<>>) = <<>> /\ Body(<<>>) = <<>>
        BY BodiesLaws, BodyLaws
      <4> QED
        BY <3>2, <4>1, <4>2 DEF s
    <3>3. CASE s # <<>>
      <4>1. 1 \in 1..Len(s) /\ Shows(s[1]) /\ Sound(s) /\ NoTicks(s) /\ Len(s) <= MaxLen
        <5>1. Fresh(s) /\ left <= MaxLen
          BY <2>3 DEF s
        <5>2. Sound(s) /\ NoTicks(s) /\ Shows(s[1])
          BY <3>3, <5>1 DEF Fresh, Sound, NoTicks, Neat
        <5>3. Len(s) \in Nat /\ Len(s) # 0
          BY <2>1, <3>3, EmptySeq, LenProperties
        <5>4. 1 \in 1..Len(s)
          BY <5>3
        <5> QED
          BY <2>1, <5>1, <5>2, <5>4
      <4>2. s[1] \in Own
        BY <2>1, <4>1, ElementOfSeq
      <4>3. s \in T
        BY <2>1, <3>3, <4>1, <4>2 DEF Piece, Own
      <4>4. c[left] = <<s>>
        BY <3>1, <3>3
      <4>5. <<s>> \in Seq(T)
        <5> HIDE DEF T
        <5> QED
          BY <4>3
      <4>6. Bodies(<<s>>) = Body(s)
        BY <2>1, BodiesLaws
      <4> QED
        BY <4>4, <4>5, <4>6 DEF s
    <3> QED
      BY <3>2, <3>3
  <2>4. CASE left \notin stop
    <3> DEFINE k == Len(TailOf(s))
               h == HeadOf(s)
    <3>1. c[left] = <<h>> \o c[k]
      <4>1. out[left] = <<h>> /\ next[left] = k
        BY <2>4
      <4> HIDE DEF D, stop, out, next, h, k
      <4> QED
        BY <1>8, <2>4, <4>1 DEF Unfolds
    <3>2. /\ k \in 0..(left - 1) /\ TailOf(s) = rest(k)
          /\ Fresh(TailOf(s)) /\ h \in T /\ Body(s) = Body(h) \o Body(TailOf(s))
      <4> HIDE DEF T
      <4> QED
        BY <1>2, <2>4
    <3> HIDE DEF k, h
    <3>3. k \in D /\ k < left
      BY <1>0, <3>2
    <3>4. c[k] \in Seq(T) /\ Bodies(c[k]) = Body(rest(k))
      <4>1. claim(k) /\ Fresh(rest(k))
        BY <1>9, <3>2, <3>3
      <4> QED
        BY <4>1
    <3>5. <<h>> \in Seq(T) /\ <<h>> \o c[k] \in Seq(T)
      <4> DEFINE U == T
      <4>1. h \in U /\ c[k] \in Seq(U)
        BY <3>2, <3>4
      <4> HIDE DEF U
      <4>2. <<h>> \in Seq(U)
        BY <4>1
      <4>3. <<h>> \o c[k] \in Seq(U)
        BY <4>1, <4>2, ConcatProperties
      <4> QED
        BY <4>2, <4>3 DEF U
    <3>6. Seq(T) \in SUBSET Seq(Text) /\ h \in Text
      <4>1. T \in SUBSET Text
        BY <2>2
      <4> HIDE DEF T
      <4>2. Seq(T) \in SUBSET Seq(Text)
        BY <4>1
      <4> QED
        BY <3>2, <4>1, <4>2
    <3>7. Bodies(<<h>> \o c[k]) = Body(h) \o Bodies(c[k])
      <4> HIDE DEF T
      <4>1. <<h>> \in Seq(Text) /\ c[k] \in Seq(Text) /\ Bodies(<<h>>) = Body(h)
        BY <3>4, <3>6, BodiesLaws
      <4> QED
        BY <4>1, BodiesLaws
    <3> HIDE DEF T, s
    <3>8. Bodies(c[left]) = Body(s)
      BY <3>1, <3>2, <3>4, <3>7
    <3> QED
      BY <3>1, <3>5, <3>8 DEF s
  <2> QED
    BY <2>3, <2>4
<1>10. Good = Nat
  <2>1. 0 \in Good
    BY <1>0
  <2>2. ASSUME NEW m \in Good
        PROVE  m + 1 \in Good
    <3> HIDE DEF claim
    <3>1. \A left \in D : left < m => claim(left)
      OBVIOUS
    <3>2. ASSUME NEW left \in D, left < m + 1
          PROVE  claim(left)
      <4>1. \A k \in D : k < left => k < m
        BY <1>0, <3>2
      <4> QED
        BY <1>9, <3>1, <4>1
    <3> QED
      BY <3>2
  <2>3. Good \in SUBSET Nat
    OBVIOUS
  <2> HIDE DEF Good
  <2> QED
    BY <2>1, <2>2, <2>3, NatSetInduction
<1>11. claim(n)
  <2>1. n + 1 \in Good /\ n \in D /\ n < n + 1
    <3>1. n + 1 \in Nat /\ n \in D /\ n < n + 1
      BY <1>0
    <3> HIDE DEF Good
    <3> QED
      BY <1>10, <3>1
  <2> HIDE DEF claim
  <2> QED
    BY <2>1
<1>12. rest(n) = p
  <2>1. n - n + 1 = 1
    BY <1>0
  <2>2. SubSeq(p, 1, Len(p)) = p
    OBVIOUS
  <2> QED
    BY <2>1, <2>2 DEF RestOf
<1>13. SplitLongParagraph(p) = c[n]
  BY LongUnfolds DEF c
<1> HIDE DEF T
<1> QED
  BY <1>11, <1>12, <1>13 DEF T

-----------------------------------------------------------------------------
(***************************************************************************)
(* A long line of a fence is cut where the room ends.                      *)
(***************************************************************************)
\* A part is what comes before a place and what comes after it.
LEMMA PartInTwo ==
    ASSUME NEW S, NEW s \in Seq(S), NEW a \in 1..(Len(s) + 1), NEW b \in (a - 1)..Len(s)
    PROVE  SubSeq(s, a, Len(s)) = SubSeq(s, a, b) \o SubSeq(s, b + 1, Len(s))
<1> DEFINE n == Len(s)
           x == b + 1
           u == SubSeq(s, a, n)
           v == SubSeq(s, a, b)
           w == SubSeq(s, x, n)
<1>0. n \in Nat /\ a \in Nat /\ b \in Nat /\ x \in 1..(n + 1) /\ n \in (x - 1)..n /\ n \in (a - 1)..n /\ a - 1 <= b /\ b <= n
  BY LenProperties
<1> HIDE DEF n, x
<1>1. u \in Seq(S) /\ Len(u) = n - a + 1 /\ \A i \in 1..(n - a + 1) : u[i] = s[a + i - 1]
  BY <1>0, PartIs DEF n
<1>2. v \in Seq(S) /\ Len(v) = b - a + 1 /\ \A i \in 1..(b - a + 1) : v[i] = s[a + i - 1]
  BY <1>0, PartIs DEF n
<1>3. w \in Seq(S) /\ Len(w) = n - x + 1 /\ \A i \in 1..(n - x + 1) : w[i] = s[x + i - 1]
  BY <1>0, PartIs DEF n
<1> HIDE DEF u, v, w
<1> DEFINE j == v \o w
<1>4. j \in Seq(S) /\ Len(j) = Len(v) + Len(w)
      /\ \A i \in 1..(Len(v) + Len(w)) : j[i] = IF i <= Len(v) THEN v[i] ELSE w[i - Len(v)]
  BY <1>2, <1>3, ConcatProperties
<1> HIDE DEF j
<1>5. x = b + 1
  BY DEF x
<1>6. Len(u) = Len(j)
  BY <1>0, <1>1, <1>2, <1>3, <1>4, <1>5
<1>7. ASSUME NEW i \in 1..Len(u)
      PROVE  u[i] = j[i]
  <2>1. i \in 1..(n - a + 1) /\ i \in 1..(Len(v) + Len(w))
    BY <1>1, <1>4, <1>6
  <2>2. CASE i <= Len(v)
    <3>1. i \in 1..(b - a + 1)
      BY <1>0, <1>2, <2>1, <2>2
    <3> QED
      BY <1>1, <1>2, <1>4, <2>1, <2>2, <3>1
  <2>3. CASE ~(i <= Len(v))
    <3> DEFINE k == i - Len(v)
    <3>1. k \in 1..(n - x + 1) /\ x + k - 1 = a + i - 1
      BY <1>0, <1>2, <1>3, <1>5, <2>1, <2>3
    <3> HIDE DEF k
    <3>2. j[i] = w[k] /\ w[k] = s[x + k - 1]
      BY <1>3, <1>4, <2>1, <2>3, <3>1 DEF k
    <3> QED
      BY <1>1, <2>1, <3>1, <3>2
  <2> QED
    BY <2>2, <2>3
<1>8. u = j
  BY <1>1, <1>4, <1>6, <1>7, SeqEqual
<1> QED
  BY <1>8 DEF u, v, w, j, n, x

\* Where HardCuts cuts a line next, and the function it applies to 0.
HardEnd(line, budget, from) ==
    Max({SafeCutIndex(line, Min({from + budget, Len(line)})), from + 1})

HardCutsFrom(line, budget, f) ==
    f = [from \in 0..Len(line) |->
            IF from = Len(line) THEN <<>>
            ELSE <<SubSeq(line, from + 1, HardEnd(line, budget, from))>> \o f[HardEnd(line, budget, from)]]

\* The recursion, opened once.
LEMMA HardUnfolds == \A line, budget : HardCuts(line, budget) = (CHOOSE f : HardCutsFrom(line, budget, f))[0]
BY DEF HardCuts, HardCutsFrom, HardEnd

\* It cuts within the room of a fence, and beside the pairs.
LEMMA HardEndIs ==
    ASSUME NEW line \in Text, Whole(line), NEW budget \in Nat, budget >= 2, NEW from \in 0..(Len(line) - 1)
    PROVE  LET e == HardEnd(line, budget, from)
           IN  /\ e \in (from + 1)..Len(line) /\ e <= from + budget
               /\ line[e].kind # "high" /\ (e < Len(line) => line[e + 1].kind # "low")
<1> DEFINE n == Len(line)
           i == Min({from + budget, n})
           r == SafeCutIndex(line, i)
<1>0. n \in Nat /\ from \in Nat /\ from < n
  BY LenProperties DEF Text
<1>1. i = IF from + budget <= n THEN from + budget ELSE n
  <2> DEFINE x == from + budget
  <2>1. x \in Int /\ n \in Int
    BY <1>0
  <2> HIDE DEF x, n
  <2>2. Min({x, n}) = IF x <= n THEN x ELSE n
    BY <2>1, LargerOfTwo
  <2> QED
    BY <2>2 DEF x
<1>2. i \in 1..n
  BY <1>0, <1>1
<1> HIDE DEF i
<1>3. /\ r \in 1..n /\ line[r].kind # "high" /\ (r < n => line[r + 1].kind # "low")
      /\ r = i \/ (r = i - 1 /\ i < n) \/ (i = 1 /\ r = 2)
  BY <1>2, SafeCut
<1> HIDE DEF r
<1>4. r >= from + 1 /\ r <= from + budget
  <2> HIDE DEF n
  <2>1. CASE r = i
    BY <1>0, <1>1, <2>1
  <2>2. CASE r = i - 1 /\ i < n
    BY <1>0, <1>1, <2>2
  <2>3. CASE i = 1 /\ r = 2
    BY <1>0, <1>1, <1>3, <2>3
  <2> QED
    BY <1>3, <2>1, <2>2, <2>3
<1>5. Max({r, from + 1}) = r
  <2>1. r \in Int /\ from + 1 \in Int
    BY <1>0, <1>3
  <2> QED
    BY <1>4, <2>1, LargerOfTwo
<1>6. HardEnd(line, budget, from) = r
  BY <1>5 DEF HardEnd, i, r
<1> QED
  BY <1>0, <1>3, <1>4, <1>6

\* What fits a fence of that much room.
Fitting(S, budget) == {t \in Seq(S) : Whole(t) /\ NoTicks(t) /\ Len(t) <= budget}

\* A long line is cut into parts that fit a fence, which together show what it shows.
LEMMA LongLine ==
    ASSUME NEW S \in SUBSET Chars, NEW line \in Seq(S), Whole(line), NoTicks(line),
           NEW budget \in Nat, budget >= 2
    PROVE  /\ HardCuts(line, budget) \in Seq(Fitting(S, budget))
           /\ Bodies(HardCuts(line, budget)) = Body(line)
           /\ line # <<>> => HardCuts(line, budget) # <<>>
<1> DEFINE n == Len(line)
           D == 0..n
           stop == {n}
           end(from) == HardEnd(line, budget, from)
           out == [from \in D |-> IF from = n THEN <<>> ELSE <<SubSeq(line, from + 1, end(from))>>]
           next == [from \in D |-> IF from = n THEN n ELSE end(from)]
           rank == [from \in D |-> n - from]
           T == Fitting(S, budget)
           X == Seq(S)
<1>0. n \in Nat /\ Seq(S) \in SUBSET Text /\ line \in Text
  BY LenProperties, TextOf
<1>1. ASSUME NEW from \in D, from # n
      PROVE  /\ end(from) \in (from + 1)..n /\ end(from) <= from + budget /\ end(from) \in D
             /\ line[end(from)].kind # "high" /\ (end(from) < n => line[end(from) + 1].kind # "low")
             /\ SubSeq(line, from + 1, end(from)) \in X
             /\ Len(SubSeq(line, from + 1, end(from))) = end(from) - from
  <2>1. from \in 0..(Len(line) - 1) /\ from \in Nat
    BY <1>0, <1>1
  <2> DEFINE e == end(from)
             a == from + 1
  <2>2. e \in (from + 1)..n /\ e <= from + budget
        /\ line[e].kind # "high" /\ (e < n => line[e + 1].kind # "low")
    BY <1>0, <2>1, HardEndIs
  <2> HIDE DEF e
  <2>3. e \in D /\ a \in 1..(Len(line) + 1) /\ e \in (a - 1)..Len(line) /\ e - a + 1 = e - from
    BY <1>0, <2>1, <2>2
  <2> HIDE DEF a
  <2>4. SubSeq(line, a, e) \in X /\ Len(SubSeq(line, a, e)) = e - a + 1
    BY <2>3, PartIs
  <2> QED
    BY <2>2, <2>3, <2>4 DEF e, a
<1>3. out \in [D -> Seq(X)] /\ next \in [D -> D] /\ rank \in [D -> Nat] /\ n + 1 \in Nat
      /\ (\A d \in D : rank[d] < n + 1) /\ \A d \in D : d \notin stop => rank[next[d]] < rank[d]
  <2>1. ASSUME NEW from \in D
        PROVE  (IF from = n THEN <<>> ELSE <<SubSeq(line, from + 1, end(from))>>) \in Seq(X)
    <3>1. \A x \in X : <<x>> \in Seq(X)
      <4> HIDE DEF X
      <4> QED
        OBVIOUS
    <3>2. (from # n => SubSeq(line, from + 1, end(from)) \in X) /\ <<>> \in Seq(X)
      BY <1>1, EmptySeq
    <3> HIDE DEF X, end
    <3> QED
      BY <3>1, <3>2
  <2>2. out \in [D -> Seq(X)]
    <3> HIDE DEF D, X, end
    <3> QED
      BY <2>1
  <2>3. \A from \in D : from # n => end(from) \in D /\ end(from) > from
    <3> TAKE from \in D
    <3> HAVE from # n
    <3> DEFINE e == end(from)
    <3>1. e \in (from + 1)..n /\ e \in D
      BY <1>1
    <3> HIDE DEF e
    <3>2. e > from
      BY <1>0, <3>1
    <3> QED
      BY <3>1, <3>2 DEF e
  <2>4. n \in D
    BY <1>0
  <2>5. next \in [D -> D]
    <3> HIDE DEF D, end
    <3> QED
      BY <2>3, <2>4
  <2>6. rank \in [D -> Nat] /\ n + 1 \in Nat /\ \A d \in D : rank[d] < n + 1
    BY <1>0
  <2>7. \A d \in D : d \notin stop => rank[next[d]] < rank[d]
    <3> TAKE d \in D
    <3> HAVE d \notin stop
    <3>1. d # n /\ next[d] = end(d)
      OBVIOUS
    <3> DEFINE e == end(d)
    <3>2. e \in D /\ e > d
      BY <2>3, <3>1
    <3> HIDE DEF e, next
    <3>3. rank[e] < rank[d]
      BY <1>0, <3>2
    <3> QED
      BY <3>1, <3>3 DEF e
  <2> HIDE DEF rank, next, stop, D, out
  <2> QED
    BY <2>2, <2>5, <2>6, <2>7
<1>4. \E f \in [D -> Seq(X)] : Unfolds(D, stop, out, next, f)
  <2> HIDE DEF D, X, stop, out, next, rank, n
  <2> DEFINE N == n + 1
  <2>1. N \in Nat /\ \A d \in D : rank[d] < N
    BY <1>3
  <2> HIDE DEF N
  <2> QED
    BY <1>3, <2>1, UnfoldsExist
<1>5. ASSUME NEW f, f = [from \in D |-> f[from]]
      PROVE  Unfolds(D, stop, out, next, f) <=> HardCutsFrom(line, budget, f)
  <2> DEFINE g(from) == IF from = Len(line) THEN <<>>
            ELSE <<SubSeq(line, from + 1, HardEnd(line, budget, from))>> \o f[HardEnd(line, budget, from)]
  <2>1. ASSUME NEW from \in D
        PROVE  (IF from \in stop THEN out[from] ELSE out[from] \o f[next[from]]) = g(from)
    <3>1. from \in stop <=> from = n
      OBVIOUS
    <3>2. out[from] = IF from = n THEN <<>> ELSE <<SubSeq(line, from + 1, end(from))>>
      OBVIOUS
    <3>3. next[from] = IF from = n THEN n ELSE end(from)
      OBVIOUS
    <3> HIDE DEF stop, next, out
    <3> QED
      BY <3>1, <3>2, <3>3
  <2>2. Unfolds(D, stop, out, next, f) <=> \A from \in D : f[from] = g(from)
    <3> HIDE DEF D, stop, out, next, g
    <3> QED
      BY <2>1 DEF Unfolds
  <2>3. (\A from \in D : f[from] = g(from)) <=> f = [from \in D |-> g(from)]
    <3> HIDE DEF D, g
    <3>1. (\A from \in D : f[from] = g(from)) => [from \in D |-> f[from]] = [from \in D |-> g(from)]
      OBVIOUS
    <3>2. f = [from \in D |-> g(from)] => \A from \in D : f[from] = g(from)
      OBVIOUS
    <3> QED
      BY <1>5, <3>1, <3>2
  <2>4. HardCutsFrom(line, budget, f) <=> f = [from \in D |-> g(from)]
    BY DEF HardCutsFrom
  <2> QED
    BY <2>2, <2>3, <2>4
<1> DEFINE c == CHOOSE f : HardCutsFrom(line, budget, f)
<1>6. HardCutsFrom(line, budget, c)
  <2>1. PICK f \in [D -> Seq(X)] : Unfolds(D, stop, out, next, f)
    BY <1>4
  <2>2. f = [from \in D |-> f[from]]
    OBVIOUS
  <2>3. HardCutsFrom(line, budget, f)
    <3> HIDE DEF D, stop, out, next
    <3> QED
      BY <1>5, <2>1, <2>2
  <2> QED
    BY <2>3
<1> HIDE DEF c
<1>7. c = [from \in D |-> c[from]]
  BY <1>6 DEF HardCutsFrom
<1>8. Unfolds(D, stop, out, next, c)
  <2> HIDE DEF D, stop, out, next
  <2> QED
    BY <1>5, <1>6, <1>7
<1> DEFINE rest(from) == SubSeq(line, from + 1, n)
           fresh(from) == from = n \/ line[from + 1].kind # "low"
           claim(from) == fresh(from) => c[from] \in Seq(T) /\ Bodies(c[from]) = Body(rest(from))
           Good == {m \in Nat : \A from \in D : n - from < m => claim(from)}
<1>9. ASSUME NEW from \in D, \A k \in D : k > from => claim(k)
      PROVE  claim(from)
  <2> SUFFICES ASSUME fresh(from)
               PROVE  c[from] \in Seq(T) /\ Bodies(c[from]) = Body(rest(from))
    OBVIOUS
  <2>1. CASE from = n
    <3>1. c[from] = <<>>
      <4>1. out[from] = <<>> /\ from \in stop
        BY <2>1
      <4> HIDE DEF D, stop, out, next
      <4> QED
        BY <1>8, <4>1 DEF Unfolds
    <3>2. rest(n) = <<>>
      <4> DEFINE a == n + 1
      <4>1. a \in 1..(Len(line) + 1) /\ n \in (a - 1)..Len(line) /\ n - a + 1 = 0
        BY <1>0
      <4> HIDE DEF a
      <4>2. SubSeq(line, a, n) \in Seq(S) /\ Len(SubSeq(line, a, n)) = n - a + 1
        BY <4>1, PartIs
      <4> QED
        BY <4>1, <4>2, EmptySeq DEF a
    <3>3. Bodies(<<>>) = <<>> /\ Body(<<>>) = <<>> /\ <<>> \in Seq(T)
      BY BodiesLaws, BodyLaws, EmptySeq
    <3> HIDE DEF rest
    <3> QED
      BY <2>1, <3>1, <3>2, <3>3
  <2>2. CASE from # n
    <3> DEFINE k == end(from)
               a == from + 1
               b == k + 1
               h == SubSeq(line, a, k)
    <3>1. c[from] = <<h>> \o c[k]
      <4>1. out[from] = <<h>> /\ next[from] = k /\ from \notin stop
        BY <2>2
      <4> HIDE DEF D, stop, out, next, h, k
      <4> QED
        BY <1>8, <4>1 DEF Unfolds
    <3>2. /\ k \in (from + 1)..n /\ k <= from + budget /\ k \in D
          /\ line[k].kind # "high" /\ (k < n => line[k + 1].kind # "low")
          /\ h \in Seq(S) /\ Len(h) = k - from
      BY <1>1, <2>2
    <3> HIDE DEF k
    <3>3. k \in D /\ k > from /\ from \in Nat /\ k \in Nat
      BY <1>0, <3>2
    <3>4. a \in 1..(Len(line) + 1) /\ k \in (a - 1)..Len(line) /\ a \in 1..Len(line) /\ k \in 1..Len(line)
          /\ b \in 1..(Len(line) + 1) /\ n \in (b - 1)..n /\ k - a + 1 = k - from
      BY <1>0, <3>2, <3>3
    <3>5. Body(rest(from)) = Body(h) \o Body(rest(k))
      <4>1. SubSeq(line, a, n) = h \o SubSeq(line, b, n)
        <5> HIDE DEF a
        <5> QED
          BY <3>4, PartInTwo
      <4>2. SubSeq(line, b, n) \in Seq(S)
        <5> HIDE DEF b
        <5> QED
          BY <3>4, PartIs
      <4>3. h \in Text /\ SubSeq(line, b, n) \in Text
        BY <1>0, <3>2, <4>2
      <4> HIDE DEF h
      <4> QED
        BY <4>1, <4>3, BodyLaws
    <3>6. h \in T
      <4>1. Whole(h)
        <5>1. line[a].kind # "low"
          BY <2>2
        <5> HIDE DEF a
        <5> QED
          BY <1>0, <3>2, <3>4, <5>1, CutWhole
      <4>2. NoTicks(h)
        <5> DEFINE m == k - a + 1
        <5>1. \A i \in 1..m : h[i] = line[a + i - 1]
          <6> HIDE DEF a
          <6> QED
            BY <3>4, PartIs
        <5>2. \A i \in 1..m : a + i - 1 \in 1..Len(line)
          BY <1>0, <3>2, <3>3
        <5>3. Len(h) = m
          BY <3>2, <3>4
        <5> HIDE DEF h, m, a
        <5> QED
          BY <5>1, <5>2, <5>3 DEF NoTicks
      <4>3. Len(h) <= budget
        BY <3>2, <3>3
      <4> QED
        BY <3>2, <4>1, <4>2, <4>3 DEF Fitting
    <3>7. c[k] \in Seq(T) /\ Bodies(c[k]) = Body(rest(k))
      <4>1. fresh(k)
        BY <1>0, <3>2, <3>3
      <4>2. claim(k)
        <5> HIDE DEF claim
        <5> QED
          BY <1>9, <3>3
      <4> QED
        BY <4>1, <4>2
    <3> HIDE DEF h
    <3>8. <<h>> \o c[k] \in Seq(T)
      <4> DEFINE U == T
      <4>1. h \in U /\ c[k] \in Seq(U)
        BY <3>6, <3>7
      <4> HIDE DEF U
      <4>2. <<h>> \in Seq(U)
        BY <4>1
      <4>3. <<h>> \o c[k] \in Seq(U)
        BY <4>1, <4>2, ConcatProperties
      <4> QED
        BY <4>2, <4>3 DEF U
    <3>9. Seq(T) \in SUBSET Seq(Text) /\ h \in Text
      <4>1. T \in SUBSET Text
        BY <1>0 DEF Fitting
      <4> HIDE DEF T
      <4>2. Seq(T) \in SUBSET Seq(Text)
        BY <4>1
      <4> QED
        BY <3>6, <4>1, <4>2
    <3>10. Bodies(<<h>> \o c[k]) = Body(h) \o Bodies(c[k])
      <4> HIDE DEF T
      <4>1. <<h>> \in Seq(Text) /\ c[k] \in Seq(Text) /\ Bodies(<<h>>) = Body(h)
        BY <3>7, <3>9, BodiesLaws
      <4> QED
        BY <4>1, BodiesLaws
    <3> HIDE DEF T, rest
    <3> QED
      BY <3>1, <3>5, <3>7, <3>8, <3>10
  <2> QED
    BY <2>1, <2>2
<1>10. Good = Nat
  <2>1. 0 \in Good
    BY <1>0
  <2>2. ASSUME NEW m \in Good
        PROVE  m + 1 \in Good
    <3> HIDE DEF claim
    <3>1. \A from \in D : n - from < m => claim(from)
      OBVIOUS
    <3>2. ASSUME NEW from \in D, n - from < m + 1
          PROVE  claim(from)
      <4>1. \A k \in D : k > from => n - k < m
        BY <1>0, <3>2
      <4> QED
        BY <1>9, <3>1, <4>1
    <3> QED
      BY <3>2
  <2>3. Good \in SUBSET Nat
    OBVIOUS
  <2> HIDE DEF Good
  <2> QED
    BY <2>1, <2>2, <2>3, NatSetInduction
<1>11. claim(0)
  <2>1. n + 1 \in Good /\ 0 \in D /\ n - 0 < n + 1
    <3>1. n + 1 \in Nat /\ 0 \in D /\ n - 0 < n + 1
      BY <1>0
    <3> HIDE DEF Good
    <3> QED
      BY <1>10, <3>1
  <2> HIDE DEF claim
  <2> QED
    BY <2>1
<1>12. rest(0) = line /\ fresh(0)
  <2>1. SubSeq(line, 1, Len(line)) = line /\ 0 + 1 = 1
    OBVIOUS
  <2>2. 0 # n => 1 \in 1..Len(line)
    BY <1>0
  <2>3. fresh(0)
    BY <2>1, <2>2 DEF Whole
  <2> QED
    BY <2>1, <2>3
<1>13. HardCuts(line, budget) = c[0]
  BY HardUnfolds DEF c
<1>14. line # <<>> => c[0] # <<>>
  <2> SUFFICES ASSUME line # <<>>
               PROVE  c[0] # <<>>
    OBVIOUS
  <2>1. n # 0 /\ 0 \in D
    BY <1>0, EmptySeq
  <2> DEFINE k == end(0)
             h == SubSeq(line, 0 + 1, k)
  <2>2. out[0] = <<h>> /\ next[0] = k /\ 0 \notin stop
    BY <2>1
  <2>3. k \in D /\ h \in Seq(S)
    BY <1>1, <2>1
  <2> HIDE DEF k, h
  <2>4. c[0] = <<h>> \o c[k]
    <3> HIDE DEF D, stop, out, next
    <3> QED
      BY <1>8, <2>1, <2>2 DEF Unfolds
  <2>5. k # 0 /\ (k = n \/ line[k + 1].kind # "low")
    <3>1. 0 \in D /\ 0 # n
      BY <2>1
    <3>2. k \in (0 + 1)..n /\ (k < n => line[k + 1].kind # "low")
      BY <1>1, <3>1 DEF k
    <3> QED
      BY <1>0, <3>2
  <2>6. c[k] \in Seq(T)
    <3>1. claim(k)
      <4>1. n + 1 \in Good /\ n - k < n + 1
        <5>1. n + 1 \in Nat /\ n - k < n + 1
          BY <1>0, <2>3
        <5> HIDE DEF Good
        <5> QED
          BY <1>10, <5>1
      <4> HIDE DEF claim
      <4> QED
        BY <2>3, <4>1
    <3> QED
      BY <2>5, <3>1
  <2>7. Len(<<h>> \o c[k]) = 1 + Len(c[k]) /\ Len(c[k]) \in Nat
    <3> DEFINE U == Seq(S)
    <3>1. <<h>> \in Seq(U) /\ Len(<<h>>) = 1
      <4>1. h \in U
        BY <2>3
      <4> HIDE DEF U
      <4> QED
        BY <4>1
    <3>2. c[k] \in Seq(U)
      <4>1. T \in SUBSET U
        BY DEF Fitting
      <4> HIDE DEF T, U
      <4> QED
        BY <2>6, <4>1
    <3> HIDE DEF U
    <3> QED
      BY <3>1, <3>2, ConcatProperties, LenProperties
  <2>8. Len(c[0]) # 0
    BY <2>4, <2>7
  <2> QED
    BY <2>8, EmptySeq
<1> HIDE DEF T
<1> QED
  BY <1>11, <1>12, <1>13, <1>14 DEF T

-----------------------------------------------------------------------------
(***************************************************************************)
(* A long fence is cut between its lines.                                  *)
(***************************************************************************)
\* Texts of which nothing is seen, together show nothing.
LEMMA BodiesNone ==
    ASSUME NEW w \in Seq(Text), \A i \in 1..Len(w) : Body(w[i]) = <<>>
    PROVE  Bodies(w) = <<>>
<1> DEFINE none(u) == \A i \in 1..Len(u) : Body(u[i]) = <<>>
           G == {u \in Seq(Text) : none(u) => Bodies(u) = <<>>}
<1>1. <<>> \in G
  BY BodiesLaws, EmptySeq
<1>2. ASSUME NEW u \in G, NEW x \in Text
      PROVE  Append(u, x) \in G
  <2> DEFINE v == Append(u, x)
  <2>1. u \in Seq(Text) /\ (none(u) => Bodies(u) = <<>>)
    OBVIOUS
  <2>2. /\ v \in Seq(Text) /\ Len(u) \in Nat /\ Len(v) = Len(u) + 1
        /\ v[Len(u) + 1] = x
        /\ \A j \in 1..Len(u) : v[j] = u[j]
    BY AppendIs
  <2>3. Bodies(v) = Bodies(u) \o Body(x)
    BY BodiesLaws
  <2> HIDE DEF v
  <2>4. ASSUME none(v)
        PROVE  Bodies(v) = <<>>
    <3>1. (\A j \in 1..Len(u) : j \in 1..Len(v)) /\ Len(u) + 1 \in 1..Len(v)
      BY <2>2
    <3>2. none(u) /\ Body(x) = <<>>
      BY <2>2, <2>4, <3>1
    <3> HIDE DEF none
    <3>3. Bodies(u) = <<>>
      BY <2>1, <3>2
    <3> QED
      BY <2>3, <3>2, <3>3
  <2>5. v \in G
    BY <2>2, <2>4
  <2> QED
    BY <2>5 DEF v
<1>3. G \in SUBSET Seq(Text)
  OBVIOUS
<1> HIDE DEF G
<1>4. G = Seq(Text)
  BY <1>1, <1>2, <1>3, SeqSetInduction
<1> QED
  BY <1>4 DEF G

\* Texts of which the same is seen one by one.
Alike(u, v) == Len(u) = Len(v) /\ \A i \in 1..Len(u) : Body(u[i]) = Body(v[i])

\* Then the same is seen of them together.
LEMMA BodiesAlike ==
    ASSUME NEW w \in Seq(Text), NEW z \in Seq(Text), Alike(w, z)
    PROVE  Bodies(w) = Bodies(z)
<1> DEFINE G == {u \in Seq(Text) : \A v \in Seq(Text) : Alike(u, v) => Bodies(u) = Bodies(v)}
<1>1. <<>> \in G
  <2>1. <<>> \in Seq(Text) /\ Len(<<>>) = 0
    BY EmptySeq
  <2>2. \A v \in Seq(Text) : Len(v) = 0 => v = <<>>
    BY EmptySeq
  <2> DEFINE e == <<>>
  <2>3. e \in Seq(Text) /\ \A v \in Seq(Text) : Len(e) = Len(v) => v = e
    BY <2>1, <2>2
  <2> HIDE DEF e
  <2>4. e \in G
    BY <2>3 DEF Alike
  <2> QED
    BY <2>4 DEF e
<1>2. ASSUME NEW u \in G, NEW x \in Text
      PROVE  Append(u, x) \in G
  <2> DEFINE y == Append(u, x)
  <2>1. u \in Seq(Text) /\ \A v \in Seq(Text) : Alike(u, v) => Bodies(u) = Bodies(v)
    OBVIOUS
  <2>2. /\ y \in Seq(Text) /\ Len(u) \in Nat /\ Len(y) = Len(u) + 1
        /\ y[Len(u) + 1] = x
        /\ \A j \in 1..Len(u) : y[j] = u[j]
    BY <2>1, AppendIs
  <2>3. Bodies(y) = Bodies(u) \o Body(x)
    BY <2>1, BodiesLaws
  <2> HIDE DEF y, G
  <2>4. ASSUME NEW v \in Seq(Text), Alike(y, v)
        PROVE  Bodies(y) = Bodies(v)
    <3>1. v \in SomeLines
      BY <2>2, <2>4, EmptySeq DEF SomeLines, Alike
    <3>2. PICK F \in Seq(Text), l \in Text : v = Append(F, l)
      BY <3>1, LastOfLines
    <3>3. /\ Len(F) \in Nat /\ Len(v) = Len(F) + 1
          /\ v[Len(F) + 1] = l
          /\ \A j \in 1..Len(F) : v[j] = F[j]
      BY <3>2, AppendIs
    <3>4. Len(F) = Len(u) /\ (\A j \in 1..Len(u) : j \in 1..Len(y)) /\ Len(u) + 1 \in 1..Len(y)
      BY <2>2, <2>4, <3>3 DEF Alike
    <3>5. Alike(u, F) /\ Body(x) = Body(l)
      BY <2>2, <2>4, <3>3, <3>4 DEF Alike
    <3>6. Bodies(u) = Bodies(F)
      BY <2>1, <3>2, <3>5
    <3>7. Bodies(v) = Bodies(F) \o Body(l)
      BY <3>2, BodiesLaws
    <3> QED
      BY <2>3, <3>5, <3>6, <3>7
  <2>5. y \in G
    BY <2>2, <2>4 DEF G
  <2> QED
    BY <2>5 DEF y
<1>3. G \in SUBSET Seq(Text)
  OBVIOUS
<1> HIDE DEF G
<1>4. G = Seq(Text)
  BY <1>1, <1>2, <1>3, SeqSetInduction
<1> QED
  BY <1>4 DEF G

\* What lines joined begin with and end with.
LEMMA FirstOfJoined ==
    ASSUME NEW M \in SomeLines
    PROVE  IF M[1] = <<>> THEN Joined(M) = <<>> \/ Joined(M)[1] = Newline
           ELSE Joined(M)[1] = M[1][1] /\ Joined(M) # <<>>
<1> DEFINE ok(L) == IF L[1] = <<>> THEN Joined(L) = <<>> \/ Joined(L)[1] = Newline
                    ELSE Joined(L)[1] = L[1][1] /\ Joined(L) # <<>>
           G == {L \in SomeLines : ok(L)}
<1>1. ASSUME NEW x \in Text
      PROVE  <<x>> \in G
  <2>1. <<x>> \in SomeLines /\ <<x>>[1] = x /\ Joined(<<x>>) = x
    BY LinesAre, JoinedLaws
  <2> DEFINE L == <<x>>
  <2> HIDE DEF L
  <2>2. L \in SomeLines /\ L[1] = x /\ Joined(L) = x
    BY <2>1 DEF L
  <2>3. L \in G
    BY <2>2
  <2> QED
    BY <2>3 DEF L
<1>2. ASSUME NEW L \in G, NEW x \in Text
      PROVE  Append(L, x) \in G
  <2> DEFINE y == Append(L, x)
             j == Joined(L)
  <2>1. L \in SomeLines /\ L \in Seq(Text) /\ L # <<>> /\ j \in Text /\ ok(L) /\ y \in SomeLines
    BY LinesAre
  <2>2. Joined(y) = j \o <<Newline>> \o x
    BY <2>1, JoinedLaws
  <2>3. y[1] = L[1]
    <3>1. Len(L) \in Nat /\ Len(L) # 0
      BY <2>1, EmptySeq, LenProperties
    <3>2. 1 \in 1..Len(L)
      BY <3>1
    <3> QED
      BY <2>1, <3>2, AppendIs
  <2>4. /\ Len(j) \in Nat /\ Len(x) \in Nat /\ j \o <<Newline>> \o x \in Text
        /\ Len(j \o <<Newline>> \o x) = Len(j) + 1 + Len(x)
        /\ \A i \in 1..Len(j) : (j \o <<Newline>> \o x)[i] = j[i]
        /\ (j \o <<Newline>> \o x)[Len(j) + 1] = Newline
    BY <2>1, JointIs
  <2> DEFINE k == Joined(y)
  <2> HIDE DEF y, G, j, k
  <2>5. /\ Len(j) \in Nat /\ k \in Text /\ Len(k) > 0
        /\ \A i \in 1..Len(j) : k[i] = j[i]
        /\ k[Len(j) + 1] = Newline
    BY <2>2, <2>4 DEF k
  <2>6. k # <<>>
    BY <2>5, EmptySeq
  <2>7. CASE j = <<>>
    <3>1. Len(j) = 0
      BY <2>7, EmptySeq
    <3>2. k[1] = Newline
      BY <2>5, <3>1
    <3>3. L[1] = <<>>
      BY <2>1, <2>7 DEF j
    <3>4. ok(y)
      BY <2>3, <2>6, <3>2, <3>3 DEF k
    <3> QED
      BY <2>1, <3>4 DEF G, y
  <2>8. CASE j # <<>>
    <3>1. Len(j) # 0
      BY <2>1, <2>8, EmptySeq DEF Text
    <3>2. 1 \in 1..Len(j)
      BY <2>5, <3>1
    <3>3. k[1] = j[1]
      BY <2>5, <3>2
    <3>4. ok(y)
      BY <2>1, <2>3, <2>6, <2>8, <3>3 DEF k, j
    <3> QED
      BY <2>1, <3>4 DEF G, y
  <2> QED
    BY <2>7, <2>8
<1>3. G \in SUBSET (Seq(Text) \ {<<>>})
  BY LinesAre
<1> HIDE DEF G
<1>4. G = Seq(Text) \ {<<>>}
  BY <1>1, <1>2, <1>3, LinesInduction
<1>5. M \in G
  BY <1>4, LinesAre
<1> QED
  BY <1>5 DEF G

\* And with what they end.
LEMMA LastOfJoined ==
    ASSUME NEW M \in SomeLines, Joined(M) # <<>>
    PROVE  LET s == Joined(M)
               l == M[Len(M)]
           IN  IF l = <<>> THEN s[Len(s)] = Newline ELSE s[Len(s)] = l[Len(l)]
<1>1. PICK F \in Seq(Text), l \in Text : M = Append(F, l) /\ M[Len(M)] = l
  BY LastOfLines
<1> DEFINE s == Joined(M)
<1>2. CASE F = <<>>
  <2>1. M = <<l>>
    BY <1>1, <1>2
  <2>2. s = l
    BY <2>1, JoinedLaws
  <2> QED
    BY <1>1, <2>2
<1>3. CASE F # <<>>
  <2> DEFINE f == Joined(F)
  <2>1. f \in Text /\ s = f \o <<Newline>> \o l
    BY <1>1, <1>3, JoinedLaws
  <2> HIDE DEF f
  <2>a. /\ Len(f) \in Nat /\ Len(l) \in Nat
        /\ Len(f \o <<Newline>> \o l) = Len(f) + 1 + Len(l)
        /\ (f \o <<Newline>> \o l)[Len(f) + 1] = Newline
        /\ \A i \in 1..Len(l) : (f \o <<Newline>> \o l)[Len(f) + 1 + i] = l[i]
    BY <2>1, JointIs
  <2>b. s = f \o <<Newline>> \o l
    BY <2>1
  <2> HIDE DEF s
  <2>2. /\ Len(f) \in Nat /\ Len(l) \in Nat
        /\ Len(s) = Len(f) + 1 + Len(l) /\ s[Len(f) + 1] = Newline
        /\ \A i \in 1..Len(l) : s[Len(f) + 1 + i] = l[i]
    BY <2>a, <2>b
  <2>3. l = <<>> => Len(l) = 0
    BY EmptySeq
  <2>4. l # <<>> => Len(l) # 0
    BY EmptySeq DEF Text
  <2>5. CASE l = <<>>
    <3>1. Len(s) = Len(f) + 1
      BY <2>2, <2>3, <2>5
    <3> QED
      BY <1>1, <2>2, <2>5, <3>1 DEF s
  <2>6. CASE l # <<>>
    <3>1. Len(l) \in 1..Len(l)
      BY <2>2, <2>4, <2>6
    <3>2. s[Len(s)] = l[Len(l)]
      BY <2>2, <3>1
    <3> QED
      BY <1>1, <2>6, <3>2 DEF s
  <2> QED
    BY <2>5, <2>6
<1> QED
  BY <1>2, <1>3

\* The steps of SplitLongFence: a text put between backticks, the room for it, what
\* is collected put out, and a line collected or cut.
FencedText(o, j) == o \o <<Newline>> \o j \o <<Newline>> \o Ticks
FenceRoom(o) == Max({MaxLen - (Len(o) + Len(Ticks) + 2), 1})
FenceFlush(o, a) ==
    IF a.cur = <<>> THEN a
    ELSE [out |-> Append(a.out, FencedText(o, Joined(a.cur))), cur |-> <<>>, len |-> 0]
FenceAdds(a, line) == Len(line) + (IF a.cur = <<>> THEN 0 ELSE 1)
FenceMakesRoom(o, a, line) ==
    IF a.len + FenceAdds(a, line) > FenceRoom(o) THEN FenceFlush(o, a) ELSE a
FenceCuts(o, line) ==
    [i \in DOMAIN HardCuts(line, FenceRoom(o)) |-> FencedText(o, Joined(<<HardCuts(line, FenceRoom(o))[i]>>))]
FenceStep(o, a, line) ==
    IF Len(line) > FenceRoom(o)
    THEN [FenceMakesRoom(o, a, line) EXCEPT !.out = @ \o FenceCuts(o, line)]
    ELSE [FenceMakesRoom(o, a, line) EXCEPT !.cur = Append(@, line), !.len = @ + FenceAdds(a, line)]
NoLines == [out |-> <<>>, cur |-> <<>>, len |-> 0]

\* Whether the last line closes the fence, the lines within it, and what they are cut
\* into.
FenceClosed(L) == Len(TrimBoth(Last(L))) = 3 /\ IsFence(Last(L))
FenceBody(L) == SubSeq(L, 2, IF FenceClosed(L) THEN Len(L) - 1 ELSE Len(L))

FenceOut(o, body) == FenceFlush(o, FoldLeft(LAMBDA a, line : FenceStep(o, a, line), NoLines, body)).out

\* These are the steps of SplitLongFence.
LEMMA FenceOutIs ==
    \A p : LET out == FenceOut(Head(LinesOf(p)), FenceBody(LinesOf(p)))
           IN SplitLongFence(p) = IF out = <<>> THEN <<SubSeq(p, 1, MaxLen)>> ELSE out
BY DEF SplitLongFence, FenceOut, FenceStep, FenceFlush, FenceMakesRoom, FenceAdds, FenceCuts, FencedText, FenceRoom, NoLines, FenceClosed, FenceBody

\* Texts without backticks.
Clean(S) == {x \in Seq(S) : Whole(x) /\ NoTicks(x)}

\* Such texts are sound.
LEMMA CleanSound ==
    ASSUME NEW S \in SUBSET Chars, NEW x \in Clean(S)
    PROVE  x \in Seq(S) /\ x \in Text /\ Sound(x) /\ Marks(x) = 0 /\ Len(x) \in Nat
<1>1. x \in Seq(S) /\ x \in Text /\ Whole(x) /\ NoTicks(x)
  BY TextOf DEF Clean
<1>2. Neat(x)
  BY <1>1 DEF NoTicks, Neat
<1> QED
  BY <1>1, <1>2, FenceOfLine, LenProperties DEF Sound

\* Joined they still have none.
LEMMA CleanJoint ==
    ASSUME NEW S \in SUBSET Chars, Newline \in S, NEW x \in Clean(S), NEW y \in Clean(S)
    PROVE  x \o <<Newline>> \o y \in Clean(S)
<1> DEFINE s == x \o <<Newline>> \o y
<1>1. x \in Seq(S) /\ y \in Seq(S) /\ x \in Text /\ y \in Text /\ Sound(x) /\ Sound(y)
  BY CleanSound
<1>2. s \in Seq(S)
  <2>1. <<Newline>> \in Seq(S)
    OBVIOUS
  <2> QED
    BY <1>1, <2>1, ConcatProperties
<1>3. Whole(s)
  BY <1>1, SoundJoint DEF Sound
<1>4. /\ Len(x) \in Nat /\ Len(y) \in Nat
      /\ Len(s) = Len(x) + 1 + Len(y)
      /\ \A i \in 1..Len(x) : s[i] = x[i]
      /\ s[Len(x) + 1] = Newline
      /\ \A i \in 1..Len(y) : s[Len(x) + 1 + i] = y[i]
  BY <1>1, JointIs
<1> HIDE DEF s
<1>5. ASSUME NEW i \in 1..Len(s)
      PROVE  s[i].kind # "tick"
  <2>1. CASE i \in 1..Len(x)
    BY <1>4, <2>1 DEF Clean, NoTicks
  <2>2. CASE i = Len(x) + 1
    BY <1>4, <2>2, NewlineIs
  <2>3. CASE i > Len(x) + 1
    <3> DEFINE k == i - (Len(x) + 1)
    <3>1. k \in 1..Len(y) /\ i = Len(x) + 1 + k
      BY <1>4, <2>3
    <3>2. y[k].kind # "tick"
      BY <3>1 DEF Clean, NoTicks
    <3> HIDE DEF k
    <3>3. s[Len(x) + 1 + k] = y[k]
      BY <1>4, <3>1
    <3> QED
      BY <3>1, <3>2, <3>3
  <2> QED
    BY <1>4, <2>1, <2>2, <2>3
<1>6. s \in Clean(S)
  BY <1>2, <1>3, <1>5 DEF Clean, NoTicks
<1> QED
  BY <1>6 DEF s

\* A line of three backticks is sound, has one fence and shows nothing else.
LEMMA FenceLineIs ==
    ASSUME NEW o \in Text, FenceLine(o)
    PROVE  Sound(o) /\ Marks(o) = 1 /\ Body(o) = <<>> /\ Len(o) = 3
<1>1. Whole(o)
  BY DEF FenceLine, Whole
<1>2. Neat(o)
  BY DEF FenceLine, Neat
<1> QED
  BY <1>1, <1>2, FenceOfLine DEF Sound, FenceLine

\* The characters of a section, and the backticks that close what was cut.
Marked(S) == S \cup {Ticks[i] : i \in 1..3}

\* What is made of these characters is text.
LEMMA MarkedIs ==
    ASSUME NEW S \in SUBSET Own
    PROVE  /\ S \in SUBSET Chars /\ Marked(S) \in SUBSET Chars /\ S \in SUBSET Marked(S)
           /\ Seq(S) \in SUBSET Seq(Marked(S)) /\ Ticks \in Seq(Marked(S))
           /\ Seq(Marked(S)) \in SUBSET Text /\ Seq(S) \in SUBSET Text
<1>1. Len(Ticks) = 3 /\ Ticks \in Text /\ S \in SUBSET Chars
  BY TicksAre DEF Own
<1>2. \A i \in 1..3 : Ticks[i] \in Chars
  BY <1>1, ElementOfSeq DEF Text
<1>3. Marked(S) \in SUBSET Chars /\ S \in SUBSET Marked(S)
  BY <1>1, <1>2 DEF Marked
<1>4. Ticks \in Seq(Marked(S))
  <2>1. Ticks = [i \in 1..3 |-> Ticks[i]]
    BY DEF Ticks
  <2>2. \A i \in 1..3 : Ticks[i] \in Marked(S)
    BY DEF Marked
  <2> DEFINE n == 3
  <2>3. Ticks \in [1..n -> Marked(S)] /\ n \in Nat
    BY <2>1, <2>2
  <2> HIDE DEF n
  <2> QED
    BY <2>3
<1>5. Seq(S) \in SUBSET Seq(Marked(S))
  BY <1>3
<1> QED
  BY <1>1, <1>3, <1>4, <1>5, TextOf

\* A part of a fence that is closed.
Shut(S) == {t \in Piece(Marked(S)) : Marks(t) = 2}

\* A text that fits, between an opening and a closing, is such a part.
LEMMA FencedPiece ==
    ASSUME NEW S \in SUBSET Own, Newline \in S, NEW o \in Seq(S), FenceLine(o),
           NEW x \in Clean(S), Len(x) <= MaxLen - 8
    PROVE  FencedText(o, x) \in Shut(S) /\ FencedText(o, x) \in Text /\ Body(FencedText(o, x)) = Body(x)
<1> DEFINE s == o \o <<Newline>> \o x
           t == s \o <<Newline>> \o Ticks
           M == Marked(S)
<1>1. /\ o \in Text /\ x \in Text /\ Ticks \in Text /\ S \in SUBSET Chars
      /\ o \in Seq(M) /\ x \in Seq(M) /\ Ticks \in Seq(M) /\ Newline \in M
      /\ Len(o) = 3 /\ Len(Ticks) = 3 /\ Len(x) \in Nat
  <2>1. x \in Seq(S)
    BY DEF Clean
  <2> QED
    BY <2>1, MarkedIs, CleanSound, TicksAre DEF FenceLine
<1>2. Sound(o) /\ Marks(o) = 1 /\ Body(o) = <<>>
  BY <1>1, FenceLineIs
<1>3. Sound(x) /\ Marks(x) = 0
  BY <1>1, CleanSound
<1>4. Sound(Ticks) /\ Marks(Ticks) = 1 /\ Body(Ticks) = <<>>
  <2>1. FenceLine(Ticks)
    BY TicksAre DEF FenceLine
  <2> QED
    BY <1>1, <2>1, FenceLineIs
<1>5. /\ s \in Text /\ Len(s) = 4 + Len(x) /\ s[1] = o[1]
      /\ Sound(s) /\ Marks(s) = 1 /\ Body(s) = Body(x)
  <2>1. s \in Text /\ Len(s) = Len(o) + 1 + Len(x) /\ \A i \in 1..Len(o) : s[i] = o[i]
    BY <1>1, JointIs
  <2>2. Sound(s)
    BY <1>1, <1>2, <1>3, SoundJoint
  <2>3. Body(s) = Body(o) \o Body(x) /\ Marks(s) = Marks(o) + Marks(x) /\ Body(x) \in Seq(Chars)
    BY <1>1, BodyJoint DEF Text
  <2>4. Body(s) = Body(x)
    BY <1>2, <2>3, ConcatEmptySeq
  <2> HIDE DEF s
  <2> QED
    BY <1>1, <1>2, <1>3, <2>1, <2>2, <2>3, <2>4
<1>6. s \in Seq(M)
  <2>1. <<Newline>> \in Seq(M)
    <3> HIDE DEF M
    <3> QED
      BY <1>1
  <2> HIDE DEF M
  <2> QED
    BY <1>1, <2>1, ConcatProperties
<1> HIDE DEF s
<1>7. t \in Seq(M)
  <2>1. <<Newline>> \in Seq(M)
    <3> HIDE DEF M
    <3> QED
      BY <1>1
  <2> HIDE DEF M
  <2> QED
    BY <1>1, <1>6, <2>1, ConcatProperties
<1>8. /\ t \in Text /\ Len(t) = 8 + Len(x) /\ t[1] = o[1]
      /\ Sound(t) /\ Marks(t) = 2 /\ Body(t) = Body(x)
  <2>1. t \in Text /\ Len(t) = Len(s) + 1 + Len(Ticks) /\ \A i \in 1..Len(s) : t[i] = s[i]
    BY <1>1, <1>5, JointIs
  <2>2. Sound(t)
    BY <1>1, <1>4, <1>5, SoundJoint
  <2>3. Body(t) = Body(s) \o Body(Ticks) /\ Marks(t) = Marks(s) + Marks(Ticks) /\ Body(s) \in Seq(Chars)
    BY <1>1, <1>5, BodyJoint DEF Text
  <2>4. Body(t) = Body(x)
    BY <1>4, <1>5, <2>3, ConcatEmptySeq
  <2>5. t[1] = s[1]
    BY <1>1, <1>5, <2>1
  <2> HIDE DEF t
  <2> QED
    BY <1>1, <1>4, <1>5, <2>1, <2>2, <2>3, <2>4, <2>5
<1>9. Shows(o[1]) /\ o[1].line # 0
  <2>0. 1 \in 1..Len(o) /\ 1 \in 1..3
    BY <1>1
  <2>1. o[1].kind = "tick" /\ o[1] \in S
    BY <2>0, ElementOfSeq DEF FenceLine
  <2>2. Shows(o[1])
    BY <2>1, ShowsTicks
  <2> QED
    BY <2>1, <2>2 DEF Own
<1>10. Len(t) <= MaxLen /\ t # <<>>
  <2> HIDE DEF t
  <2>1. Len(t) # 0
    BY <1>1, <1>8
  <2> QED
    BY <1>1, <1>8, <2>1, LimitIs, EmptySeq
<1>11. t \in Shut(S)
  BY <1>7, <1>8, <1>9, <1>10 DEF Shut, Piece
<1>12. t = FencedText(o, x)
  BY DEF FencedText, s, t
<1> QED
  BY <1>8, <1>11, <1>12

\* What a long fence is being cut into: what is collected fits, joined.
FenceStates(S) ==
    {a \in [out : Seq(Shut(S)), cur : Seq(Clean(S)), len : Nat] :
        IF a.cur = <<>> THEN a.len = 0
        ELSE /\ Joined(a.cur) \in Clean(S)
             /\ Len(Joined(a.cur)) <= a.len /\ Len(Joined(a.cur)) <= MaxLen - 8
             /\ Body(Joined(a.cur)) = Bodies(a.cur)}

\* What it shows so far, and that there is something.
Seen(a) == Bodies(a.out) \o Bodies(a.cur)
Held(a) == a.out # <<>> \/ a.cur # <<>>

\* These are texts.
LEMMA TextsOf ==
    ASSUME NEW S \in SUBSET Own
    PROVE  /\ Shut(S) \in SUBSET Text /\ Clean(S) \in SUBSET Text /\ S \in SUBSET Chars
           /\ Seq(Shut(S)) \in SUBSET Seq(Text) /\ Seq(Clean(S)) \in SUBSET Seq(Text)
<1>1. S \in SUBSET Chars /\ Seq(S) \in SUBSET Text /\ Seq(Marked(S)) \in SUBSET Text
  BY MarkedIs
<1>2. Shut(S) \in SUBSET Text /\ Clean(S) \in SUBSET Text
  BY <1>1 DEF Shut, Piece, Clean
<1> DEFINE A == Shut(S)
           B == Clean(S)
           T == Text
<1>3. A \in SUBSET T /\ B \in SUBSET T
  BY <1>2
<1> HIDE DEF A, B, T
<1>4. Seq(A) \in SUBSET Seq(T) /\ Seq(B) \in SUBSET Seq(T)
  BY <1>3
<1> QED
  BY <1>1, <1>3, <1>4 DEF A, B, T

\* The room of a fence is the limit but for two lines of backticks.
LEMMA RoomIs ==
    ASSUME NEW o \in Text, FenceLine(o)
    PROVE  FenceRoom(o) = MaxLen - 8 /\ MaxLen - 8 \in Nat /\ MaxLen - 8 >= 2
<1>1. Len(o) = 3 /\ Len(Ticks) = 3 /\ MaxLen \in Nat /\ MaxLen > 9
  BY TicksAre, LimitIs DEF FenceLine
<1> DEFINE x == MaxLen - (Len(o) + Len(Ticks) + 2)
           y == 1
<1>2. x = MaxLen - 8 /\ x \in Int /\ y \in Int /\ x >= y
  BY <1>1
<1> HIDE DEF x, y
<1>3. Max({x, y}) = x
  BY <1>2, LargerOfTwo
<1> QED
  BY <1>1, <1>2, <1>3 DEF FenceRoom, x, y

\* What is put out is a closed part that shows what was collected.
LEMMA FenceFlushIs ==
    ASSUME NEW S \in SUBSET Own, Newline \in S, NEW o \in Seq(S), FenceLine(o),
           NEW a \in FenceStates(S)
    PROVE  LET b == FenceFlush(o, a)
           IN  /\ b \in FenceStates(S) /\ b.cur = <<>> /\ b.len = 0 /\ Bodies(b.out) = Seen(a)
               /\ Held(a) => b.out # <<>>
<1> DEFINE b == FenceFlush(o, a)
           A == Shut(S)
           B == Clean(S)
<1>1. a \in [out : Seq(A), cur : Seq(B), len : Nat]
  BY DEF FenceStates
<1>2. a.out \in Seq(Text) /\ a.cur \in Seq(Text) /\ A \in SUBSET Text
  BY <1>1, TextsOf
<1>3. Bodies(<<>>) = <<>> /\ Bodies(a.out) \in Seq(Chars)
  BY <1>2, BodiesLaws DEF Text
<1>4. CASE a.cur = <<>>
  <2>1. b = a
    BY <1>4 DEF FenceFlush
  <2>2. a.len = 0
    BY <1>4 DEF FenceStates
  <2>3. Seen(a) = Bodies(a.out)
    BY <1>3, <1>4, ConcatEmptySeq DEF Seen
  <2> QED
    BY <1>4, <2>1, <2>2, <2>3 DEF Held
<1>5. CASE a.cur # <<>>
  <2> DEFINE j == Joined(a.cur)
             t == FencedText(o, j)
  <2>1. j \in B /\ Len(j) <= MaxLen - 8 /\ Body(j) = Bodies(a.cur)
    BY <1>5 DEF FenceStates
  <2>2. t \in A /\ t \in Text /\ Body(t) = Body(j)
    BY <2>1, FencedPiece
  <2>3. b = [out |-> Append(a.out, t), cur |-> <<>>, len |-> 0]
    BY <1>5 DEF FenceFlush
  <2> HIDE DEF t, j, A, b
  <2>4. Append(a.out, t) \in Seq(A) /\ Append(a.out, t) # <<>>
    BY <1>1, <2>2, AppendIs
  <2>5. Bodies(Append(a.out, t)) = Bodies(a.out) \o Body(t)
    BY <1>2, <2>2, BodiesLaws
  <2>6. b.out = Append(a.out, t) /\ b.cur = <<>> /\ b.len = 0
    BY <2>3
  <2>7. b \in [out : Seq(A), cur : Seq(B), len : Nat]
    <3>1. <<>> \in Seq(B)
      BY EmptySeq
    <3> HIDE DEF B
    <3> QED
      BY <2>3, <2>4, <3>1
  <2>8. b \in FenceStates(S)
    BY <2>6, <2>7 DEF FenceStates, A
  <2> QED
    BY <2>1, <2>2, <2>4, <2>5, <2>6, <2>8 DEF b, Seen
<1> QED
  BY <1>4, <1>5

\* The cuts of a line, each in a fence of its own.
LEMMA FenceCutsAre ==
    ASSUME NEW S \in SUBSET Own, Newline \in S, NEW o \in Seq(S), FenceLine(o),
           NEW line \in Clean(S)
    PROVE  /\ FenceCuts(o, line) \in Seq(Shut(S))
           /\ Bodies(FenceCuts(o, line)) = Body(line)
           /\ line # <<>> => FenceCuts(o, line) # <<>>
<1> DEFINE r == FenceRoom(o)
           w == HardCuts(line, r)
           A == Shut(S)
           F == Fitting(S, r)
           c == FenceCuts(o, line)
           n == Len(w)
<1>1. S \in SUBSET Chars /\ o \in Text /\ line \in Seq(S) /\ line \in Text /\ Whole(line) /\ NoTicks(line)
  BY CleanSound, MarkedIs DEF Clean
<1>2. r = MaxLen - 8 /\ r \in Nat /\ r >= 2
  BY <1>1, RoomIs
<1> HIDE DEF r
<1>3. w \in Seq(F) /\ Bodies(w) = Body(line) /\ (line # <<>> => w # <<>>)
  BY <1>1, <1>2, LongLine
<1> HIDE DEF w, F
<1>4. n \in Nat /\ DOMAIN w = 1..n /\ w \in [1..n -> F]
  BY <1>3, LenProperties
<1>5. ASSUME NEW i \in 1..n
      PROVE  /\ w[i] \in Text /\ FencedText(o, Joined(<<w[i]>>)) \in A
             /\ Body(FencedText(o, Joined(<<w[i]>>))) = Body(w[i])
  <2>1. w[i] \in F
    BY <1>4
  <2>2. w[i] \in Clean(S) /\ Len(w[i]) <= MaxLen - 8
    BY <1>2, <2>1 DEF F, Fitting, Clean
  <2>3. w[i] \in Text
    BY <1>1, <2>2, CleanSound
  <2>4. Joined(<<w[i]>>) = w[i]
    BY <2>3, JoinedLaws
  <2> QED
    BY <2>2, <2>3, <2>4, FencedPiece
<1>6. c = [i \in 1..n |-> FencedText(o, Joined(<<w[i]>>))]
  BY <1>4 DEF FenceCuts, w, r
<1>7. c \in [1..n -> A]
  <2> HIDE DEF A, c, n
  <2> QED
    BY <1>5, <1>6
<1>8. c \in Seq(A) /\ Len(c) = n
  <2> HIDE DEF A, c, n
  <2> QED
    BY <1>4, <1>7
<1>9. w \in Seq(Text)
  <2> DEFINE T == Text
  <2>1. \A i \in 1..n : w[i] \in T
    BY <1>5
  <2> HIDE DEF T
  <2>2. w \in [1..n -> T]
    BY <1>4, <2>1
  <2> QED
    BY <1>4, <2>2 DEF T
<1>10. c \in Seq(Text)
  BY <1>8, TextsOf
<1>11. Bodies(c) = Bodies(w)
  <2>1. \A i \in 1..n : Body(c[i]) = Body(w[i])
    BY <1>5, <1>6
  <2>2. Alike(c, w)
    BY <1>8, <2>1 DEF Alike
  <2> QED
    BY <1>9, <1>10, <2>2, BodiesAlike
<1>12. w # <<>> => c # <<>>
  BY <1>3, <1>8, EmptySeq
<1> QED
  BY <1>3, <1>8, <1>11, <1>12

\* One line more is collected, or cut.
LEMMA FenceStepIs ==
    ASSUME NEW S \in SUBSET Own, Newline \in S, NEW o \in Seq(S), FenceLine(o),
           NEW a \in FenceStates(S), NEW line \in Clean(S)
    PROVE  LET b == FenceStep(o, a, line)
           IN  b \in FenceStates(S) /\ Seen(b) = Seen(a) \o Body(line) /\ Held(b)
<1> DEFINE r == FenceRoom(o)
           A == Shut(S)
           B == Clean(S)
           add == FenceAdds(a, line)
           m == FenceMakesRoom(o, a, line)
           b == FenceStep(o, a, line)
<1>1. a \in [out : Seq(A), cur : Seq(B), len : Nat] /\ (a.cur = <<>> => a.len = 0)
  BY DEF FenceStates
<1>2. /\ o \in Text /\ S \in SUBSET Chars /\ line \in Text /\ Sound(line) /\ Len(line) \in Nat
      /\ a.out \in Seq(Text) /\ a.cur \in Seq(Text) /\ A \in SUBSET Text /\ B \in SUBSET Text
      /\ line \in B /\ a.len \in Nat
  BY <1>1, TextsOf, MarkedIs, CleanSound
<1>3. r = MaxLen - 8 /\ r \in Nat /\ r >= 2
  BY <1>2, RoomIs
<1>4. add = Len(line) + (IF a.cur = <<>> THEN 0 ELSE 1) /\ add \in Nat
  BY <1>2 DEF FenceAdds
<1> HIDE DEF add
<1>5. /\ m \in FenceStates(S) /\ Seen(m) = Seen(a)
      /\ m = a \/ (m.cur = <<>> /\ m.len = 0)
      /\ a.len + add > r => m.cur = <<>> /\ m.len = 0
      /\ a.len + add <= r => m = a
  <2> DEFINE f == FenceFlush(o, a)
  <2>1. f \in FenceStates(S) /\ f.cur = <<>> /\ f.len = 0 /\ Bodies(f.out) = Seen(a)
    BY FenceFlushIs
  <2>2. f.out \in Seq(Text)
    BY <2>1, TextsOf DEF FenceStates
  <2>3. Seen(f) = Bodies(f.out)
    <3>1. Bodies(f.out) \in Seq(Chars) /\ Bodies(<<>>) = <<>>
      BY <2>2, BodiesLaws DEF Text
    <3> QED
      BY <2>1, <3>1, ConcatEmptySeq DEF Seen
  <2>4. m = IF a.len + add > r THEN f ELSE a
    BY DEF FenceMakesRoom, add
  <2> HIDE DEF f, m, r
  <2> QED
    BY <1>1, <1>3, <1>4, <2>1, <2>3, <2>4
<1> HIDE DEF m, r
<1>6. /\ m \in [out : Seq(A), cur : Seq(B), len : Nat] /\ (m.cur = <<>> => m.len = 0)
      /\ m.out \in Seq(Text) /\ m.cur \in Seq(Text)
      /\ Bodies(m.out) \in Text /\ Bodies(m.cur) \in Text /\ Body(line) \in Text
  <2>1. m \in [out : Seq(A), cur : Seq(B), len : Nat] /\ (m.cur = <<>> => m.len = 0)
    BY <1>5 DEF FenceStates
  <2>2. m.out \in Seq(Text) /\ m.cur \in Seq(Text)
    BY <2>1, TextsOf
  <2> QED
    BY <1>2, <2>1, <2>2, BodiesLaws, BodyLaws
<1>7. CASE Len(line) > r
  <2> DEFINE c == FenceCuts(o, line)
  <2>1. c \in Seq(A) /\ Bodies(c) = Body(line) /\ c # <<>> /\ c \in Seq(Text)
    <3>1. line # <<>>
      BY <1>2, <1>3, <1>7, EmptySeq
    <3>2. c \in Seq(A) /\ Bodies(c) = Body(line) /\ c # <<>>
      BY <3>1, FenceCutsAre
    <3> QED
      BY <3>2, TextsOf
  <2>2. m.cur = <<>> /\ m.len = 0
    BY <1>1, <1>2, <1>3, <1>4, <1>5, <1>7
  <2>3. b = [m EXCEPT !.out = m.out \o c]
    BY <1>7 DEF FenceStep, m, r
  <2> HIDE DEF A, B, c, b
  <2>4. b.out = m.out \o c /\ b.cur = <<>> /\ b.len = 0 /\ b = [out |-> m.out \o c, cur |-> <<>>, len |-> 0]
    BY <1>6, <2>2, <2>3
  <2>5. m.out \o c \in Seq(A) /\ m.out \o c # <<>>
    BY <1>6, <2>1, ConcatProperties, EmptySeq
  <2>6. b \in [out : Seq(A), cur : Seq(B), len : Nat]
    <3>1. <<>> \in Seq(B)
      BY EmptySeq
    <3> QED
      BY <2>4, <2>5, <3>1
  <2>7. b \in FenceStates(S)
    BY <2>4, <2>6 DEF FenceStates, A, B
  <2>8. Bodies(b.out) = Bodies(m.out) \o Body(line)
    <3>1. Bodies(m.out \o c) = Bodies(m.out) \o Bodies(c)
      BY <1>6, <2>1, BodiesLaws
    <3> QED
      BY <2>1, <2>4, <3>1
  <2>9. Seen(b) = Seen(m) \o Body(line)
    <3>1. Bodies(<<>>) = <<>>
      BY BodiesLaws
    <3>2. Seen(m) = Bodies(m.out)
      BY <1>6, <2>2, <3>1, ConcatEmptySeq DEF Seen, Text
    <3>3. Bodies(m.out) \o Body(line) \in Seq(Chars)
      BY <1>6, ConcatProperties DEF Text
    <3>4. Seen(b) = Bodies(b.out)
      BY <2>4, <2>8, <3>1, <3>3, ConcatEmptySeq DEF Seen
    <3> QED
      BY <2>8, <3>2, <3>4
  <2> QED
    BY <1>5, <2>4, <2>5, <2>7, <2>9 DEF b, Held
<1>8. CASE ~(Len(line) > r)
  <2> DEFINE cur == Append(m.cur, line)
             len == m.len + add
  <2>1. b = [m EXCEPT !.cur = cur, !.len = len]
    BY <1>8 DEF FenceStep, m, r, add
  <2>2. cur \in Seq(B) /\ cur # <<>>
    <3> HIDE DEF B
    <3> QED
      BY <1>2, <1>6, AppendIs
  <2> HIDE DEF b, cur, len
  <2>3. b.out = m.out /\ b.cur = cur /\ b.len = len /\ b = [out |-> m.out, cur |-> cur, len |-> len]
    BY <1>6, <2>1
  <2>9. Bodies(cur) = Bodies(m.cur) \o Body(line)
    BY <1>2, <1>6, BodiesLaws DEF cur
  <2>4. Joined(cur) \in B /\ Len(Joined(cur)) <= len /\ Len(Joined(cur)) <= r /\ len \in Nat
        /\ Body(Joined(cur)) = Bodies(cur)
    <3>1. CASE m.cur = <<>>
      <4>1. cur = <<line>>
        BY <3>1 DEF cur
      <4>2. Joined(cur) = line
        BY <1>2, <4>1, JoinedLaws
      <4>3. Len(line) <= len /\ len \in Nat
        BY <1>2, <1>4, <1>6 DEF len
      <4>4. Bodies(<<line>>) = Body(line)
        BY <1>2, BodiesLaws
      <4> QED
        BY <1>2, <1>3, <1>8, <4>1, <4>2, <4>3, <4>4
    <3>2. CASE m.cur # <<>>
      <4>1. m = a /\ a.len + add <= r /\ add = Len(line) + 1
        BY <1>1, <1>3, <1>4, <1>5, <3>2
      <4> DEFINE j == Joined(m.cur)
      <4>2. j \in B /\ Len(j) <= m.len /\ Len(j) \in Nat /\ Body(j) = Bodies(m.cur)
        BY <1>2, <1>5, <3>2, CleanSound DEF FenceStates
      <4>3. j \in Text
        BY <1>2, <4>2
      <4>4. Joined(cur) = j \o <<Newline>> \o line
        BY <1>2, <1>6, <3>2, JoinedLaws DEF cur
      <4>5. j \o <<Newline>> \o line \in B
        BY <1>2, <4>2, CleanJoint
      <4> HIDE DEF j
      <4>6. Len(j \o <<Newline>> \o line) = Len(j) + 1 + Len(line)
        BY <1>2, <4>3, JointIs
      <4>7. Body(j \o <<Newline>> \o line) = Body(j) \o Body(line)
        BY <1>2, <4>3, BodyJoint
      <4>8. Len(j) + 1 + Len(line) <= len /\ Len(j) + 1 + Len(line) <= r /\ len \in Nat
        <5>1. m.len \in Nat /\ a.len = m.len /\ a.len \in Nat
          BY <1>6, <4>1
        <5> QED
          BY <1>2, <1>3, <4>1, <4>2, <5>1 DEF len
      <4> QED
        BY <2>9, <4>2, <4>4, <4>5, <4>6, <4>7, <4>8
    <3> QED
      BY <3>1, <3>2
  <2>5. b \in [out : Seq(A), cur : Seq(B), len : Nat]
    <3> HIDE DEF A, B
    <3> QED
      BY <1>6, <2>2, <2>3, <2>4
  <2>6. b \in FenceStates(S)
    BY <1>3, <2>2, <2>3, <2>4, <2>5 DEF FenceStates
  <2>7. Seen(b) = Seen(m) \o Body(line)
    <3>1. Bodies(m.out) \in Seq(Chars) /\ Bodies(m.cur) \in Seq(Chars) /\ Body(line) \in Seq(Chars)
      BY <1>6 DEF Text
    <3>2. (Bodies(m.out) \o Bodies(m.cur)) \o Body(line) = Bodies(m.out) \o (Bodies(m.cur) \o Body(line))
      BY <3>1, ConcatAssociative
    <3> QED
      BY <2>3, <2>9, <3>2 DEF Seen
  <2> QED
    BY <1>5, <2>2, <2>3, <2>6, <2>7 DEF b, Held
<1> QED
  BY <1>7, <1>8

\* The lines of a long fence in turn.
LongFenceFold(o, s) == FoldLeft(LAMBDA a, line : FenceStep(o, a, line), NoLines, s)

\* it is the function that the fold applies to the places of s.
IsFenceFold(s, it, o) ==
    it = [t \in SUBSET DOMAIN s |->
            IF t = {} THEN NoLines ELSE FenceStep(o, it[t \ {Max(t)}], s[Max(t)])]

\* The fold, opened once.
LEMMA FenceFoldUnfolds == \A s, o : LongFenceFold(o, s) = (CHOOSE it : IsFenceFold(s, it, o))[DOMAIN s]
BY DEF IsFenceFold, LongFenceFold, FoldLeft, MapThenFoldSet

\* It is a fold whose step is a function.
LEMMA FenceFoldIsFold ==
    ASSUME NEW S, NEW o, NEW s \in Seq(Clean(S)), NoLines \in FenceStates(S),
           \A a \in FenceStates(S), e \in Clean(S) : FenceStep(o, a, e) \in FenceStates(S)
    PROVE  LongFenceFold(o, s) = FoldOf([a \in FenceStates(S) |-> [e \in Clean(S) |-> FenceStep(o, a, e)]], NoLines, s)
<1> DEFINE step == [a \in FenceStates(S) |-> [e \in Clean(S) |-> FenceStep(o, a, e)]]
           base == NoLines
           c == CHOOSE it : IsFenceFold(s, it, o)
<1>1. step \in [FenceStates(S) -> [Clean(S) -> FenceStates(S)]]
  OBVIOUS
<1>2. \A a \in FenceStates(S), e \in Clean(S) : step[a][e] = FenceStep(o, a, e)
  OBVIOUS
<1>3. Len(s) \in Nat /\ DOMAIN s = 1..Len(s) /\ \A i \in 1..Len(s) : s[i] \in Clean(S)
  BY LenProperties, ElementOfSeq
<1>0. base \in FenceStates(S)
  OBVIOUS
<1> HIDE DEF step, base
<1>4. PICK it \in [SUBSET DOMAIN s -> FenceStates(S)] : IsIter(step, base, s, it)
  BY <1>0, <1>1, FoldIter
<1>5. IsFenceFold(s, it, o)
  <2>1. ASSUME NEW t \in SUBSET DOMAIN s, t # {}
        PROVE  step[it[t \ {Max(t)}]][s[Max(t)]] = FenceStep(o, it[t \ {Max(t)}], s[Max(t)])
    <3>1. Max(t) \in 1..Len(s) /\ t \ {Max(t)} \in SUBSET DOMAIN s
      BY <1>3, <2>1, MaxOfPlaces
    <3>2. it[t \ {Max(t)}] \in FenceStates(S) /\ s[Max(t)] \in Clean(S)
      BY <1>3, <3>1
    <3> QED
      BY <1>2, <3>2
  <2> QED
    BY <1>4, <2>1 DEF IsIter, IsFenceFold, base
<1>6. IsFenceFold(s, c, o)
  BY <1>5
<1> HIDE DEF c
<1>7. c[{}] = base
  BY <1>6 DEF IsFenceFold, base
<1>8. ASSUME NEW k \in 1..Len(s), c[1..(k - 1)] \in FenceStates(S)
      PROVE  c[1..k] = step[c[1..(k - 1)]][s[k]]
  <2>1. Max(1..k) = k /\ (1..k) \ {k} = 1..(k - 1) /\ 1..k \in SUBSET DOMAIN s /\ 1..k # {}
    BY <1>3, MaxOfPlaces
  <2>2. c[1..k] = FenceStep(o, c[1..(k - 1)], s[k])
    BY <1>6, <2>1 DEF IsFenceFold
  <2>3. s[k] \in Clean(S)
    BY <1>3
  <2> QED
    BY <1>2, <1>8, <2>2, <2>3
<1>9. TakesSteps(step, base, s, FenceStates(S), c)
  BY <1>7, <1>8 DEF TakesSteps
<1>a. Stepper(step, base, FenceStates(S), Clean(S))
  BY <1>0, <1>1 DEF Stepper
<1>10. c[DOMAIN s] = FoldOf(step, base, s) /\ c[DOMAIN s] \in FenceStates(S)
  BY <1>a, <1>9, FoldMatch
<1> QED
  BY <1>10, FenceFoldUnfolds DEF c, step, base

\* The body of a long fence, line by line.
LEMMA FenceFoldLaws ==
    ASSUME NEW S \in SUBSET Own, Newline \in S, NEW o \in Seq(S), FenceLine(o)
    PROVE  /\ NoLines \in FenceStates(S) /\ LongFenceFold(o, <<>>) = NoLines
           /\ \A s \in Seq(Clean(S)) : LongFenceFold(o, s) \in FenceStates(S)
           /\ \A s \in Seq(Clean(S)), x \in Clean(S) :
                 LongFenceFold(o, Append(s, x)) = FenceStep(o, LongFenceFold(o, s), x)
<1> DEFINE A == FenceStates(S)
           E == Clean(S)
           step == [a \in A |-> [e \in E |-> FenceStep(o, a, e)]]
<1>1. NoLines \in A
  <2> DEFINE X == Shut(S)
             Y == Clean(S)
  <2>1. <<>> \in Seq(X) /\ <<>> \in Seq(Y)
    BY EmptySeq
  <2> HIDE DEF X, Y
  <2>2. [out |-> <<>>, cur |-> <<>>, len |-> 0] \in [out : Seq(X), cur : Seq(Y), len : Nat]
    BY <2>1
  <2> QED
    BY <2>2 DEF FenceStates, NoLines, X, Y
<1>2. \A a \in A, e \in E : FenceStep(o, a, e) \in A
  BY FenceStepIs
<1>3. ASSUME NEW s \in Seq(E)
      PROVE  LongFenceFold(o, s) = FoldOf(step, NoLines, s)
  BY <1>1, <1>2, FenceFoldIsFold
<1> HIDE DEF A, E
<1>4. step \in [A -> [E -> A]] /\ \A a \in A, e \in E : step[a][e] = FenceStep(o, a, e)
  BY <1>2
<1> HIDE DEF step
<1>5. FoldFollows(step, NoLines, A, E)
  <2>1. Stepper(step, NoLines, A, E)
    BY <1>1, <1>4 DEF Stepper
  <2> QED
    BY <2>1, FoldLaws
<1>6. <<>> \in Seq(E) /\ \A s \in Seq(E), x \in E : Append(s, x) \in Seq(E)
  BY EmptySeq, AppendProperties
<1>7. LongFenceFold(o, <<>>) = NoLines
  BY <1>3, <1>5, <1>6 DEF FoldFollows
<1>8. \A s \in Seq(E) : LongFenceFold(o, s) \in A
  BY <1>3, <1>5 DEF FoldFollows
<1>9. \A s \in Seq(E), x \in E : LongFenceFold(o, Append(s, x)) = FenceStep(o, LongFenceFold(o, s), x)
  <2> TAKE s \in Seq(E), x \in E
  <2>1. FoldOf(step, NoLines, Append(s, x)) = step[FoldOf(step, NoLines, s)][x]
    BY <1>5 DEF FoldFollows
  <2>2. FoldOf(step, NoLines, s) = LongFenceFold(o, s) /\ LongFenceFold(o, s) \in A
    BY <1>3, <1>8
  <2>3. LongFenceFold(o, Append(s, x)) = FoldOf(step, NoLines, Append(s, x))
    BY <1>3, <1>6
  <2>4. step[LongFenceFold(o, s)][x] = FenceStep(o, LongFenceFold(o, s), x)
    BY <1>4, <2>2
  <2> QED
    BY <2>1, <2>2, <2>3, <2>4
<1> QED
  BY <1>1, <1>7, <1>8, <1>9 DEF A, E

\* The parts of a long fence are closed and together show its lines.
LEMMA FenceOutLaws ==
    ASSUME NEW S \in SUBSET Own, Newline \in S, NEW o \in Seq(S), FenceLine(o),
           NEW body \in Seq(Clean(S))
    PROVE  /\ FenceOut(o, body) \in Seq(Shut(S))
           /\ Bodies(FenceOut(o, body)) = Bodies(body)
           /\ body # <<>> => FenceOut(o, body) # <<>>
<1> DEFINE E == Clean(S)
           fold(s) == LongFenceFold(o, s)
           G == {s \in Seq(E) : Seen(fold(s)) = Bodies(s) /\ (s # <<>> => Held(fold(s)))}
<1>1. <<>> \in G
  <2>1. <<>> \in Seq(E) /\ fold(<<>>) = NoLines /\ Bodies(<<>>) = <<>>
    BY FenceFoldLaws, EmptySeq, BodiesLaws
  <2>2. Seen(NoLines) = <<>>
    <3>1. <<>> \in Seq(Chars)
      BY EmptySeq
    <3>2. NoLines.out = <<>> /\ NoLines.cur = <<>>
      BY DEF NoLines
    <3> QED
      BY <2>1, <3>1, <3>2, ConcatEmptySeq DEF Seen
  <2> QED
    BY <2>1, <2>2
<1>2. ASSUME NEW s \in G, NEW x \in E
      PROVE  Append(s, x) \in G
  <2>1. s \in Seq(E) /\ s \in Seq(Text) /\ x \in Text
    BY TextsOf
  <2>2. fold(s) \in FenceStates(S) /\ fold(Append(s, x)) = FenceStep(o, fold(s), x)
    BY <2>1, FenceFoldLaws
  <2>3. Seen(FenceStep(o, fold(s), x)) = Seen(fold(s)) \o Body(x) /\ Held(FenceStep(o, fold(s), x))
    BY <2>2, FenceStepIs
  <2>4. Bodies(Append(s, x)) = Bodies(s) \o Body(x)
    BY <2>1, BodiesLaws
  <2>5. Append(s, x) \in Seq(E)
    BY <2>1, AppendProperties
  <2> QED
    BY <2>2, <2>3, <2>4, <2>5
<1>3. G \in SUBSET Seq(E)
  OBVIOUS
<1> HIDE DEF G
<1>4. G = Seq(E)
  BY <1>1, <1>2, <1>3, SeqSetInduction
<1>5. Seen(fold(body)) = Bodies(body) /\ (body # <<>> => Held(fold(body)))
  BY <1>4 DEF G
<1> DEFINE a == fold(body)
<1>6. a \in FenceStates(S) /\ FenceOut(o, body) = FenceFlush(o, a).out
  BY FenceFoldLaws DEF FenceOut, LongFenceFold
<1> HIDE DEF a
<1>7. /\ FenceFlush(o, a) \in FenceStates(S)
      /\ Bodies(FenceFlush(o, a).out) = Seen(a)
      /\ Held(a) => FenceFlush(o, a).out # <<>>
  BY <1>6, FenceFlushIs
<1>8. FenceFlush(o, a).out \in Seq(Shut(S))
  BY <1>7 DEF FenceStates
<1> QED
  BY <1>5, <1>6, <1>7, <1>8 DEF a

\* A paragraph that begins with the opening of a fence, and ends with its
\* closing if it is closed.
FencePart(p) ==
    /\ p # <<>> /\ p[1].kind = "tick"
    /\ Marks(p) = 1 \/ (Marks(p) = 2 /\ p[Len(p)].kind = "tick")

\* What the lines of such a paragraph are.
FenceLines(p, L, b) ==
    /\ FenceLine(L[1]) /\ b \in {Len(L) - 1, Len(L)} /\ b >= 2
    /\ FenceBody(L) = SubSeq(L, 2, b)
    /\ \A j \in 2..b : NoTicks(L[j])
    /\ b # Len(L) => FenceLine(L[Len(L)])

\* Nothing is trimmed off a line of backticks.
LEMMA TrimmedFence ==
    ASSUME NEW x \in Text, FenceLine(x)
    PROVE  Len(TrimBoth(x)) = 3
<1>1. Len(x) = 3 /\ x \in Seq(Chars) /\ \A i \in 1..3 : Shows(x[i])
  BY ShowsTicks DEF FenceLine, Text
<1>2. ~IsBlank(x)
  <2>1. 1 \in DOMAIN x
    BY <1>1, LenProperties
  <2> QED
    BY <1>1, <2>1 DEF IsBlank
<1>3. PICK a \in 1..Len(x) : \E b \in a..Len(x) :
                 /\ TrimBoth(x) = SubSeq(x, a, b)
                 /\ \A i \in 1..(a - 1) : ~Shows(x[i])
                 /\ \A i \in (b + 1)..Len(x) : ~Shows(x[i])
  BY <1>2, TrimBothIs
<1>4. PICK b \in a..Len(x) :
                 /\ TrimBoth(x) = SubSeq(x, a, b)
                 /\ \A i \in 1..(a - 1) : ~Shows(x[i])
                 /\ \A i \in (b + 1)..Len(x) : ~Shows(x[i])
  BY <1>3
<1>5. a = 1
  <2> SUFFICES ASSUME a # 1
               PROVE  FALSE
    OBVIOUS
  <2>1. 1 \in 1..(a - 1) /\ 1 \in 1..3
    BY <1>1
  <2> QED
    BY <1>1, <1>4, <2>1
<1>6. b = 3
  <2> SUFFICES ASSUME b # 3
               PROVE  FALSE
    OBVIOUS
  <2>1. 3 \in (b + 1)..Len(x) /\ 3 \in 1..3
    BY <1>1
  <2> QED
    BY <1>1, <1>4, <2>1
<1>7. a \in 1..(Len(x) + 1) /\ b \in (a - 1)..Len(x) /\ b - a + 1 = 3
  BY <1>1, <1>5, <1>6
<1>8. Len(SubSeq(x, a, b)) = b - a + 1
  BY <1>1, <1>7, PartIs
<1> QED
  BY <1>4, <1>7, <1>8

\* The first line is the opening, and only the last may be a closing.
LEMMA FenceLinesAre ==
    ASSUME NEW S \in SUBSET Own, NEW p \in Seq(S), Sound(p), FencePart(p), Len(p) > MaxLen
    PROVE  LET L == LinesOf(p)
           IN  /\ L \in Seq(Clean(S) \cup {x \in Seq(S) : FenceLine(x)})
               /\ L \in Seq(Text) /\ Len(L) >= 2 /\ Body(p) = Bodies(L)
               /\ \E b \in 1..Len(L) : FenceLines(p, L, b)
<1> DEFINE L == LinesOf(p)
           n == Len(L)
           rows == FenceRows(L)
<1>1. /\ S \in SUBSET Chars /\ Seq(S) \in SUBSET Text /\ Seq(Seq(S)) \in SUBSET Seq(Text) /\ p \in Text
      /\ Len(p) \in Nat /\ MaxLen \in Nat /\ MaxLen > 9
  BY MarkedIs, TextOf, LimitIs, LenProperties
<1>2. L \in Seq(Seq(S)) /\ L # <<>> /\ Joined(L) = p /\ \A j \in 1..n : NoNewline(L[j])
  BY <1>1, LinesJoin DEF CutOf
<1> HIDE DEF L
<1>3. L \in Seq(Text) /\ L \in SomeLines
  BY <1>1, <1>2 DEF SomeLines
<1>4. n \in Nat /\ n # 0 /\ DOMAIN L = 1..n /\ \A j \in 1..n : L[j] \in Seq(S) /\ L[j] \in Text
  BY <1>1, <1>2, EmptySeq, LenProperties, ElementOfSeq
<1>5. \A j \in 1..n : Sound(L[j])
  BY <1>2, <1>3, SoundLines
<1>6. \A j \in 1..n : FenceLine(L[j]) \/ NoTicks(L[j])
  BY <1>2, <1>4, <1>5, NeatLine DEF Sound
<1>7. \A j \in 1..n : /\ FenceLine(L[j]) <=> j \in rows
                      /\ NoTicks(L[j]) <=> j \notin rows
  <2> TAKE j \in 1..n
  <2>1. L[j] \in Text /\ j \in DOMAIN L
    BY <1>4
  <2>2. FenceLine(L[j]) => IsFence(L[j])
    BY <2>1, FenceOfLine
  <2>3. NoTicks(L[j]) => ~IsFence(L[j])
    BY <2>1, FenceOfLine
  <2> QED
    BY <1>6, <2>1, <2>2, <2>3 DEF FenceRows
<1>8. IsFiniteSet(rows) /\ Cardinality(rows) = Marks(p) /\ rows \in SUBSET (1..n)
  <2>1. Counted(L)
    BY <1>2, <1>3, <1>5, FenceCount DEF AllNeat, Sound
  <2> QED
    BY <1>2, <1>4, <2>1 DEF Counted, FenceRows
<1>9. 1 \in rows /\ 1 \in 1..n
  <2>1. 1 \in 1..n
    BY <1>4
  <2>2. p[1].kind = "tick" /\ p # <<>>
    BY DEF FencePart
  <2>3. p[1] # Newline
    BY <2>2, NewlineIs
  <2>4. L[1] # <<>> /\ p[1] = L[1][1]
    BY <1>2, <1>3, <2>2, <2>3, FirstOfJoined
  <2>5. 1 \in 1..Len(L[1])
    <3>1. L[1] \in Seq(S)
      BY <1>4, <2>1
    <3>2. Len(L[1]) \in Nat /\ Len(L[1]) # 0
      BY <2>4, <3>1, EmptySeq, LenProperties
    <3> QED
      BY <3>2
  <2>6. ~NoTicks(L[1])
    BY <2>2, <2>4, <2>5 DEF NoTicks
  <2> QED
    BY <1>7, <2>1, <2>6
<1>10. n >= 2
  <2> SUFFICES ASSUME n < 2
               PROVE  FALSE
    BY <1>4
  <2>1. n = 1
    BY <1>4
  <2>2. L = <<L[1]>>
    BY <1>2, <2>1
  <2>3. p = L[1]
    BY <1>2, <1>4, <1>9, <2>2, JoinedLaws
  <2>4. Len(p) = 3
    BY <1>7, <1>9, <2>3 DEF FenceLine
  <2> QED
    BY <1>1, <2>4
<1>11. Last(L) = L[n]
  BY DEF Last
<1>12. ASSUME Marks(p) = 1
       PROVE  FenceLines(p, L, n)
  <2>1. rows = {1}
    <3>1. {1} \subseteq rows /\ Cardinality({1}) = 1
      BY <1>9, FS_Singleton
    <3> QED
      BY <1>8, <1>12, <3>1, FS_Subset
  <2>2. \A j \in 2..n : NoTicks(L[j])
    BY <1>4, <1>7, <2>1
  <2>3. ~IsFence(L[n])
    <3>1. n \in 2..n /\ n \in 1..n
      BY <1>10, <1>4
    <3> QED
      BY <1>4, <2>2, <3>1, FenceOfLine
  <2>4. FenceBody(L) = SubSeq(L, 2, n)
    BY <1>11, <2>3 DEF FenceBody, FenceClosed
  <2> QED
    BY <1>7, <1>9, <1>10, <2>2, <2>4 DEF FenceLines
<1>13. ASSUME Marks(p) = 2, p[Len(p)].kind = "tick"
       PROVE  FenceLines(p, L, n - 1)
  <2> DEFINE l == L[n]
  <2>0. n \in 1..n /\ l \in Seq(S)
    BY <1>4
  <2>1. l # <<>> /\ p[Len(p)] = l[Len(l)]
    <3>1. p # <<>> /\ p[Len(p)] # Newline
      BY <1>13, NewlineIs DEF FencePart
    <3> QED
      BY <1>2, <1>3, <3>1, LastOfJoined
  <2>2. Len(l) \in 1..Len(l)
    <3>1. Len(l) \in Nat /\ Len(l) # 0
      BY <2>0, <2>1, EmptySeq, LenProperties
    <3> QED
      BY <3>1
  <2>3. ~NoTicks(l)
    BY <1>13, <2>1, <2>2 DEF NoTicks
  <2>4. n \in rows /\ FenceLine(l)
    BY <1>7, <2>0, <2>3
  <2>5. rows = {1, n}
    <3>1. {1, n} \subseteq rows /\ Cardinality({1}) = 1 /\ IsFiniteSet({1})
      BY <1>9, <2>4, FS_Singleton
    <3>2. Cardinality({1} \cup {n}) = 2
      <4>1. n \notin {1}
        BY <1>10
      <4> DEFINE o == {1}
      <4>2. IsFiniteSet(o) /\ Cardinality(o) = 1 /\ n \notin o
        BY <3>1, <4>1
      <4> HIDE DEF o, n
      <4>3. Cardinality(o \cup {n}) = Cardinality(o) + 1
        BY <4>2, FS_AddElement
      <4>4. Cardinality(o \cup {n}) = 2
        BY <4>2, <4>3
      <4> QED
        BY <4>4 DEF o
    <3>3. {1} \cup {n} = {1, n}
      OBVIOUS
    <3> QED
      BY <1>8, <1>13, <3>1, <3>2, <3>3, FS_Subset
  <2>6. \A j \in 2..(n - 1) : NoTicks(L[j])
    <3> TAKE j \in 2..(n - 1)
    <3>0. n \in Nat
      BY <1>4
    <3> HIDE DEF n
    <3>1. j \in 1..n /\ j # 1 /\ j # n
      BY <3>0
    <3>2. j \notin rows
      BY <2>5, <3>1
    <3> QED
      BY <1>7, <3>1, <3>2
  <2>7. Len(TrimBoth(l)) = 3 /\ IsFence(l)
    BY <1>4, <2>0, <2>4, TrimmedFence, FenceOfLine
  <2>8. FenceBody(L) = SubSeq(L, 2, n - 1)
    BY <1>11, <2>7 DEF FenceBody, FenceClosed
  <2>9. n - 1 >= 2
    <3> SUFFICES ASSUME n = 2
                 PROVE  FALSE
      BY <1>4, <1>10
    <3> DEFINE x == L[1]
               e == <<x>>
    <3>1. x \in Text /\ l \in Text /\ Len(x) = 3 /\ Len(l) = 3
      BY <1>4, <1>7, <1>9, <2>0, <2>4 DEF FenceLine
    <3>2. e \in Seq(Text) /\ e # <<>> /\ Joined(e) = x
      BY <3>1, LinesAre, JoinedLaws
    <3>3. L = Append(e, l)
      BY <1>2
    <3> HIDE DEF e
    <3>4. p = x \o <<Newline>> \o l
      BY <1>2, <3>1, <3>2, <3>3, JoinedLaws
    <3>5. Len(x \o <<Newline>> \o l) = Len(x) + 1 + Len(l)
      BY <3>1, JointIs
    <3> QED
      BY <1>1, <3>1, <3>4, <3>5
  <2> QED
    BY <1>4, <1>7, <1>9, <2>4, <2>6, <2>8, <2>9 DEF FenceLines
<1>14. \E b \in 1..n : FenceLines(p, L, b)
  <2>1. n \in 1..n /\ n - 1 \in 1..n
    BY <1>4, <1>10
  <2> QED
    BY <1>12, <1>13, <2>1 DEF FencePart
<1>15. Body(p) = Bodies(L)
  BY <1>2, <1>3, SelLines, NewlineNotSeen DEF Body, Bodies
<1>16. L \in Seq(Clean(S) \cup {x \in Seq(S) : FenceLine(x)})
  <2> DEFINE X == Clean(S) \cup {x \in Seq(S) : FenceLine(x)}
  <2>1. \A j \in 1..n : L[j] \in X
    BY <1>4, <1>5, <1>6 DEF Clean, Sound
  <2> HIDE DEF X
  <2>2. L \in [1..n -> X]
    BY <1>2, <1>4, <2>1, LenProperties
  <2> QED
    BY <1>4, <2>2 DEF X
<1> QED
  BY <1>3, <1>10, <1>14, <1>15, <1>16 DEF L

\* splitLongFence (chunker.ts:194) cuts a block longer than the limit, closed or not,
\* whose opening is three backticks, into at least one piece; each is within the
\* limit and opens and closes one fence, and together they show what the block shows.
THEOREM LongFence ==
    ASSUME NEW S \in SUBSET Own, Newline \in S, NEW p \in Seq(S),
           Sound(p), FencePart(p), Len(p) > MaxLen
    PROVE  /\ SplitLongFence(p) \in Seq(Shut(S))
           /\ SplitLongFence(p) # <<>>
           /\ Bodies(SplitLongFence(p)) = Body(p)
<1> DEFINE L == LinesOf(p)
           n == Len(L)
           X == Clean(S) \cup {x \in Seq(S) : FenceLine(x)}
           o == L[1]
<1>1. /\ L \in Seq(X) /\ L \in Seq(Text) /\ n >= 2 /\ n \in Nat /\ Body(p) = Bodies(L)
      /\ \E b \in 1..n : FenceLines(p, L, b)
  BY FenceLinesAre, LenProperties
<1> HIDE DEF L
<1>2. PICK b \in 1..n : FenceLines(p, L, b)
  BY <1>1
<1>3. /\ FenceLine(o) /\ b \in {n - 1, n} /\ b >= 2 /\ b \in Nat
      /\ FenceBody(L) = SubSeq(L, 2, b)
      /\ \A j \in 2..b : NoTicks(L[j])
      /\ b # n => FenceLine(L[n])
  BY <1>2 DEF FenceLines
<1>4. \A j \in 1..n : /\ L[j] \in X /\ L[j] \in Text
                      /\ NoTicks(L[j]) => L[j] \in Clean(S)
                      /\ FenceLine(L[j]) => L[j] \in Seq(S)
  <2> TAKE j \in 1..n
  <2>1. L[j] \in X /\ L[j] \in Text
    BY <1>1, ElementOfSeq
  <2>2. FenceLine(L[j]) => ~NoTicks(L[j])
    <3> SUFFICES ASSUME FenceLine(L[j])
                 PROVE  ~NoTicks(L[j])
      OBVIOUS
    <3>1. 1 \in 1..Len(L[j]) /\ L[j][1].kind = "tick"
      BY DEF FenceLine
    <3> QED
      BY <3>1 DEF NoTicks
  <2>3. L[j] \in Clean(S) => L[j] \in Seq(S) /\ NoTicks(L[j])
    BY DEF Clean
  <2> QED
    BY <2>1, <2>2, <2>3
<1>5. o \in Seq(S) /\ Head(L) = o
  <2>1. 1 \in 1..n
    BY <1>1
  <2> QED
    BY <1>3, <1>4, <2>1
<1> DEFINE first == SubSeq(L, 1, 1)
           body == SubSeq(L, 2, b)
           last == SubSeq(L, b + 1, n)
<1>6. /\ body \in Seq(Text) /\ Len(body) = b - 1 /\ \A i \in 1..(b - 1) : body[i] = L[i + 1]
      /\ first \in Seq(Text) /\ Len(first) = 1 /\ first[1] = L[1]
      /\ last \in Seq(Text) /\ Len(last) = n - b /\ \A i \in 1..(n - b) : last[i] = L[b + i]
      /\ L = (first \o body) \o last
  <2> DEFINE T == Text
             one == 1
             two == 2
             b1 == b + 1
  <2>0. /\ one = 1 /\ two = 2 /\ b1 = b + 1 /\ L \in Seq(T) /\ n = Len(L)
        /\ one \in 1..(n + 1) /\ one \in (one - 1)..n
        /\ two \in 1..(n + 1) /\ b \in (two - 1)..n
        /\ b1 \in 1..(n + 1) /\ n \in (b1 - 1)..n /\ two - 1 = one
    BY <1>1, <1>3
  <2> HIDE DEF one, two, b1, T, n
  <2>1. /\ SubSeq(L, two, b) \in Seq(T) /\ Len(SubSeq(L, two, b)) = b - two + 1
        /\ \A i \in 1..(b - two + 1) : SubSeq(L, two, b)[i] = L[two + i - 1]
    BY <2>0, PartIs
  <2>2. /\ SubSeq(L, one, one) \in Seq(T) /\ Len(SubSeq(L, one, one)) = one - one + 1
        /\ \A i \in 1..(one - one + 1) : SubSeq(L, one, one)[i] = L[one + i - 1]
    BY <2>0, PartIs
  <2>3. /\ SubSeq(L, b1, n) \in Seq(T) /\ Len(SubSeq(L, b1, n)) = n - b1 + 1
        /\ \A i \in 1..(n - b1 + 1) : SubSeq(L, b1, n)[i] = L[b1 + i - 1]
    BY <2>0, PartIs
  <2>4. L = (SubSeq(L, 1, two - 1) \o SubSeq(L, two, b)) \o SubSeq(L, b + 1, Len(L))
    BY <2>0, CutInThree
  <2>5. SubSeq(L, one, one) = SubSeq(L, 1, 1) /\ SubSeq(L, two, b) = SubSeq(L, 2, b)
        /\ SubSeq(L, b1, n) = SubSeq(L, b + 1, n) /\ SubSeq(L, 1, two - 1) = SubSeq(L, 1, 1)
    BY <2>0
  <2>6. body \in Seq(T) /\ Len(body) = b - 1 /\ \A i \in 1..(b - 1) : body[i] = L[i + 1]
    <3>1. b - two + 1 = b - 1 /\ \A i \in 1..(b - 1) : two + i - 1 = i + 1
      BY <1>3, <2>0
    <3> QED
      BY <2>1, <2>5, <3>1
  <2>7. first \in Seq(T) /\ Len(first) = 1 /\ first[1] = L[1]
    <3>1. one - one + 1 = 1 /\ 1 \in 1..1 /\ one + 1 - 1 = 1
      BY <2>0
    <3> QED
      BY <2>2, <2>5, <3>1
  <2>8. last \in Seq(T) /\ Len(last) = n - b /\ \A i \in 1..(n - b) : last[i] = L[b + i]
    <3>1. n - b1 + 1 = n - b /\ \A i \in 1..(n - b) : b1 + i - 1 = b + i
      BY <1>1, <1>3, <2>0
    <3> QED
      BY <2>3, <2>5, <3>1
  <2> QED
    BY <2>0, <2>4, <2>5, <2>6, <2>7, <2>8 DEF T, n
<1> HIDE DEF first, body, last
<1>7. body \in Seq(Clean(S)) /\ body # <<>>
  <2>1. \A i \in 1..(b - 1) : body[i] \in Clean(S)
    <3> TAKE i \in 1..(b - 1)
    <3>1. i + 1 \in 2..b /\ i + 1 \in 1..n
      BY <1>1, <1>3
    <3> QED
      BY <1>3, <1>4, <1>6, <3>1
  <2>2. b - 1 \in Nat /\ b - 1 # 0
    BY <1>3
  <2> DEFINE m == b - 1
             E == Clean(S)
             T == Text
  <2>3. body \in Seq(T) /\ Len(body) = m /\ m \in Nat /\ m # 0 /\ \A i \in 1..m : body[i] \in E
    BY <1>6, <2>1, <2>2
  <2> HIDE DEF m, E, T
  <2>4. body \in [1..m -> E]
    BY <2>3, LenProperties
  <2> QED
    BY <2>3, <2>4, EmptySeq DEF E
<1>8. Bodies(first) = <<>> /\ Bodies(last) = <<>>
  <2>1. \A i \in 1..Len(first) : Body(first[i]) = <<>>
    <3> TAKE i \in 1..Len(first)
    <3>1. i = 1 /\ 1 \in 1..n
      BY <1>1, <1>6
    <3>2. first[i] = o /\ o \in Text
      BY <1>4, <1>6, <3>1
    <3> QED
      BY <1>3, <3>2, FenceOfLine
  <2>2. \A i \in 1..Len(last) : Body(last[i]) = <<>>
    <3> TAKE i \in 1..Len(last)
    <3>1. i \in 1..(n - b) /\ last[i] = L[b + i] /\ b + i = n /\ b # n /\ n \in 1..n
      BY <1>1, <1>3, <1>6
    <3>2. L[n] \in Text /\ FenceLine(L[n])
      BY <1>3, <1>4, <3>1
    <3> QED
      BY <3>1, <3>2, FenceOfLine
  <2> QED
    BY <1>6, <2>1, <2>2, BodiesNone
<1>9. Bodies(L) = Bodies(body)
  <2> DEFINE fb == first \o body
             T == Text
  <2>1. fb \in Seq(Text)
    <3>1. first \in Seq(T) /\ body \in Seq(T)
      BY <1>6
    <3> HIDE DEF T
    <3>2. fb \in Seq(T)
      BY <3>1, ConcatProperties
    <3> QED
      BY <3>2 DEF T
  <2>2. Bodies(fb) = Bodies(first) \o Bodies(body)
    BY <1>6, BodiesLaws
  <2> HIDE DEF fb
  <2>3. Bodies(fb \o last) = Bodies(fb) \o Bodies(last)
    BY <1>6, <2>1, BodiesLaws
  <2>4. Bodies(body) \in Seq(Chars)
    BY <1>6, BodiesLaws DEF Text
  <2>5. Bodies(fb) = Bodies(body)
    BY <1>8, <2>2, <2>4, ConcatEmptySeq
  <2>6. Bodies(fb) \o Bodies(last) = Bodies(body)
    BY <1>8, <2>4, <2>5, ConcatEmptySeq
  <2> QED
    BY <1>6, <2>3, <2>6 DEF fb
<1> DEFINE out == FenceOut(o, body)
<1>10. out \in Seq(Shut(S)) /\ Bodies(out) = Bodies(body) /\ out # <<>>
  BY <1>3, <1>5, <1>7, FenceOutLaws
<1>11. SplitLongFence(p) = out
  <2>1. FenceBody(L) = body
    BY <1>3 DEF body
  <2> QED
    BY <1>5, <1>10, <2>1, FenceOutIs DEF L
<1> QED
  BY <1>1, <1>9, <1>10, <1>11

-----------------------------------------------------------------------------
(***************************************************************************)
(* The pieces of a paragraph.                                              *)
(***************************************************************************)
\* Whether the fences of a text are closed.
Even(t) == Marks(t) % 2 = 0

\* A paragraph: text without a fence, or a fence.
Paragraph(S) == {q \in Seq(S) : Sound(q) /\ ~IsBlank(q) /\ (NoTicks(q) \/ FencePart(q))}

\* A piece that closes its fences.
EvenPiece(S) == {t \in Piece(S) : Even(t)}

\* What begins with a backtick begins with a fence line.
LEMMA OpensWithFence ==
    ASSUME NEW p \in Text, Neat(p), p # <<>>, p[1].kind = "tick", Len(p) >= 3
    PROVE  IsFence(p)
<1>1. Len(p) \in Nat /\ 1 \in 1..Len(p) /\ 2 \in 1..Len(p) /\ 3 \in 1..Len(p) /\ p \in Seq(Chars)
  BY LenProperties DEF Text
<1>2. p[1].column = 1
  BY <1>1 DEF Neat
<1>3. p[2].kind = "tick" /\ p[2].column = 2
  BY <1>1, <1>2 DEF Neat
<1>4. p[3].kind = "tick"
  BY <1>1, <1>3 DEF Neat
<1>5. Shows(p[1])
  BY ShowsTicks
<1>6. ~IsBlank(p)
  BY <1>1, <1>5, LenProperties DEF IsBlank
<1>7. PICK a \in 1..Len(p) :
                 /\ TrimStart(p) = SubSeq(p, a, Len(p))
                 /\ \A i \in 1..(a - 1) : ~Shows(p[i])
  BY <1>6, TrimStartIs
<1>8. a = 1
  BY <1>1, <1>5, <1>7
<1>9. TrimStart(p) = p
  BY <1>1, <1>7, <1>8
<1>10. \A i \in 1..3 : p[i].kind = "tick"
  <2> TAKE i \in 1..3
  <2>1. i = 1 \/ i = 2 \/ i = 3
    OBVIOUS
  <2> QED
    BY <1>3, <1>4, <2>1
<1> QED
  BY <1>9, <1>10 DEF IsFence

\* The kinds of pieces are among one another.
LEMMA PieceSets ==
    ASSUME NEW S \in SUBSET Own
    PROVE  /\ Piece(S) \in SUBSET Piece(Marked(S))
           /\ Seq({t \in Piece(S) : NoTicks(t)}) \in SUBSET Seq(EvenPiece(Marked(S)))
           /\ Seq(Shut(S)) \in SUBSET Seq(EvenPiece(Marked(S)))
           /\ Seq(EvenPiece(Marked(S))) \in SUBSET Seq(Piece(Marked(S)))
<1>1. Seq(S) \in SUBSET Seq(Marked(S)) /\ Seq(S) \in SUBSET Text
  BY MarkedIs
<1>2. Piece(S) \in SUBSET Piece(Marked(S)) /\ Piece(S) \in SUBSET Text
  BY <1>1 DEF Piece
<1> DEFINE A == {t \in Piece(S) : NoTicks(t)}
           B == Shut(S)
           C == EvenPiece(Marked(S))
           D == Piece(Marked(S))
<1>3. A \in SUBSET C
  <2> SUFFICES ASSUME NEW t \in A
               PROVE  t \in C
    OBVIOUS
  <2>1. Marks(t) = 0 /\ t \in D
    BY <1>2, FenceOfLine
  <2> QED
    BY <2>1 DEF EvenPiece, Even
<1>4. B \in SUBSET C
  <2> SUFFICES ASSUME NEW t \in B
               PROVE  t \in C
    OBVIOUS
  <2>1. Marks(t) = 2 /\ t \in D
    BY DEF Shut
  <2> QED
    BY <2>1 DEF EvenPiece, Even
<1>5. C \in SUBSET D
  BY DEF EvenPiece
<1> HIDE DEF A, B, C, D
<1>6. Seq(A) \in SUBSET Seq(C) /\ Seq(B) \in SUBSET Seq(C) /\ Seq(C) \in SUBSET Seq(D)
  BY <1>3, <1>4, <1>5
<1> QED
  BY <1>2, <1>6 DEF A, B, C, D

\* A paragraph is cut into pieces that together show what it shows, each closing its
\* fences if the paragraph does.
LEMMA PiecesOfParagraph ==
    ASSUME NEW S \in SUBSET Own, Newline \in S, NEW q \in Paragraph(S)
    PROVE  /\ PiecesOf(q) \in Seq(Piece(Marked(S))) /\ PiecesOf(q) # <<>>
           /\ Bodies(PiecesOf(q)) = Body(q)
           /\ Even(q) => PiecesOf(q) \in Seq(EvenPiece(Marked(S)))
<1> DEFINE p == TrimBoth(q)
           D == Piece(Marked(S))
           C == EvenPiece(Marked(S))
<1>1. /\ q \in Seq(S) /\ q \in Text /\ Sound(q) /\ ~IsBlank(q) /\ (NoTicks(q) \/ FencePart(q))
      /\ S \in SUBSET Chars /\ Len(q) \in Nat
  BY MarkedIs, LenProperties DEF Paragraph
<1>2. PICK a \in 1..Len(q) : \E b \in a..Len(q) :
                 /\ p = SubSeq(q, a, b) /\ Shows(q[a]) /\ Shows(q[b])
                 /\ \A i \in 1..(a - 1) : ~Shows(q[i])
                 /\ \A i \in (b + 1)..Len(q) : ~Shows(q[i])
  BY <1>1, TrimBothIs
<1>3. PICK b \in a..Len(q) :
                 /\ p = SubSeq(q, a, b) /\ Shows(q[a]) /\ Shows(q[b])
                 /\ \A i \in 1..(a - 1) : ~Shows(q[i])
                 /\ \A i \in (b + 1)..Len(q) : ~Shows(q[i])
  BY <1>2
<1> HIDE DEF p
<1>4. Sound(p) /\ Body(p) = Body(q) /\ Marks(p) = Marks(q)
  BY <1>1, <1>3, PartSound
<1>5. p \in Seq(S) /\ Len(p) = b - a + 1 /\ \A i \in 1..(b - a + 1) : p[i] = q[a + i - 1]
  <2>1. a \in 1..(Len(q) + 1) /\ b \in (a - 1)..Len(q)
    BY <1>1
  <2> QED
    <3>1. /\ SubSeq(q, a, b) \in Seq(S) /\ Len(SubSeq(q, a, b)) = b - a + 1
          /\ \A i \in 1..(b - a + 1) : SubSeq(q, a, b)[i] = q[a + i - 1]
      BY <1>1, <2>1, PartIs
    <3> QED
      BY <1>3, <3>1
<1>6. /\ p # <<>> /\ p[1] = q[a] /\ p[Len(p)] = q[b] /\ Shows(p[1]) /\ p \in Text /\ Len(p) \in Nat
  <2>1. 1 \in 1..(b - a + 1) /\ Len(p) \in 1..(b - a + 1) /\ a + 1 - 1 = a /\ a + Len(p) - 1 = b
    BY <1>1, <1>5
  <2>2. p[1] = q[a] /\ p[Len(p)] = q[b]
    BY <1>5, <2>1
  <2>3. Len(p) # 0
    BY <2>1
  <2> QED
    BY <1>1, <1>3, <1>5, <2>2, <2>3, MarkedIs, EmptySeq, LenProperties
<1>7. p[1].line # 0
  <2>1. 1 \in 1..Len(p)
    BY <1>5
  <2>2. p[1] \in S
    BY <1>5, <2>1, ElementOfSeq
  <2> QED
    BY <1>6, <2>2 DEF Own
<1>8. CASE Len(p) <= MaxLen
  <2>1. PiecesOf(q) = <<p>>
    BY <1>6, <1>8, LimitIs DEF PiecesOf, p
  <2>2. p \in D
    BY <1>4, <1>5, <1>6, <1>7, <1>8, PieceSets DEF Piece
  <2>3. Even(q) => p \in C
    BY <1>4, <2>2 DEF Even, EvenPiece
  <2>4. Bodies(<<p>>) = Body(p)
    BY <1>6, BodiesLaws
  <2> HIDE DEF C, D
  <2>5. <<p>> \in Seq(D) /\ (Even(q) => <<p>> \in Seq(C)) /\ <<p>> # <<>>
    BY <2>2, <2>3
  <2> QED
    BY <1>4, <2>1, <2>4, <2>5 DEF C, D
<1>9. CASE Len(p) > MaxLen /\ NoTicks(q)
  <2>1. NoTicks(p)
    <3> SUFFICES ASSUME NEW i \in 1..Len(p)
                 PROVE  p[i].kind # "tick"
      BY DEF NoTicks
    <3>1. p[i] = q[a + i - 1] /\ a + i - 1 \in 1..Len(q)
      BY <1>1, <1>5
    <3> QED
      BY <1>9, <3>1 DEF NoTicks
  <2>2. ~IsFence(p)
    BY <1>6, <2>1, FenceOfLine
  <2>3. PiecesOf(q) = SplitLongParagraph(p)
    BY <1>6, <1>9, <2>2, LimitIs DEF PiecesOf, p
  <2>4. Fresh(p)
    BY <1>4, <1>6, <2>1 DEF Fresh, Sound
  <2> DEFINE out == SplitLongParagraph(p)
  <2>5. out \in Seq({t \in Piece(S) : NoTicks(t)}) /\ Bodies(out) = Body(p)
    BY <1>5, <2>4, LongParagraph
  <2>6. out # <<>>
    <3>1. Shows(p[1]) /\ p[1].kind # "tick" /\ 1 \in 1..Len(p)
      BY <1>5, <1>6, <2>1 DEF NoTicks
    <3>2. p[1] \in Plain
      BY <1>6, <3>1, ElementOfSeq DEF Plain, Text
    <3>3. Body(p) # <<>>
      BY <1>6, <3>1, <3>2, SelNothing DEF Body, Text
    <3> QED
      BY <2>5, <3>3, BodiesLaws
  <2> HIDE DEF out
  <2>7. out \in Seq(C) /\ out \in Seq(D)
    BY <2>5, PieceSets
  <2> QED
    BY <1>4, <2>3, <2>5, <2>6, <2>7 DEF out
<1>10. CASE Len(p) > MaxLen /\ FencePart(q)

  <2>2. a = 1
    <3> SUFFICES ASSUME a # 1
                 PROVE  FALSE
      OBVIOUS
    <3>1. 1 \in 1..(a - 1)
      BY <1>1
    <3> QED
      BY <1>3, <1>10, <3>1, ShowsTicks DEF FencePart
  <2>3. q[Len(q)].kind = "tick" => b = Len(q)
    <3> SUFFICES ASSUME q[Len(q)].kind = "tick", b # Len(q)
                 PROVE  FALSE
      OBVIOUS
    <3>1. Len(q) \in (b + 1)..Len(q)
      BY <1>1
    <3> QED
      BY <1>3, <3>1, ShowsTicks
  <2>4. p[1].kind = "tick"
    BY <1>6, <1>10, <2>2 DEF FencePart
  <2>5. FencePart(p)
    BY <1>4, <1>6, <1>10, <2>3, <2>4 DEF FencePart
  <2>6. Len(p) >= 3 /\ MaxLen \in Nat
    BY <1>6, <1>10, LimitIs
  <2>7. IsFence(p)
    BY <1>4, <1>6, <2>4, <2>6, OpensWithFence DEF Sound
  <2>8. PiecesOf(q) = SplitLongFence(p)
    BY <1>6, <1>10, <2>6, <2>7 DEF PiecesOf, p
  <2> DEFINE out == SplitLongFence(p)
  <2>9. out \in Seq(Shut(S)) /\ out # <<>> /\ Bodies(out) = Body(p)
    BY <1>4, <1>5, <1>10, <2>5, LongFence
  <2> HIDE DEF out
  <2>10. out \in Seq(C) /\ out \in Seq(D)
    BY <2>9, PieceSets
  <2> QED
    BY <1>4, <2>8, <2>9, <2>10 DEF out
<1> QED
  BY <1>1, <1>6, <1>8, <1>9, <1>10, LimitIs

-----------------------------------------------------------------------------
(***************************************************************************)
(* The pieces of a section, packed greedily.                               *)
(***************************************************************************)
\* The steps of Packed: a piece is added, or begins the next chunk.
PackCandidate(a, piece) == IF a.current = <<>> THEN piece ELSE a.current \o Between \o piece
PackStep(a, piece) ==
    IF Len(PackCandidate(a, piece)) <= MaxLen THEN [a EXCEPT !.current = PackCandidate(a, piece)]
    ELSE [out |-> Append(a.out, a.current), current |-> piece]
NonePacked == [out |-> <<>>, current |-> <<>>]
PackFold(s) == FoldLeft(LAMBDA a, piece : PackStep(a, piece), NonePacked, s)

\* These are the steps of Packed.
LEMMA PackedIs == \A s : Packed(s) = Append(PackFold(s).out, PackFold(s).current)
BY DEF Packed, PackFold, PackStep, PackCandidate, NonePacked

\* What is packed so far.
PackStates(D) == [out : Seq(D), current : D \cup {<<>>}]

\* it is the function that the fold applies to the places of s.
IsPackFold(s, it) ==
    it = [t \in SUBSET DOMAIN s |->
            IF t = {} THEN NonePacked ELSE PackStep(it[t \ {Max(t)}], s[Max(t)])]

\* The fold, opened once.
LEMMA PackFoldUnfolds == \A s : PackFold(s) = (CHOOSE it : IsPackFold(s, it))[DOMAIN s]
BY DEF IsPackFold, PackFold, FoldLeft, MapThenFoldSet

\* It is a fold whose step is a function.
LEMMA PackFoldIsFold ==
    ASSUME NEW D, NEW s \in Seq(D), NonePacked \in PackStates(D),
           \A a \in PackStates(D), e \in D : PackStep(a, e) \in PackStates(D)
    PROVE  PackFold(s) = FoldOf([a \in PackStates(D) |-> [e \in D |-> PackStep(a, e)]], NonePacked, s)
<1> DEFINE step == [a \in PackStates(D) |-> [e \in D |-> PackStep(a, e)]]
           base == NonePacked
           c == CHOOSE it : IsPackFold(s, it)
<1>1. step \in [PackStates(D) -> [D -> PackStates(D)]]
  OBVIOUS
<1>2. \A a \in PackStates(D), e \in D : step[a][e] = PackStep(a, e)
  OBVIOUS
<1>3. Len(s) \in Nat /\ DOMAIN s = 1..Len(s) /\ \A i \in 1..Len(s) : s[i] \in D
  BY LenProperties, ElementOfSeq
<1>0. base \in PackStates(D)
  OBVIOUS
<1> HIDE DEF step, base
<1>4. PICK it \in [SUBSET DOMAIN s -> PackStates(D)] : IsIter(step, base, s, it)
  BY <1>0, <1>1, FoldIter
<1>5. IsPackFold(s, it)
  <2>1. ASSUME NEW t \in SUBSET DOMAIN s, t # {}
        PROVE  step[it[t \ {Max(t)}]][s[Max(t)]] = PackStep(it[t \ {Max(t)}], s[Max(t)])
    <3>1. Max(t) \in 1..Len(s) /\ t \ {Max(t)} \in SUBSET DOMAIN s
      BY <1>3, <2>1, MaxOfPlaces
    <3>2. it[t \ {Max(t)}] \in PackStates(D) /\ s[Max(t)] \in D
      BY <1>3, <3>1
    <3> QED
      BY <1>2, <3>2
  <2> QED
    BY <1>4, <2>1 DEF IsIter, IsPackFold, base
<1>6. IsPackFold(s, c)
  BY <1>5
<1> HIDE DEF c
<1>7. c[{}] = base
  BY <1>6 DEF IsPackFold, base
<1>8. ASSUME NEW k \in 1..Len(s), c[1..(k - 1)] \in PackStates(D)
      PROVE  c[1..k] = step[c[1..(k - 1)]][s[k]]
  <2>1. Max(1..k) = k /\ (1..k) \ {k} = 1..(k - 1) /\ 1..k \in SUBSET DOMAIN s /\ 1..k # {}
    BY <1>3, MaxOfPlaces
  <2>2. c[1..k] = PackStep(c[1..(k - 1)], s[k])
    BY <1>6, <2>1 DEF IsPackFold
  <2>3. s[k] \in D
    BY <1>3
  <2> QED
    BY <1>2, <1>8, <2>2, <2>3
<1>9. TakesSteps(step, base, s, PackStates(D), c)
  BY <1>7, <1>8 DEF TakesSteps
<1>a. Stepper(step, base, PackStates(D), D)
  BY <1>0, <1>1 DEF Stepper
<1>10. c[DOMAIN s] = FoldOf(step, base, s) /\ c[DOMAIN s] \in PackStates(D)
  BY <1>a, <1>9, FoldMatch
<1> QED
  BY <1>10, PackFoldUnfolds DEF c, step, base

\* Two pieces with an empty line between them.
LEMMA TwoPieces ==
    ASSUME NEW S \in SUBSET Chars, Newline \in S, NEW x \in Piece(S), NEW y \in Piece(S)
    PROVE  LET s == x \o Between \o y
           IN  /\ s \in Text /\ Body(s) = Body(x) \o Body(y)
               /\ Len(s) <= MaxLen => s \in Piece(S) /\ Marks(s) = Marks(x) + Marks(y)
<1> DEFINE nl == <<Newline>>
           e == <<>>
           u == x \o nl \o e
           s == u \o nl \o y
<1>1. /\ x \in Seq(S) /\ y \in Seq(S) /\ x \in Text /\ y \in Text /\ nl \in Seq(S) /\ e \in Seq(S) /\ e \in Text
      /\ Sound(x) /\ Sound(y) /\ x # <<>> /\ Shows(x[1]) /\ x[1].line # 0
  BY TextOf, EmptySeq DEF Piece, Text
<1>2. Between = nl \o nl
  BY DEF Between
<1> HIDE DEF nl, e
<1>3. u = x \o nl /\ u \in Seq(S)
  <2>1. x \o nl \in Seq(S)
    BY <1>1, ConcatProperties
  <2> QED
    BY <2>1, ConcatEmptySeq DEF e
<1>4. x \o Between \o y = s
  <2>1. x \o (nl \o nl) = (x \o nl) \o nl
    BY <1>1, ConcatAssociative, SMTT(30)
  <2> QED
    BY <1>2, <1>3, <2>1
<1>5. /\ u \in Text /\ Len(u) = Len(x) + 1 + Len(e) /\ Len(x) \in Nat /\ Len(e) \in Nat
      /\ \A i \in 1..Len(x) : u[i] = x[i]
  BY <1>1, JointIs DEF nl
<1>6. Sound(u) /\ Body(u) = Body(x) /\ Marks(u) = Marks(x) /\ Marks(x) \in Nat /\ Marks(y) \in Nat
  <2>1. Sound(e) /\ Body(e) = <<>> /\ Marks(e) = 0
    <3>1. Len(e) = 0
      BY EmptySeq DEF e
    <3>2. Sound(e) /\ NoTicks(e)
      BY <3>1 DEF Sound, Whole, Neat, NoTicks
    <3> QED
      BY <1>1, <3>2, FenceOfLine, BodyLaws DEF e
  <2>2. Sound(u)
    BY <1>1, <2>1, SoundJoint DEF nl
  <2>3. Body(u) = Body(x) \o Body(e) /\ Marks(u) = Marks(x) + Marks(e) /\ Body(x) \in Seq(Chars)
        /\ Marks(x) \in Nat
    BY <1>1, BodyJoint DEF nl, Text
  <2>4. Body(u) = Body(x)
    BY <2>1, <2>3, ConcatEmptySeq
  <2>5. Marks(y) \in Nat
    BY <1>1, BodyJoint
  <2> HIDE DEF u
  <2> QED
    BY <2>1, <2>2, <2>3, <2>4, <2>5
<1>7. u[1] = x[1] /\ Len(u) # 0 /\ 1 \in 1..Len(u)
  <2>1. Len(x) # 0
    BY <1>1, EmptySeq
  <2>2. 1 \in 1..Len(x)
    BY <1>5, <2>1
  <2> HIDE DEF u
  <2> QED
    BY <1>5, <2>2
<1> HIDE DEF u
<1>8. s \in Seq(S)
  <2>1. u \o nl \in Seq(S)
    BY <1>1, <1>3, ConcatProperties
  <2> QED
    BY <1>1, <2>1, ConcatProperties
<1>9. /\ s \in Text /\ Len(s) = Len(u) + 1 + Len(y) /\ Len(y) \in Nat /\ s[1] = u[1]
      /\ Sound(s) /\ Body(s) = Body(u) \o Body(y) /\ Marks(s) = Marks(u) + Marks(y)
  <2>1. /\ s \in Text /\ Len(s) = Len(u) + 1 + Len(y) /\ Len(y) \in Nat
        /\ \A i \in 1..Len(u) : s[i] = u[i]
    BY <1>1, <1>5, JointIs DEF nl
  <2>2. Sound(s)
    BY <1>1, <1>5, <1>6, SoundJoint DEF nl
  <2>3. Body(s) = Body(u) \o Body(y) /\ Marks(s) = Marks(u) + Marks(y)
    BY <1>1, <1>5, BodyJoint DEF nl
  <2> HIDE DEF s
  <2> QED
    BY <1>7, <2>1, <2>2, <2>3
<1> HIDE DEF s
<1>10. s # <<>>
  <2>1. Len(s) # 0
    BY <1>5, <1>7, <1>9, LenProperties DEF Text
  <2> QED
    BY <2>1, EmptySeq
<1>11. Len(s) <= MaxLen => s \in Piece(S)
  BY <1>1, <1>7, <1>8, <1>9, <1>10 DEF Piece
<1> QED
  BY <1>4, <1>6, <1>9, <1>11

\* The sets of pieces that packing keeps to.
Packable(S, D) == D = Piece(S) \/ D = EvenPiece(S)

\* Pieces joined within the limit are a piece, which shows what both show.
LEMMA PackJoins ==
    ASSUME NEW S \in SUBSET Chars, Newline \in S, NEW D, Packable(S, D)
    PROVE  /\ D \in SUBSET Piece(S) /\ D \in SUBSET Text /\ <<>> \notin D
           /\ \A x, y \in D : LET s == x \o Between \o y
                              IN  /\ s \in Text /\ Body(s) = Body(x) \o Body(y)
                                  /\ Len(s) <= MaxLen => s \in D
           /\ \A x \in D : Len(x) <= MaxLen
<1>1. D \in SUBSET Piece(S)
  BY DEF Packable, EvenPiece
<1>2. Piece(S) \in SUBSET Text /\ <<>> \notin Piece(S) /\ \A x \in Piece(S) : Len(x) <= MaxLen
  BY TextOf DEF Piece
<1>3. ASSUME NEW x \in D, NEW y \in D
      PROVE  LET s == x \o Between \o y
             IN  /\ s \in Text /\ Body(s) = Body(x) \o Body(y)
                 /\ Len(s) <= MaxLen => s \in D
  <2> DEFINE s == x \o Between \o y
  <2>1. /\ s \in Text /\ Body(s) = Body(x) \o Body(y)
        /\ Len(s) <= MaxLen => s \in Piece(S) /\ Marks(s) = Marks(x) + Marks(y)
    BY <1>1, TwoPieces
  <2>2. Marks(x) \in Nat /\ Marks(y) \in Nat
    BY <1>1, <1>2, BodyJoint
  <2> HIDE DEF s
  <2>3. ASSUME Len(s) <= MaxLen
        PROVE  s \in D
    <3>1. s \in Piece(S) /\ Marks(s) = Marks(x) + Marks(y)
      BY <2>1, <2>3
    <3>2. D = EvenPiece(S) => Marks(x) % 2 = 0 /\ Marks(y) % 2 = 0
      BY DEF EvenPiece, Even
    <3>3. Marks(x) % 2 = 0 /\ Marks(y) % 2 = 0 => Marks(s) % 2 = 0
      <4> DEFINE k == Marks(x)
                 l == Marks(y)
      <4>1. k \in Nat /\ l \in Nat /\ Marks(s) = k + l
        BY <2>2, <3>1
      <4> HIDE DEF k, l
      <4>2. k % 2 = 0 /\ l % 2 = 0 => (k + l) % 2 = 0
        BY <4>1
      <4> QED
        BY <4>1, <4>2 DEF k, l
    <3> QED
      BY <3>1, <3>2, <3>3 DEF Packable, EvenPiece, Even
  <2> QED
    BY <2>1, <2>3 DEF s
<1> QED
  BY <1>1, <1>2, <1>3

\* What is packed so far shows.
Shown(a) == Bodies(a.out) \o Body(a.current)

\* One piece more.
LEMMA PackStepIs ==
    ASSUME NEW S \in SUBSET Chars, Newline \in S, NEW D, Packable(S, D),
           NEW a \in PackStates(D), NEW x \in D
    PROVE  LET b == PackStep(a, x)
           IN  b \in PackStates(D) /\ Shown(b) = Shown(a) \o Body(x)
<1> DEFINE T == Text
           b == PackStep(a, x)
           c == PackCandidate(a, x)
<1>1. /\ D \in SUBSET T /\ <<>> \notin D /\ Len(x) <= MaxLen
      /\ \A y \in D : LET s == y \o Between \o x
                      IN  s \in T /\ Body(s) = Body(y) \o Body(x) /\ (Len(s) <= MaxLen => s \in D)
  BY PackJoins
<1>2. a \in [out : Seq(D), current : D \cup {<<>>}] /\ x \in T /\ Body(<<>>) = <<>> /\ <<>> \in T
  BY <1>1, BodyLaws, EmptySeq DEF PackStates, Text
<1>3. a.out \in Seq(T)
  <2>1. Seq(D) \in SUBSET Seq(T)
    <3> HIDE DEF T
    <3> QED
      BY <1>1
  <2> QED
    BY <1>2, <2>1
<1>4. Bodies(a.out) \in Seq(Chars) /\ Body(x) \in Seq(Chars) /\ Body(a.current) \in Seq(Chars)
  BY <1>1, <1>2, <1>3, BodiesLaws, BodyLaws DEF Text
<1>5. CASE Len(c) <= MaxLen
  <2>1. c \in D /\ Body(c) = Body(a.current) \o Body(x)
    <3>1. CASE a.current = <<>>
      BY <1>2, <1>4, <3>1, ConcatEmptySeq DEF PackCandidate
    <3>2. CASE a.current # <<>>
      BY <1>1, <1>2, <1>5, <3>2 DEF PackCandidate
    <3> QED
      BY <3>1, <3>2
  <2>2. b = [a EXCEPT !.current = c]
    BY <1>5 DEF PackStep
  <2> HIDE DEF c, b
  <2>3. b = [out |-> a.out, current |-> c] /\ b.out = a.out /\ b.current = c
    BY <1>2, <2>2
  <2>4. b \in PackStates(D)
    BY <1>2, <2>1, <2>3 DEF PackStates
  <2>5. Shown(b) = Shown(a) \o Body(x)
    <3>1. (Bodies(a.out) \o Body(a.current)) \o Body(x) = Bodies(a.out) \o (Body(a.current) \o Body(x))
      BY <1>4, ConcatAssociative
    <3> QED
      BY <2>1, <2>3, <3>1 DEF Shown
  <2> QED
    BY <2>4, <2>5 DEF b
<1>6. CASE ~(Len(c) <= MaxLen)
  <2>1. a.current # <<>>
    BY <1>1, <1>6 DEF PackCandidate
  <2>2. a.current \in D /\ a.current \in T
    BY <1>1, <1>2, <2>1
  <2>3. b = [out |-> Append(a.out, a.current), current |-> x]
    BY <1>6 DEF PackStep
  <2>4. Append(a.out, a.current) \in Seq(D)
    BY <1>2, <2>2, AppendIs
  <2>5. Bodies(Append(a.out, a.current)) = Bodies(a.out) \o Body(a.current)
    BY <1>3, <2>2, BodiesLaws
  <2> HIDE DEF c, b
  <2>6. b \in PackStates(D)
    BY <2>3, <2>4 DEF PackStates
  <2>7. Shown(b) = Shown(a) \o Body(x)
    <3>1. b.out = Append(a.out, a.current) /\ b.current = x
      BY <2>3
    <3> QED
      BY <2>5, <3>1 DEF Shown
  <2> QED
    BY <2>6, <2>7 DEF b
<1> QED
  BY <1>5, <1>6

\* Packing, piece by piece.
LEMMA PackFoldLaws ==
    ASSUME NEW S \in SUBSET Chars, Newline \in S, NEW D, Packable(S, D)
    PROVE  /\ NonePacked \in PackStates(D) /\ PackFold(<<>>) = NonePacked
           /\ \A s \in Seq(D) : PackFold(s) \in PackStates(D)
           /\ \A s \in Seq(D), x \in D : PackFold(Append(s, x)) = PackStep(PackFold(s), x)
<1> DEFINE A == PackStates(D)
           step == [a \in A |-> [e \in D |-> PackStep(a, e)]]
<1>1. NonePacked \in A
  <2>1. <<>> \in Seq(D)
    BY EmptySeq
  <2> QED
    BY <2>1 DEF PackStates, NonePacked
<1>2. \A a \in A, e \in D : PackStep(a, e) \in A
  BY PackStepIs
<1>3. ASSUME NEW s \in Seq(D)
      PROVE  PackFold(s) = FoldOf(step, NonePacked, s)
  BY <1>1, <1>2, PackFoldIsFold
<1> HIDE DEF A
<1>4. step \in [A -> [D -> A]] /\ \A a \in A, e \in D : step[a][e] = PackStep(a, e)
  BY <1>2
<1> HIDE DEF step
<1>5. FoldFollows(step, NonePacked, A, D)
  <2>1. Stepper(step, NonePacked, A, D)
    BY <1>1, <1>4 DEF Stepper
  <2> QED
    BY <2>1, FoldLaws
<1>6. <<>> \in Seq(D) /\ \A s \in Seq(D), x \in D : Append(s, x) \in Seq(D)
  BY EmptySeq, AppendProperties
<1>7. PackFold(<<>>) = NonePacked
  BY <1>3, <1>5, <1>6 DEF FoldFollows
<1>8. \A s \in Seq(D) : PackFold(s) \in A
  BY <1>3, <1>5 DEF FoldFollows
<1>9. ASSUME NEW s \in Seq(D), NEW x \in D
      PROVE  PackFold(Append(s, x)) = PackStep(PackFold(s), x)
  <2>1. FoldOf(step, NonePacked, Append(s, x)) = step[FoldOf(step, NonePacked, s)][x]
    BY <1>5 DEF FoldFollows
  <2>2. FoldOf(step, NonePacked, s) = PackFold(s) /\ PackFold(s) \in A
    BY <1>3, <1>8
  <2>3. PackFold(Append(s, x)) = FoldOf(step, NonePacked, Append(s, x))
    BY <1>3, <1>6
  <2>4. step[PackFold(s)][x] = PackStep(PackFold(s), x)
    BY <1>4, <2>2
  <2> QED
    BY <2>1, <2>2, <2>3, <2>4
<1> QED
  BY <1>1, <1>7, <1>8, <1>9 DEF A

\* Packing loses nothing, and keeps what it packs whole.
LEMMA PackedLaws ==
    ASSUME NEW S \in SUBSET Chars, Newline \in S, NEW D, Packable(S, D), NEW pieces \in Seq(D)
    PROVE  Packed(pieces) \in Seq(D \cup {<<>>}) /\ Bodies(Packed(pieces)) = Bodies(pieces)
<1> DEFINE G == {s \in Seq(D) : Shown(PackFold(s)) = Bodies(s)}
           T == Text
<1>1. <<>> \in G
  <2>1. <<>> \in Seq(D) /\ PackFold(<<>>) = NonePacked /\ Bodies(<<>>) = <<>> /\ Body(<<>>) = <<>>
    BY PackFoldLaws, EmptySeq, BodiesLaws, BodyLaws
  <2>2. NonePacked.out = <<>> /\ NonePacked.current = <<>>
    BY DEF NonePacked
  <2>3. <<>> \o <<>> = <<>>
    BY EmptySeq, ConcatEmptySeq
  <2> QED
    BY <2>1, <2>2, <2>3 DEF Shown
<1>2. Seq(D) \in SUBSET Seq(T) /\ D \in SUBSET T /\ <<>> \in T
  <2>1. D \in SUBSET T /\ <<>> \in T
    BY PackJoins, EmptySeq DEF Text
  <2> HIDE DEF T
  <2> QED
    BY <2>1
<1>3. ASSUME NEW s \in G, NEW x \in D
      PROVE  Append(s, x) \in G
  <2>1. s \in Seq(D) /\ s \in Seq(T) /\ x \in T
    BY <1>2
  <2>2. PackFold(s) \in PackStates(D) /\ PackFold(Append(s, x)) = PackStep(PackFold(s), x)
    BY <2>1, PackFoldLaws
  <2>3. Shown(PackStep(PackFold(s), x)) = Shown(PackFold(s)) \o Body(x)
    BY <2>2, PackStepIs
  <2>4. Bodies(Append(s, x)) = Bodies(s) \o Body(x)
    BY <2>1, BodiesLaws
  <2>5. Append(s, x) \in Seq(D)
    BY <2>1, AppendProperties
  <2> QED
    BY <2>2, <2>3, <2>4, <2>5
<1>4. G \in SUBSET Seq(D)
  OBVIOUS
<1> HIDE DEF G
<1>5. G = Seq(D)
  BY <1>1, <1>3, <1>4, SeqSetInduction
<1> DEFINE a == PackFold(pieces)
           E == D \cup {<<>>}
<1>6. a \in PackStates(D) /\ Shown(a) = Bodies(pieces)
  BY <1>5, PackFoldLaws DEF G
<1> HIDE DEF a
<1>7. a.out \in Seq(E) /\ a.out \in Seq(T) /\ a.current \in E /\ a.current \in T
  <2>1. a.out \in Seq(D) /\ a.current \in E
    BY <1>6 DEF PackStates
  <2>2. Seq(D) \in SUBSET Seq(E) /\ E \in SUBSET T
    <3>1. D \in SUBSET E /\ E \in SUBSET T
      BY <1>2
    <3> HIDE DEF E, T
    <3> QED
      BY <3>1
  <2> QED
    BY <1>2, <2>1, <2>2
<1> HIDE DEF E
<1>8. Append(a.out, a.current) \in Seq(E)
  BY <1>7, AppendIs
<1>9. Bodies(Append(a.out, a.current)) = Bodies(a.out) \o Body(a.current)
  BY <1>7, BodiesLaws
<1> QED
  BY <1>6, <1>8, <1>9, PackedIs DEF a, E, Shown

-----------------------------------------------------------------------------
(***************************************************************************)
(* The chunks of a section whose paragraphs are known.                     *)
(***************************************************************************)
\* What is kept of the texts: those that are not empty.
NonEmptyStep(kept, e) == IF e # <<>> THEN Append(kept, e) ELSE kept
KeptTexts(s) == Filtered(s, LAMBDA t : t # <<>>)

\* it is the function that the fold applies to the places of s.
IsKeptTexts(s, it) ==
    it = [t \in SUBSET DOMAIN s |->
            IF t = {} THEN <<>> ELSE NonEmptyStep(it[t \ {Max(t)}], s[Max(t)])]

\* The fold, opened once.
LEMMA KeptTextsUnfolds == \A s : KeptTexts(s) = (CHOOSE it : IsKeptTexts(s, it))[DOMAIN s]
BY DEF IsKeptTexts, KeptTexts, Filtered, FoldLeft, MapThenFoldSet, NonEmptyStep

\* It is a fold whose step is a function.
LEMMA KeptTextsIsFold ==
    ASSUME NEW E, NEW s \in Seq(E), <<>> \in Seq(E),
           \A a \in Seq(E), e \in E : NonEmptyStep(a, e) \in Seq(E)
    PROVE  KeptTexts(s) = FoldOf([a \in Seq(E) |-> [e \in E |-> NonEmptyStep(a, e)]], <<>>, s)
<1> DEFINE step == [a \in Seq(E) |-> [e \in E |-> NonEmptyStep(a, e)]]
           base == <<>>
           c == CHOOSE it : IsKeptTexts(s, it)
<1>1. step \in [Seq(E) -> [E -> Seq(E)]]
  OBVIOUS
<1>2. \A a \in Seq(E), e \in E : step[a][e] = NonEmptyStep(a, e)
  OBVIOUS
<1>3. Len(s) \in Nat /\ DOMAIN s = 1..Len(s) /\ \A i \in 1..Len(s) : s[i] \in E
  BY LenProperties, ElementOfSeq
<1>0. base \in Seq(E)
  OBVIOUS
<1> HIDE DEF step, base
<1>4. PICK it \in [SUBSET DOMAIN s -> Seq(E)] : IsIter(step, base, s, it)
  BY <1>0, <1>1, FoldIter
<1>5. IsKeptTexts(s, it)
  <2>1. ASSUME NEW t \in SUBSET DOMAIN s, t # {}
        PROVE  step[it[t \ {Max(t)}]][s[Max(t)]] = NonEmptyStep(it[t \ {Max(t)}], s[Max(t)])
    <3>1. Max(t) \in 1..Len(s) /\ t \ {Max(t)} \in SUBSET DOMAIN s
      BY <1>3, <2>1, MaxOfPlaces
    <3>2. it[t \ {Max(t)}] \in Seq(E) /\ s[Max(t)] \in E
      BY <1>3, <3>1
    <3> QED
      BY <1>2, <3>2
  <2> QED
    BY <1>4, <2>1 DEF IsIter, IsKeptTexts, base
<1>6. IsKeptTexts(s, c)
  BY <1>5
<1> HIDE DEF c
<1>7. c[{}] = base
  BY <1>6 DEF IsKeptTexts, base
<1>8. ASSUME NEW k \in 1..Len(s), c[1..(k - 1)] \in Seq(E)
      PROVE  c[1..k] = step[c[1..(k - 1)]][s[k]]
  <2>1. Max(1..k) = k /\ (1..k) \ {k} = 1..(k - 1) /\ 1..k \in SUBSET DOMAIN s /\ 1..k # {}
    BY <1>3, MaxOfPlaces
  <2>2. c[1..k] = NonEmptyStep(c[1..(k - 1)], s[k])
    BY <1>6, <2>1 DEF IsKeptTexts
  <2>3. s[k] \in E
    BY <1>3
  <2> QED
    BY <1>2, <1>8, <2>2, <2>3
<1>9. TakesSteps(step, base, s, Seq(E), c)
  BY <1>7, <1>8 DEF TakesSteps
<1>a. Stepper(step, base, Seq(E), E)
  BY <1>0, <1>1 DEF Stepper
<1>10. c[DOMAIN s] = FoldOf(step, base, s) /\ c[DOMAIN s] \in Seq(E)
  BY <1>a, <1>9, FoldMatch
<1> QED
  BY <1>10, KeptTextsUnfolds DEF c, step, base

\* What is kept is the texts of a set.
LEMMA KeptTextsIs ==
    ASSUME NEW E, NEW s \in Seq(E)
    PROVE  KeptTexts(s) = Sel(E, E \ {<<>>}, s)
<1> DEFINE B == E \ {<<>>}
           step == [a \in Seq(E) |-> [e \in E |-> NonEmptyStep(a, e)]]
<1>1. <<>> \in Seq(E) /\ \A a \in Seq(E), e \in E : NonEmptyStep(a, e) \in Seq(E)
  BY EmptySeq, AppendProperties DEF NonEmptyStep
<1>2. KeptTexts(s) = FoldOf(step, <<>>, s)
  BY <1>1, KeptTextsIsFold
<1>3. step = Picks(E, B)
  BY DEF NonEmptyStep, Picks
<1> QED
  BY <1>2, <1>3 DEF Sel

\* Nothing is seen of what is dropped.
LEMMA KeptTextsLaws ==
    ASSUME NEW D \in SUBSET Text, NEW s \in Seq(D \cup {<<>>})
    PROVE  KeptTexts(s) \in Seq(D \ {<<>>}) /\ Bodies(KeptTexts(s)) = Bodies(s)
<1> DEFINE E == D \cup {<<>>}
           B == E \ {<<>>}
           sel(u) == Sel(E, B, u)
           G == {u \in Seq(E) : Bodies(sel(u)) = Bodies(u)}
           T == Text
<1>1. <<>> \in G
  BY SelNone, EmptySeq
<1>2. E \in SUBSET T /\ B \in SUBSET E /\ E \cap B = D \ {<<>>} /\ Body(<<>>) = <<>>
  BY EmptySeq, BodyLaws DEF Text
<1>3. Seq(E) \in SUBSET Seq(T)
  <2> HIDE DEF E, T
  <2> QED
    BY <1>2
<1>4. ASSUME NEW u \in G, NEW x \in E
      PROVE  Append(u, x) \in G
  <2>1. u \in Seq(E) /\ u \in Seq(T) /\ x \in T /\ Append(u, x) \in Seq(E) /\ Bodies(sel(u)) = Bodies(u)
    <3>1. u \in Seq(E)
      OBVIOUS
    <3> HIDE DEF E
    <3>2. Append(u, x) \in Seq(E)
      BY <3>1, AppendProperties
    <3> QED
      BY <1>2, <1>3, <3>1, <3>2
  <2>2. sel(u) \in Seq(T)
    BY <1>3, <2>1, SelTyped
  <2>3. Bodies(Append(u, x)) = Bodies(u) \o Body(x) /\ Bodies(u) \in Seq(Chars)
    BY <2>1, BodiesLaws DEF Text
  <2>4. CASE x = <<>>
    <3>1. sel(Append(u, x)) = sel(u)
      <4>1. x \notin B
        BY <2>4
      <4> HIDE DEF B, E
      <4> QED
        BY <2>1, <4>1, SelAppend
    <3>2. Bodies(u) \o Body(x) = Bodies(u)
      BY <1>2, <2>3, <2>4, ConcatEmptySeq
    <3> QED
      BY <2>1, <2>3, <3>1, <3>2
  <2>5. CASE x # <<>>
    <3>1. sel(Append(u, x)) = Append(sel(u), x)
      <4>1. x \in B
        BY <2>5
      <4> HIDE DEF B, E
      <4> QED
        BY <2>1, <4>1, SelAppend
    <3>2. Bodies(Append(sel(u), x)) = Bodies(sel(u)) \o Body(x)
      BY <2>1, <2>2, BodiesLaws
    <3> QED
      BY <2>1, <2>3, <3>1, <3>2
  <2> QED
    BY <2>4, <2>5
<1>5. G \in SUBSET Seq(E)
  OBVIOUS
<1> HIDE DEF G
<1>6. G = Seq(E)
  <2> HIDE DEF E
  <2> QED
    BY <1>1, <1>4, <1>5, SeqSetInduction
<1>7. Bodies(sel(s)) = Bodies(s)
  BY <1>6 DEF G
<1>8. sel(s) \in Seq(E \cap B)
  <2> HIDE DEF E, B
  <2> QED
    BY SelWithin DEF E
<1> QED
  BY <1>2, <1>7, <1>8, KeptTextsIs

\* A piece trimmed is a piece that shows the same.
LEMMA TrimPiece ==
    ASSUME NEW S \in SUBSET Chars, NEW D, Packable(S, D), NEW x \in D \cup {<<>>}
    PROVE  TrimBoth(x) \in D \cup {<<>>} /\ Body(TrimBoth(x)) = Body(x)
<1>1. CASE x = <<>>
  <2> DEFINE e == <<>>
  <2>1. e \in Text /\ Len(e) = 0 /\ DOMAIN e = {}
    BY EmptySeq DEF Text
  <2> HIDE DEF e
  <2>2. IsBlank(e)
    BY <2>1 DEF IsBlank
  <2>3. TrimBoth(e) = <<>>
    BY <2>1, <2>2, TrimBothIs
  <2> QED
    BY <1>1, <2>3 DEF e
<1>2. CASE x # <<>>
  <2>1. x \in Piece(S) /\ (D = EvenPiece(S) => Even(x))
    BY <1>2 DEF Packable, EvenPiece
  <2>2. /\ x \in Seq(S) /\ x \in Text /\ Sound(x) /\ Shows(x[1]) /\ x[1].line # 0 /\ Len(x) <= MaxLen
        /\ Len(x) \in Nat /\ Len(x) # 0 /\ MaxLen \in Nat
    BY <1>2, <2>1, TextOf, LenProperties, EmptySeq, LimitIs DEF Piece
  <2>3. 1 \in DOMAIN x /\ 1 \in 1..Len(x)
    BY <2>2, LenProperties
  <2>4. ~IsBlank(x)
    BY <2>2, <2>3 DEF IsBlank
  <2>5. PICK a \in 1..Len(x) : \E b \in a..Len(x) :
                 /\ TrimBoth(x) = SubSeq(x, a, b)
                 /\ \A i \in 1..(a - 1) : ~Shows(x[i])
                 /\ \A i \in (b + 1)..Len(x) : ~Shows(x[i])
    BY <2>2, <2>4, TrimBothIs
  <2>6. PICK b \in a..Len(x) :
                 /\ TrimBoth(x) = SubSeq(x, a, b)
                 /\ \A i \in 1..(a - 1) : ~Shows(x[i])
                 /\ \A i \in (b + 1)..Len(x) : ~Shows(x[i])
    BY <2>5
  <2> DEFINE t == TrimBoth(x)
  <2> HIDE DEF t
  <2>7. Sound(t) /\ Body(t) = Body(x) /\ Marks(t) = Marks(x)
    BY <2>2, <2>6, PartSound DEF t
  <2>8. a = 1
    BY <2>2, <2>6
  <2>9. t \in Seq(S) /\ Len(t) = b /\ t[1] = x[1] /\ b \in 1..Len(x)
    <3>1. a \in 1..(Len(x) + 1) /\ b \in (a - 1)..Len(x) /\ b - a + 1 = b /\ 1 \in 1..(b - a + 1)
          /\ a + 1 - 1 = 1 /\ b \in 1..Len(x)
      BY <2>2, <2>8
    <3>2. /\ SubSeq(x, a, b) \in Seq(S) /\ Len(SubSeq(x, a, b)) = b - a + 1
          /\ \A i \in 1..(b - a + 1) : SubSeq(x, a, b)[i] = x[a + i - 1]
      BY <2>2, <3>1, PartIs
    <3> QED
      BY <2>6, <3>1, <3>2 DEF t
  <2>10. t # <<>> /\ Len(t) <= MaxLen
    <3>1. Len(t) # 0 /\ Len(t) <= MaxLen
      BY <2>2, <2>9
    <3> QED
      BY <3>1, EmptySeq
  <2>11. t \in Piece(S)
    BY <2>2, <2>7, <2>9, <2>10 DEF Piece
  <2>12. t \in D
    BY <2>1, <2>7, <2>11 DEF Packable, EvenPiece, Even
  <2> QED
    BY <2>7, <2>12 DEF t
<1> QED
  BY <1>1, <1>2

\* The pieces of several paragraphs in turn.
PiecesOfAll(paragraphs) == FlattenSeq([i \in DOMAIN paragraphs |-> PiecesOf(paragraphs[i])])

\* Paragraphs of P are cut into pieces of D.
CutInto(P, D) ==
    \A q \in P : q \in Text /\ PiecesOf(q) \in Seq(D) /\ Bodies(PiecesOf(q)) = Body(q)

\* They are pieces, and together show what the paragraphs show.
LEMMA AllPieces ==
    ASSUME NEW P, NEW D \in SUBSET Text, CutInto(P, D), NEW s \in Seq(P)
    PROVE  PiecesOfAll(s) \in Seq(D) /\ Bodies(PiecesOfAll(s)) = Bodies(s)
<1> DEFINE T == Text
           W == Seq(D)
           cut(u) == [i \in DOMAIN u |-> PiecesOf(u[i])]
           G == {u \in Seq(P) : cut(u) \in Seq(W) /\ Bodies(FlattenSeq(cut(u))) = Bodies(u)}
<1>1. /\ P \in SUBSET T /\ D \in SUBSET T /\ (\A q \in P : PiecesOf(q) \in W /\ Bodies(PiecesOf(q)) = Body(q))
  BY DEF CutInto
<1>2. Seq(P) \in SUBSET Seq(T) /\ Seq(D) \in SUBSET Seq(T)
  <2> HIDE DEF T
  <2> QED
    BY <1>1
<1>3. <<>> \in G
  <2> DEFINE e == <<>>
  <2>1. e \in Seq(P) /\ DOMAIN e = {} /\ e \in Seq(W)
    BY EmptySeq
  <2> HIDE DEF e
  <2>2. cut(e) = <<>>
    <3>1. cut(e) = [i \in {} |-> PiecesOf(e[i])]
      BY <2>1
    <3>2. <<>> = [i \in {} |-> PiecesOf(e[i])]
      OBVIOUS
    <3> QED
      BY <3>1, <3>2
  <2>3. cut(e) \in Seq(W) /\ Bodies(FlattenSeq(cut(e))) = Bodies(e)
    BY <2>1, <2>2, FlattenLaws DEF e
  <2> QED
    BY <2>1, <2>3 DEF e
<1>4. ASSUME NEW u \in G, NEW x \in P
      PROVE  Append(u, x) \in G
  <2> DEFINE v == Append(u, x)
             c == cut(u)
             y == PiecesOf(x)
  <2>1. u \in Seq(P) /\ u \in Seq(T) /\ x \in T /\ c \in Seq(W) /\ Bodies(FlattenSeq(c)) = Bodies(u) /\ y \in W
        /\ Bodies(y) = Body(x)
    BY <1>1, <1>2
  <2>2. /\ v \in Seq(P) /\ Len(u) \in Nat /\ Len(v) = Len(u) + 1 /\ v[Len(u) + 1] = x
        /\ \A j \in 1..Len(u) : v[j] = u[j]
        /\ \A j \in 1..(Len(u) + 1) : j = Len(u) + 1 \/ j \in 1..Len(u)
    BY <2>1, AppendIs
  <2>3. DOMAIN u = 1..Len(u) /\ DOMAIN v = 1..(Len(u) + 1) /\ Len(c) = Len(u)
    <3>1. DOMAIN u = 1..Len(u) /\ DOMAIN v = 1..Len(v)
      BY <2>1, <2>2, LenProperties
    <3>2. DOMAIN c = DOMAIN u
      OBVIOUS
    <3>3. DOMAIN c = 1..Len(c) /\ Len(c) \in Nat
      <4> HIDE DEF W, c
      <4> QED
        BY <2>1, LenProperties
    <3> HIDE DEF c, v
    <3>4. Len(c) = Len(u)
      BY <2>2, <3>1, <3>2, <3>3
    <3> QED
      BY <2>2, <3>1, <3>4
  <2>4. cut(v) = Append(c, y)
    <3>1. cut(v) = [i \in 1..(Len(u) + 1) |-> PiecesOf(v[i])]
      BY <2>3
    <3>2. Append(c, y) = [i \in 1..(Len(c) + 1) |-> IF i = Len(c) + 1 THEN y ELSE c[i]]
      <4> HIDE DEF c, y, W
      <4> QED
        BY <2>1, AppendIsMap
    <3>3. \A i \in 1..Len(u) : c[i] = PiecesOf(u[i])
      BY <2>3
    <3> HIDE DEF v, c, cut
    <3>4. ASSUME NEW i \in 1..(Len(u) + 1)
          PROVE  PiecesOf(v[i]) = IF i = Len(u) + 1 THEN y ELSE c[i]
      BY <2>2, <3>3
    <3> QED
      BY <2>3, <3>1, <3>2, <3>4
  <2> HIDE DEF v, c, y, cut
  <2>5. Append(c, y) \in Seq(W)
    <3> HIDE DEF W
    <3> QED
      BY <2>1, AppendProperties
  <2>6. FlattenSeq(Append(c, y)) = FlattenSeq(c) \o y /\ FlattenSeq(c) \in Seq(D)
    BY <2>1, FlattenLaws
  <2>7. Bodies(FlattenSeq(c) \o y) = Bodies(FlattenSeq(c)) \o Bodies(y)
    BY <1>2, <2>1, <2>6, BodiesLaws
  <2>8. Bodies(v) = Bodies(u) \o Body(x)
    BY <2>1, BodiesLaws DEF v
  <2> QED
    BY <2>1, <2>2, <2>4, <2>5, <2>6, <2>7, <2>8 DEF v
<1>5. G \in SUBSET Seq(P)
  OBVIOUS
<1> HIDE DEF G
<1>6. G = Seq(P)
  BY <1>3, <1>4, <1>5, SeqSetInduction
<1>7. cut(s) \in Seq(W) /\ Bodies(FlattenSeq(cut(s))) = Bodies(s)
  BY <1>6 DEF G
<1>8. FlattenSeq(cut(s)) \in Seq(D)
  BY <1>7, FlattenLaws
<1> QED
  BY <1>7, <1>8 DEF PiecesOfAll

\* Each text trimmed, and the contents of the chunks of some paragraphs.
TrimmedAll(s) == [i \in DOMAIN s |-> TrimBoth(s[i])]
ContentsOf(paragraphs) == KeptTexts(TrimmedAll(Packed(PiecesOfAll(paragraphs))))

\* The chunks of a section are these contents under its heading.
LEMMA ChunksOfIs ==
    \A section : LET c == ContentsOf(SplitParagraphs(section.lines))
                 IN  ChunksOf(section) =
                       [i \in DOMAIN c |-> [content |-> c[i], heading |-> section.heading]]
BY DEF ChunksOf, ContentsOf, KeptTexts, TrimmedAll, PiecesOfAll

\* The contents are pieces, and together show what the paragraphs show.
LEMMA ContentsLaws ==
    ASSUME NEW S \in SUBSET Own, Newline \in S, NEW D, Packable(Marked(S), D),
           NEW P, CutInto(P, D), NEW paragraphs \in Seq(P)
    PROVE  /\ ContentsOf(paragraphs) \in Seq(D)
           /\ Bodies(ContentsOf(paragraphs)) = Bodies(paragraphs)
<1> DEFINE M == Marked(S)
           pieces == PiecesOfAll(paragraphs)
           packed == Packed(pieces)
           trimmed == TrimmedAll(packed)
           E == D \cup {<<>>}
           T == Text
<1>1. M \in SUBSET Chars /\ Newline \in M
  BY MarkedIs
<1>2. D \in SUBSET T /\ <<>> \notin D /\ <<>> \in T
  BY <1>1, PackJoins, EmptySeq DEF Text
<1>3. pieces \in Seq(D) /\ Bodies(pieces) = Bodies(paragraphs)
  BY <1>2, AllPieces
<1> HIDE DEF pieces, M
<1>4. packed \in Seq(E) /\ Bodies(packed) = Bodies(pieces)
  BY <1>1, <1>3, PackedLaws DEF M
<1> HIDE DEF packed
<1>5. \A x \in E : TrimBoth(x) \in E /\ Body(TrimBoth(x)) = Body(x)
  BY <1>1, TrimPiece DEF M
<1>6. E \in SUBSET T
  BY <1>2
<1> HIDE DEF E, T
<1>7. Len(packed) \in Nat /\ DOMAIN packed = 1..Len(packed) /\ \A i \in 1..Len(packed) : packed[i] \in E
  BY <1>4, LenProperties, ElementOfSeq
<1>8. trimmed = [i \in 1..Len(packed) |-> TrimBoth(packed[i])]
  BY <1>7 DEF TrimmedAll
<1> HIDE DEF trimmed
<1>9. trimmed \in Seq(E) /\ Len(trimmed) = Len(packed)
  <2> DEFINE n == Len(packed)
  <2>1. trimmed \in [1..n -> E] /\ n \in Nat
    BY <1>5, <1>7, <1>8
  <2> HIDE DEF n
  <2>2. trimmed \in Seq(E) /\ Len(trimmed) = n
    BY <2>1
  <2> QED
    BY <2>2 DEF n
<1>10. Bodies(trimmed) = Bodies(packed)
  <2>1. \A i \in 1..Len(trimmed) : Body(trimmed[i]) = Body(packed[i])
    BY <1>5, <1>7, <1>8, <1>9
  <2>2. Alike(trimmed, packed)
    BY <1>9, <2>1 DEF Alike
  <2>3. trimmed \in Seq(T) /\ packed \in Seq(T)
    BY <1>4, <1>6, <1>9
  <2> QED
    BY <2>2, <2>3, BodiesAlike DEF T
<1>11. KeptTexts(trimmed) \in Seq(D \ {<<>>}) /\ Bodies(KeptTexts(trimmed)) = Bodies(trimmed)
  <2>1. trimmed \in Seq(D \cup {<<>>}) /\ D \in SUBSET Text
    BY <1>2, <1>9 DEF E, T
  <2> QED
    BY <2>1, KeptTextsLaws
<1>12. D \ {<<>>} = D
  BY <1>2
<1> QED
  BY <1>3, <1>4, <1>10, <1>11, <1>12 DEF ContentsOf, trimmed, packed, pieces

\* Paragraphs whose fences are closed.
EvenParagraph(S) == {q \in Paragraph(S) : Even(q)}

\* What is said of pieces and of those that close their fences.
LEMMA ParagraphsCut ==
    ASSUME NEW S \in SUBSET Own, Newline \in S
    PROVE  /\ CutInto(Paragraph(S), Piece(Marked(S)))
           /\ CutInto(EvenParagraph(S), EvenPiece(Marked(S)))
           /\ Packable(Marked(S), Piece(Marked(S))) /\ Packable(Marked(S), EvenPiece(Marked(S)))
<1>1. Paragraph(S) \in SUBSET Text
  BY MarkedIs DEF Paragraph
<1>2. CutInto(Paragraph(S), Piece(Marked(S)))
  BY <1>1, PiecesOfParagraph DEF CutInto
<1>3. CutInto(EvenParagraph(S), EvenPiece(Marked(S)))
  <2> SUFFICES ASSUME NEW q \in EvenParagraph(S)
               PROVE  q \in Text /\ PiecesOf(q) \in Seq(EvenPiece(Marked(S))) /\ Bodies(PiecesOf(q)) = Body(q)
    BY DEF CutInto
  <2>1. q \in Paragraph(S) /\ Even(q)
    BY DEF EvenParagraph
  <2> QED
    BY <1>1, <2>1, PiecesOfParagraph
<1> QED
  BY <1>2, <1>3 DEF Packable

\* The contents of some chunks.
Contents(c) == [i \in DOMAIN c |-> c[i].content]

\* The chunks of a section.
LEMMA ChunksOfLaws ==
    ASSUME NEW S \in SUBSET Own, Newline \in S, NEW section,
           SplitParagraphs(section.lines) \in Seq(Paragraph(S))
    PROVE  LET c == ChunksOf(section)
           IN  /\ c \in Seq([content : Piece(Marked(S)), heading : {section.heading}])
               /\ Bodies(Contents(c)) = Bodies(SplitParagraphs(section.lines))
               /\ SplitParagraphs(section.lines) \in Seq(EvenParagraph(S)) =>
                     \A i \in DOMAIN c : Even(c[i].content)
<1> DEFINE w == SplitParagraphs(section.lines)
           k == ContentsOf(w)
           c == ChunksOf(section)
           D == Piece(Marked(S))
           n == Len(k)
           R == [content : D, heading : {section.heading}]
<1>1. k \in Seq(D) /\ Bodies(k) = Bodies(w)
  BY ParagraphsCut, ContentsLaws
<1>2. w \in Seq(EvenParagraph(S)) => k \in Seq(EvenPiece(Marked(S)))
  BY ParagraphsCut, ContentsLaws
<1>3. c = [i \in DOMAIN k |-> [content |-> k[i], heading |-> section.heading]]
  BY ChunksOfIs
<1> HIDE DEF k, c, D
<1>4. n \in Nat /\ DOMAIN k = 1..n /\ \A i \in 1..n : k[i] \in D
  BY <1>1, LenProperties, ElementOfSeq
<1>5. DOMAIN c = 1..n /\ \A i \in 1..n : c[i].content = k[i] /\ c[i] \in R
  BY <1>3, <1>4
<1>6. c \in Seq(R)
  <2> HIDE DEF R, n
  <2>1. c \in [1..n -> R]
    BY <1>3, <1>4, <1>5
  <2> QED
    BY <1>4, <2>1
<1>7. Contents(c) = k
  <2>1. k = [i \in 1..n |-> k[i]]
    BY <1>1, <1>4, LenProperties
  <2> QED
    BY <1>5, <2>1 DEF Contents
<1>8. w \in Seq(EvenParagraph(S)) => \A i \in DOMAIN c : Even(c[i].content)
  <2>1. k \in Seq(EvenPiece(Marked(S))) => \A i \in 1..n : k[i] \in EvenPiece(Marked(S))
    BY ElementOfSeq
  <2> QED
    BY <1>2, <1>5, <2>1 DEF EvenPiece
<1> QED
  BY <1>1, <1>6, <1>7, <1>8 DEF c, D, w

-----------------------------------------------------------------------------
(***************************************************************************)
(* The paragraphs of a section.                                            *)
(***************************************************************************)
\* The fences of several texts in turn.
MarksOf(texts) == Marks(FlattenSeq(texts))

\* The fences of two texts in turn.
LEMMA MarksLaws ==
    /\ Marks(<<>>) = 0
    /\ \A s \in Text : Marks(s) \in Nat
    /\ \A s, t \in Text : Marks(s \o t) = Marks(s) + Marks(t)
<1>1. \A s \in Text : Marks(s) \in Nat
  BY SelIsSeq DEF Marks
<1>2. Marks(<<>>) = 0
  BY SelNone, EmptySeq DEF Marks
<1>3. ASSUME NEW s \in Text, NEW t \in Text
      PROVE  Marks(s \o t) = Marks(s) + Marks(t)
  <2> DEFINE a == Sel(Chars, Closers, s)
             b == Sel(Chars, Closers, t)
  <2>1. Sel(Chars, Closers, s \o t) = a \o b
    BY SelConcat DEF Text
  <2>2. a \in Seq(Chars) /\ b \in Seq(Chars)
    BY SelIsSeq
  <2> HIDE DEF a, b
  <2>3. Len(a \o b) = Len(a) + Len(b)
    BY <2>2, ConcatProperties
  <2> QED
    BY <2>1, <2>3 DEF a, b, Marks
<1> QED
  BY <1>1, <1>2, <1>3

\* The fences of several texts in turn.
LEMMA MarksOfLaws ==
    /\ MarksOf(<<>>) = 0
    /\ \A u \in Seq(Text) : MarksOf(u) \in Nat
    /\ \A u \in Seq(Text), x \in Text : MarksOf(Append(u, x)) = MarksOf(u) + Marks(x)
    /\ \A u, v \in Seq(Text) : MarksOf(u \o v) = MarksOf(u) + MarksOf(v)
<1>1. /\ FlattenSeq(<<>>) = <<>>
      /\ \A u \in Seq(Text) : FlattenSeq(u) \in Text
      /\ \A u \in Seq(Text), x \in Text : FlattenSeq(Append(u, x)) = FlattenSeq(u) \o x
  BY FlattenLaws DEF Text
<1>2. \A u, v \in Seq(Text) : FlattenSeq(u \o v) = FlattenSeq(u) \o FlattenSeq(v)
  BY FlattenConcat DEF Text
<1>3. \A u \in Seq(Text), x \in Text : MarksOf(Append(u, x)) = MarksOf(u) + Marks(x)
  BY <1>1, MarksLaws DEF MarksOf
<1>4. \A u, v \in Seq(Text) : MarksOf(u \o v) = MarksOf(u) + MarksOf(v)
  BY <1>1, <1>2, MarksLaws DEF MarksOf
<1> QED
  BY <1>1, <1>3, <1>4, MarksLaws DEF MarksOf

\* Lines joined show what they show one by one.
LEMMA JoinedShows ==
    ASSUME NEW M \in SomeLines
    PROVE  Body(Joined(M)) = Bodies(M) /\ Marks(Joined(M)) = MarksOf(M)
BY SelLines, NewlineNotSeen DEF Body, Bodies, Marks, MarksOf

\* The lines of a document: an opening or closing of a fence, or text.
LineSet(S) == {x \in Seq(S) : Whole(x) /\ (FenceLine(x) \/ NoTicks(x))}

\* isFence tells them apart.
LEMMA LineSetIs ==
    ASSUME NEW S \in SUBSET Own, NEW x \in LineSet(S)
    PROVE  /\ x \in Seq(S) /\ x \in Text /\ Sound(x) /\ Len(x) \in Nat
           /\ IsFence(x) => FenceLine(x) /\ Marks(x) = 1 /\ Body(x) = <<>>
           /\ ~IsFence(x) => x \in Clean(S) /\ NoTicks(x) /\ Marks(x) = 0
<1>1. x \in Seq(S) /\ x \in Text /\ Whole(x) /\ (FenceLine(x) \/ NoTicks(x)) /\ S \in SUBSET Chars
  BY MarkedIs DEF LineSet
<1>2. FenceLine(x) => IsFence(x) /\ Marks(x) = 1 /\ Body(x) = <<>> /\ Sound(x)
  BY <1>1, FenceOfLine, FenceLineIs
<1>3. NoTicks(x) => ~IsFence(x) /\ Marks(x) = 0 /\ x \in Clean(S) /\ Sound(x)
  BY <1>1, FenceOfLine, CleanSound DEF Clean
<1> QED
  BY <1>1, <1>2, <1>3, LenProperties

\* Lines joined are of the same characters.
LEMMA JoinedIn ==
    ASSUME NEW S \in SUBSET Own, Newline \in S
    PROVE  /\ \A M \in Seq(Seq(S)) \ {<<>>} : Joined(M) \in Seq(S)
           /\ \A M \in Seq(Clean(S)) \ {<<>>} : Joined(M) \in Clean(S)
<1> DEFINE X == Seq(S)
           Y == Clean(S)
           G == {M \in Seq(X) \ {<<>>} : Joined(M) \in X}
           H == {M \in Seq(Y) \ {<<>>} : Joined(M) \in Y}
           nl == <<Newline>>
           T == Text
<1>1. X \in SUBSET T /\ Y \in SUBSET T /\ S \in SUBSET Chars /\ nl \in X
  <2>1. X \in SUBSET T /\ Y \in SUBSET T /\ S \in SUBSET Chars
    BY MarkedIs, TextsOf
  <2> QED
    BY <2>1
<1>2. Seq(X) \in SUBSET Seq(T) /\ Seq(Y) \in SUBSET Seq(T)
  <2> HIDE DEF X, Y, T
  <2> QED
    BY <1>1
<1>3. \A x \in X, y \in X : x \o nl \o y \in X
  BY <1>1, ConcatProperties
<1>4. \A x \in Y, y \in Y : x \o nl \o y \in Y
  BY <1>1, CleanJoint
<1> HIDE DEF X, Y, nl
<1>5. \A x \in X : <<x>> \in G
  <2> TAKE x \in X
  <2>1. <<x>> \in Seq(X) /\ <<x>> # <<>>
    OBVIOUS
  <2>2. Joined(<<x>>) = x
    BY <1>1, JoinedLaws
  <2> QED
    BY <2>1, <2>2
<1>6. \A x \in Y : <<x>> \in H
  <2> TAKE x \in Y
  <2>1. <<x>> \in Seq(Y) /\ <<x>> # <<>>
    OBVIOUS
  <2>2. Joined(<<x>>) = x
    BY <1>1, JoinedLaws
  <2> QED
    BY <2>1, <2>2
<1>7. \A M \in G : \A x \in X : Append(M, x) \in G
  <2> TAKE M \in G
  <2> TAKE x \in X
  <2>1. Append(M, x) \in Seq(X) /\ Append(M, x) # <<>>
    BY AppendIs
  <2>2. Joined(Append(M, x)) = Joined(M) \o nl \o x
    BY <1>1, <1>2, JoinedLaws DEF nl
  <2> QED
    BY <1>3, <2>1, <2>2
<1>8. \A M \in H : \A x \in Y : Append(M, x) \in H
  <2> TAKE M \in H
  <2> TAKE x \in Y
  <2>1. Append(M, x) \in Seq(Y) /\ Append(M, x) # <<>>
    BY AppendIs
  <2>2. Joined(Append(M, x)) = Joined(M) \o nl \o x
    BY <1>1, <1>2, JoinedLaws DEF nl
  <2> QED
    BY <1>4, <2>1, <2>2
<1>9. G \in SUBSET (Seq(X) \ {<<>>}) /\ H \in SUBSET (Seq(Y) \ {<<>>})
  OBVIOUS
<1> HIDE DEF G, H
<1>10. G = Seq(X) \ {<<>>}
  BY <1>5, <1>7, <1>9, LinesInduction
<1>11. H = Seq(Y) \ {<<>>}
  BY <1>6, <1>8, <1>9, LinesInduction
<1> QED
  BY <1>10, <1>11 DEF G, H, X, Y

\* The steps of SplitParagraphs: what is buffered becomes a paragraph, and a line is
\* buffered.
ParaFlush(a) ==
    [a EXCEPT !.buf = <<>>,
              !.out = IF a.buf = <<>> \/ IsBlank(Joined(a.buf)) THEN @ ELSE Append(@, Joined(a.buf))]
ParaPush(a, line) == [a EXCEPT !.buf = Append(@, line)]
ParaStep(a, line) ==
    IF IsFence(line)
    THEN IF a.fenced THEN [ParaFlush(ParaPush(a, line)) EXCEPT !.fenced = FALSE]
         ELSE [ParaPush(ParaFlush(a), line) EXCEPT !.fenced = TRUE]
    ELSE IF ~a.fenced /\ IsBlank(line) THEN ParaFlush(a) ELSE ParaPush(a, line)
NoParagraphs == [out |-> <<>>, buf |-> <<>>, fenced |-> FALSE]
ParaFold(s) == FoldLeft(LAMBDA a, line : ParaStep(a, line), NoParagraphs, s)

\* These are the steps of SplitParagraphs.
LEMMA SplitIs == \A s : SplitParagraphs(s) = ParaFlush(ParaFold(s)).out
BY DEF SplitParagraphs, ParaFold, ParaStep, ParaFlush, ParaPush, NoParagraphs

\* What lines are split into so far: within a fence what is buffered begins with
\* its opening, outside of one it has no backticks.
ParaStates(S) ==
    {a \in [out : Seq(EvenParagraph(S)), buf : Seq(LineSet(S)), fenced : BOOLEAN] :
        /\ a.fenced => a.buf # <<>> /\ FenceLine(a.buf[1]) /\ MarksOf(a.buf) = 1
        /\ ~a.fenced => a.buf \in Seq(Clean(S))}

\* What the lines so far show.
Split(a) == Bodies(a.out) \o Bodies(a.buf)

\* These are texts.
LEMMA ParaTypes ==
    ASSUME NEW S \in SUBSET Own
    PROVE  /\ Seq(EvenParagraph(S)) \in SUBSET Seq(Text) /\ Seq(LineSet(S)) \in SUBSET Seq(Text)
           /\ Seq(LineSet(S)) \in SUBSET Seq(Seq(S)) /\ Seq(Clean(S)) \in SUBSET Seq(LineSet(S))
           /\ Seq(EvenParagraph(S)) \in SUBSET Seq(Paragraph(S))
           /\ LineSet(S) \in SUBSET Text /\ Paragraph(S) \in SUBSET Text
<1> DEFINE A == EvenParagraph(S)
           B == LineSet(S)
           C == Clean(S)
           D == Paragraph(S)
           T == Text
           X == Seq(S)
<1>1. X \in SUBSET T
  BY MarkedIs
<1>2. A \in SUBSET D /\ D \in SUBSET X /\ B \in SUBSET X /\ C \in SUBSET B
  BY DEF EvenParagraph, Paragraph, LineSet, Clean
<1> HIDE DEF A, B, C, D, T, X
<1>3. /\ Seq(A) \in SUBSET Seq(T) /\ Seq(B) \in SUBSET Seq(T) /\ Seq(B) \in SUBSET Seq(X)
      /\ Seq(C) \in SUBSET Seq(B) /\ Seq(A) \in SUBSET Seq(D) /\ B \in SUBSET T /\ D \in SUBSET T
  BY <1>1, <1>2
<1> QED
  BY <1>3 DEF A, B, C, D, T, X

\* A buffer that is flushed shows what it held, as a paragraph.
LEMMA BufferIs ==
    ASSUME NEW S \in SUBSET Own, Newline \in S, NEW buf \in Seq(LineSet(S)), buf # <<>>
    PROVE  LET q == Joined(buf)
           IN  /\ q \in Seq(S) /\ q \in Text /\ Sound(q) /\ Body(q) = Bodies(buf) /\ Marks(q) = MarksOf(buf)
               /\ IsBlank(q) => Bodies(buf) = <<>>
               /\ buf \in Seq(Clean(S)) => NoTicks(q)
               /\ FenceLine(buf[1]) => q # <<>> /\ q[1].kind = "tick" /\ ~IsBlank(q)
<1> DEFINE q == Joined(buf)
<1>1. buf \in Seq(Text) /\ buf \in SomeLines /\ buf \in Seq(Seq(S)) \ {<<>>} /\ S \in SUBSET Chars
  BY ParaTypes, MarkedIs DEF SomeLines
<1>2. q \in Seq(S) /\ q \in Text /\ (buf \in Seq(Clean(S)) => q \in Clean(S))
  BY <1>1, JoinedIn, MarkedIs
<1>3. \A j \in 1..Len(buf) : Sound(buf[j])
  <2> TAKE j \in 1..Len(buf)
  <2>1. buf[j] \in LineSet(S)
    BY ElementOfSeq
  <2> QED
    BY <2>1, LineSetIs
<1>4. Sound(q) /\ Body(q) = Bodies(buf) /\ Marks(q) = MarksOf(buf)
  BY <1>1, <1>3, SoundLines, JoinedShows
<1> HIDE DEF q
<1>5. IsBlank(q) => Bodies(buf) = <<>>
  BY <1>2, <1>4, BlankBody
<1>6. buf \in Seq(Clean(S)) => NoTicks(q)
  BY <1>2 DEF Clean
<1>7. ASSUME FenceLine(buf[1])
      PROVE  q # <<>> /\ q[1].kind = "tick" /\ ~IsBlank(q)
  <2>1. buf[1] # <<>> /\ buf[1][1].kind = "tick"
    <3>1. 1 \in 1..3 /\ Len(buf[1]) = 3
      BY <1>7 DEF FenceLine
    <3> QED
      BY <1>7, <3>1, EmptySeq DEF FenceLine
  <2>2. q # <<>> /\ q[1].kind = "tick"
    BY <1>1, <2>1, FirstOfJoined DEF q
  <2>3. 1 \in DOMAIN q
    <3>1. Len(q) \in Nat /\ Len(q) # 0 /\ DOMAIN q = 1..Len(q)
      BY <1>2, <2>2, EmptySeq, LenProperties
    <3> QED
      BY <3>1
  <2> QED
    BY <2>2, <2>3, ShowsTicks DEF IsBlank
<1> QED
  BY <1>2, <1>4, <1>5, <1>6, <1>7 DEF q

\* Outside of fences.
LEMMA FlushText ==
    ASSUME NEW S \in SUBSET Own, Newline \in S, NEW a \in ParaStates(S), ~a.fenced
    PROVE  LET b == ParaFlush(a)
           IN  /\ b.out \in Seq(EvenParagraph(S)) /\ b.buf = <<>> /\ b.fenced = FALSE
               /\ b = [out |-> b.out, buf |-> <<>>, fenced |-> FALSE]
               /\ Bodies(b.out) = Split(a)
<1> DEFINE b == ParaFlush(a)
           q == Joined(a.buf)
           X == EvenParagraph(S)
<1>1. a \in [out : Seq(X), buf : Seq(LineSet(S)), fenced : BOOLEAN] /\ a.buf \in Seq(Clean(S))
  BY DEF ParaStates
<1>2. a.out \in Seq(Text) /\ Bodies(a.out) \in Seq(Chars) /\ Bodies(<<>>) = <<>>
  BY <1>1, ParaTypes, BodiesLaws DEF Text
<1>3. b = [a EXCEPT !.buf = <<>>, !.out = IF a.buf = <<>> \/ IsBlank(q) THEN @ ELSE Append(@, q)]
  BY DEF ParaFlush
<1> HIDE DEF b, q, X
<1>4. /\ b = [out |-> b.out, buf |-> <<>>, fenced |-> FALSE] /\ b.buf = <<>> /\ b.fenced = FALSE
      /\ b.out = IF a.buf = <<>> \/ IsBlank(q) THEN a.out ELSE Append(a.out, q)
  BY <1>1, <1>3
<1>5. CASE a.buf = <<>>
  <2>1. Split(a) = Bodies(a.out)
    BY <1>2, <1>5, ConcatEmptySeq DEF Split
  <2> QED
    BY <1>1, <1>4, <1>5, <2>1 DEF b, X
<1>6. CASE a.buf # <<>> /\ IsBlank(q)
  <2>1. Bodies(a.buf) = <<>>
    BY <1>1, <1>6, BufferIs DEF q
  <2>2. Split(a) = Bodies(a.out)
    BY <1>2, <2>1, ConcatEmptySeq DEF Split
  <2> QED
    BY <1>1, <1>4, <1>6, <2>2 DEF b, X
<1>7. CASE a.buf # <<>> /\ ~IsBlank(q)
  <2>1. q \in Seq(S) /\ q \in Text /\ Sound(q) /\ Body(q) = Bodies(a.buf) /\ NoTicks(q)
    BY <1>1, <1>7, BufferIs DEF q
  <2>2. Marks(q) = 0
    BY <2>1, FenceOfLine
  <2>3. q \in X
    BY <1>7, <2>1, <2>2 DEF X, EvenParagraph, Paragraph, Even
  <2>4. Append(a.out, q) \in Seq(X)
    BY <1>1, <2>3, AppendIs
  <2>5. Bodies(Append(a.out, q)) = Bodies(a.out) \o Body(q)
    BY <1>2, <2>1, BodiesLaws
  <2> QED
    BY <1>4, <1>7, <2>1, <2>4, <2>5 DEF b, X, Split
<1> QED
  BY <1>5, <1>6, <1>7

\* One line more.
LEMMA BufferGrows ==
    ASSUME NEW S \in SUBSET Own, NEW buf \in Seq(LineSet(S)), NEW x \in LineSet(S)
    PROVE  LET u == Append(buf, x)
           IN  /\ u \in Seq(LineSet(S)) /\ u # <<>> /\ u[Len(u)] = x
               /\ buf = <<>> => u[1] = x
               /\ buf # <<>> => u[1] = buf[1]
               /\ MarksOf(u) = MarksOf(buf) + Marks(x) /\ Bodies(u) = Bodies(buf) \o Body(x)
               /\ MarksOf(buf) \in Nat /\ Marks(x) \in Nat
               /\ buf \in Seq(Clean(S)) /\ x \in Clean(S) => u \in Seq(Clean(S))
<1> DEFINE Y == LineSet(S)
           u == Append(buf, x)
           n == Len(buf)
<1>1. buf \in Seq(Text) /\ x \in Text
  BY ParaTypes
<1>2. /\ u \in Seq(Y) /\ u # <<>> /\ n \in Nat /\ Len(u) = n + 1 /\ u[n + 1] = x
      /\ \A j \in 1..n : u[j] = buf[j]
  BY AppendIs
<1>3. MarksOf(u) = MarksOf(buf) + Marks(x) /\ Bodies(u) = Bodies(buf) \o Body(x)
      /\ MarksOf(buf) \in Nat /\ Marks(x) \in Nat
  BY <1>1, MarksOfLaws, BodiesLaws, MarksLaws
<1>4. buf \in Seq(Clean(S)) /\ x \in Clean(S) => u \in Seq(Clean(S))
  BY AppendProperties
<1>5. buf = <<>> => n = 0
  BY EmptySeq
<1>6. buf # <<>> => n # 0
  BY EmptySeq
<1> HIDE DEF u, n
<1>7. u[Len(u)] = x /\ (buf = <<>> => u[1] = x) /\ (buf # <<>> => u[1] = buf[1])
  BY <1>2, <1>5, <1>6
<1> QED
  BY <1>2, <1>3, <1>4, <1>7 DEF u

\* One line more: nothing is lost, and a fence line opens or closes a fence.
LEMMA ParaStepIs ==
    ASSUME NEW S \in SUBSET Own, Newline \in S, NEW a \in ParaStates(S), NEW x \in LineSet(S)
    PROVE  LET b == ParaStep(a, x)
           IN  /\ b \in ParaStates(S) /\ Split(b) = Split(a) \o Body(x)
               /\ b.fenced <=> (a.fenced # IsFence(x))
<1> DEFINE b == ParaStep(a, x)
           X == EvenParagraph(S)
           Y == LineSet(S)
           f == ParaFlush(a)
<1>1. /\ a \in [out : Seq(X), buf : Seq(Y), fenced : BOOLEAN]
      /\ a.fenced => a.buf # <<>> /\ FenceLine(a.buf[1]) /\ MarksOf(a.buf) = 1
      /\ ~a.fenced => a.buf \in Seq(Clean(S))
  BY DEF ParaStates
<1>2. /\ x \in Text /\ (IsFence(x) => FenceLine(x) /\ Marks(x) = 1 /\ Body(x) = <<>>)
      /\ ~IsFence(x) => x \in Clean(S) /\ NoTicks(x) /\ Marks(x) = 0
  BY LineSetIs
<1>3. a.out \in Seq(Text) /\ a.buf \in Seq(Text)
  BY <1>1, ParaTypes
<1>4. Bodies(a.out) \in Seq(Chars) /\ Bodies(a.buf) \in Seq(Chars) /\ Body(x) \in Seq(Chars)
      /\ Split(a) \in Seq(Chars) /\ Bodies(<<>>) = <<>> /\ IsFence(x) \in BOOLEAN
  <2>1. Bodies(a.out) \in Seq(Chars) /\ Bodies(a.buf) \in Seq(Chars) /\ Body(x) \in Seq(Chars)
        /\ Bodies(<<>>) = <<>>
    BY <1>2, <1>3, BodiesLaws, BodyLaws DEF Text
  <2>2. Split(a) \in Seq(Chars)
    BY <2>1, ConcatProperties DEF Split
  <2> QED
    BY <2>1, <2>2 DEF IsFence
<1> DEFINE u == Append(a.buf, x)
<1>5. /\ u \in Seq(Y) /\ u # <<>> /\ u[Len(u)] = x
      /\ a.buf # <<>> => u[1] = a.buf[1]
      /\ MarksOf(u) = MarksOf(a.buf) + Marks(x) /\ Bodies(u) = Bodies(a.buf) \o Body(x)
      /\ a.buf \in Seq(Clean(S)) /\ x \in Clean(S) => u \in Seq(Clean(S))
  BY <1>1, BufferGrows
<1> HIDE DEF u
<1>6. ASSUME ~a.fenced
      PROVE  /\ f.out \in Seq(X) /\ f = [out |-> f.out, buf |-> <<>>, fenced |-> FALSE]
             /\ Bodies(f.out) = Split(a) /\ f.buf = <<>> /\ f.fenced = FALSE
  BY <1>6, FlushText
<1> HIDE DEF f

\* What is pushed.
<1>7. ASSUME b = [out |-> a.out, buf |-> u, fenced |-> a.fenced], ~IsFence(x)
      PROVE  b \in ParaStates(S) /\ Split(b) = Split(a) \o Body(x) /\ (b.fenced <=> (a.fenced # IsFence(x)))
  <2> HIDE DEF b, X, Y
  <2>1. b.out = a.out /\ b.buf = u /\ b.fenced = a.fenced
    BY <1>7
  <2>2. b \in [out : Seq(X), buf : Seq(Y), fenced : BOOLEAN]
    BY <1>1, <1>5, <1>7
  <2>3. b \in ParaStates(S)
    BY <1>1, <1>2, <1>5, <1>7, <2>1, <2>2 DEF ParaStates, X, Y
  <2>4. Split(b) = Split(a) \o Body(x)
    <3>1. (Bodies(a.out) \o Bodies(a.buf)) \o Body(x) = Bodies(a.out) \o (Bodies(a.buf) \o Body(x))
      BY <1>4, ConcatAssociative
    <3> QED
      BY <1>5, <2>1, <3>1 DEF Split
  <2>5. IsFence(x) = FALSE /\ a.fenced \in BOOLEAN
    BY <1>1, <1>4, <1>7
  <2>6. b.fenced <=> (a.fenced # IsFence(x))
    BY <2>1, <2>5, Zenon
  <2> QED
    BY <2>3, <2>4, <2>6
<1>8. CASE ~IsFence(x) /\ ~a.fenced /\ IsBlank(x)
  <2>1. b = f
    BY <1>8 DEF ParaStep, f
  <2>2. Body(x) = <<>>
    BY <1>2, <1>8, BlankBody
  <2> HIDE DEF b
  <2>3. b \in [out : Seq(X), buf : Seq(Y), fenced : BOOLEAN] /\ b.buf = <<>> /\ b.fenced = FALSE /\ b.out = f.out
    <3> DEFINE e == <<>>
               g == f.out
    <3>1. e \in Seq(Y)
      BY EmptySeq
    <3>2. g \in Seq(X) /\ f = [out |-> g, buf |-> e, fenced |-> FALSE] /\ f.buf = e /\ f.fenced = FALSE /\ f.out = g
      BY <1>6, <1>8
    <3> HIDE DEF X, Y, e, g
    <3>3. f \in [out : Seq(X), buf : Seq(Y), fenced : BOOLEAN]
      BY <3>1, <3>2
    <3> QED
      BY <2>1, <3>2, <3>3 DEF e, g
  <2>4. b \in ParaStates(S)
    BY <2>3, EmptySeq DEF ParaStates
  <2>5. Split(b) = Split(a) \o Body(x)
    BY <1>4, <1>6, <1>8, <2>2, <2>3, ConcatEmptySeq DEF Split
  <2>6. IsFence(x) = FALSE /\ a.fenced = FALSE
    BY <1>1, <1>4, <1>8
  <2>7. b.fenced <=> (a.fenced # IsFence(x))
    BY <2>3, <2>6, Zenon
  <2> QED
    BY <2>4, <2>5, <2>7 DEF b
<1>9. CASE ~IsFence(x) /\ ~(~a.fenced /\ IsBlank(x))
  <2>1. b = [a EXCEPT !.buf = u]
    BY <1>9 DEF ParaStep, ParaPush, u
  <2>2. b = [out |-> a.out, buf |-> u, fenced |-> a.fenced]
    <3> HIDE DEF b
    <3> QED
      BY <1>1, <2>1
  <2> QED
    BY <1>7, <1>9, <2>2
<1>10. CASE IsFence(x) /\ ~a.fenced
  <2> DEFINE e == <<>>
             w == Append(e, x)
             g == f.out
             h == ParaPush(f, x)
  <2>1. b = [ParaPush(f, x) EXCEPT !.fenced = TRUE]
    BY <1>10 DEF ParaStep, f
  <2>2. f.buf = e /\ f = [out |-> g, buf |-> e, fenced |-> FALSE] /\ g \in Seq(X)
    BY <1>6, <1>10
  <2>0. h = [f EXCEPT !.buf = Append(f.buf, x)] /\ b = [h EXCEPT !.fenced = TRUE]
    BY <2>1 DEF ParaPush
  <2>3. e \in Seq(Y) /\ e = <<>> /\ MarksOf(e) = 0 /\ Bodies(e) = <<>>
    BY EmptySeq, MarksOfLaws, BodiesLaws
  <2> HIDE DEF e, b, X, Y
  <2>4. /\ w \in Seq(Y) /\ w # <<>> /\ w[1] = x /\ MarksOf(w) = MarksOf(e) + Marks(x)
        /\ Bodies(w) = Bodies(e) \o Body(x)
    BY <2>3, BufferGrows DEF Y
  <2> HIDE DEF w
  <2>5. b = [out |-> g, buf |-> w, fenced |-> TRUE]
    <3> DEFINE no == FALSE
               yes == TRUE
    <3>1. h = [f EXCEPT !.buf = w] /\ f = [out |-> g, buf |-> e, fenced |-> no] /\ b = [h EXCEPT !.fenced = yes]
      BY <2>2, <2>0 DEF w
    <3> HIDE DEF g, h, no, yes, f
    <3>2. h = [out |-> g, buf |-> w, fenced |-> no]
      BY <3>1
    <3>3. b = [out |-> g, buf |-> w, fenced |-> yes]
      BY <3>1, <3>2
    <3> QED
      BY <3>3 DEF yes
  <2> HIDE DEF g
  <2>6. b.out = g /\ b.buf = w /\ b.fenced = TRUE
    BY <2>5
  <2>7. b \in [out : Seq(X), buf : Seq(Y), fenced : BOOLEAN]
    BY <2>2, <2>4, <2>5
  <2>8. MarksOf(w) = 1 /\ Bodies(w) = Body(x)
    <3>1. Bodies(w) = Body(x)
      BY <1>4, <2>3, <2>4, ConcatEmptySeq
    <3> QED
      BY <1>2, <1>10, <2>3, <2>4, <3>1
  <2>9. b \in ParaStates(S)
    BY <1>2, <1>10, <2>4, <2>6, <2>7, <2>8 DEF ParaStates, X, Y
  <2>10. Split(b) = Split(a) \o Body(x)
    BY <1>6, <1>10, <2>6, <2>8 DEF Split, g
  <2>11. IsFence(x) = TRUE /\ a.fenced = FALSE
    BY <1>1, <1>4, <1>10
  <2>12. b.fenced <=> (a.fenced # IsFence(x))
    BY <2>6, <2>11, Zenon
  <2> QED
    BY <2>9, <2>10, <2>12 DEF b
<1>11. CASE IsFence(x) /\ a.fenced
  <2> DEFINE p == ParaPush(a, x)
             q == Joined(u)
  <2>1. b = [ParaFlush(p) EXCEPT !.fenced = FALSE]
    BY <1>11 DEF ParaStep
  <2>2. p = [a EXCEPT !.buf = u]
    BY DEF ParaPush, u
  <2> HIDE DEF p
  <2>3. p = [out |-> a.out, buf |-> u, fenced |-> a.fenced] /\ p.buf = u /\ p.out = a.out
    <3> HIDE DEF X, Y
    <3> QED
      BY <1>1, <2>2
  <2>4. /\ q \in Seq(S) /\ q \in Text /\ Sound(q) /\ Body(q) = Bodies(u) /\ Marks(q) = MarksOf(u)
        /\ q # <<>> /\ q[1].kind = "tick" /\ ~IsBlank(q)
    <3>1. FenceLine(u[1])
      BY <1>1, <1>5, <1>11
    <3> QED
      BY <1>5, <3>1, BufferIs
  <2>5. Marks(q) = 2
    BY <1>1, <1>2, <1>5, <1>11, <2>4
  <2>6. q[Len(q)].kind = "tick"
    <3>1. u \in SomeLines
      BY <1>5, ParaTypes DEF SomeLines
    <3>2. x # <<>> /\ x[Len(x)].kind = "tick"
      <4> DEFINE n == Len(x)
      <4>1. n = 3 /\ 3 \in 1..3 /\ x[3].kind = "tick"
        BY <1>2, <1>11 DEF FenceLine
      <4>2. x # <<>>
        <5>1. x = <<>> => n = 0
          BY EmptySeq
        <5> HIDE DEF n
        <5> QED
          BY <4>1, <5>1
      <4> HIDE DEF n
      <4>3. x[n].kind = "tick"
        BY <4>1
      <4> QED
        BY <4>2, <4>3 DEF n
    <3> QED
      BY <1>5, <2>4, <3>1, <3>2, LastOfJoined
  <2> HIDE DEF q
  <2>7. q \in X
    <3>1. FencePart(q) /\ Even(q)
      BY <2>4, <2>5, <2>6 DEF FencePart, Even
    <3> QED
      BY <2>4, <3>1 DEF EvenParagraph, Paragraph
  <2>8. ParaFlush(p) = [p EXCEPT !.buf = <<>>, !.out = Append(p.out, q)]
    BY <1>5, <2>3, <2>4 DEF ParaFlush, q
  <2>9. b = [out |-> Append(a.out, q), buf |-> <<>>, fenced |-> FALSE]
    <3> DEFINE g == ParaFlush(p)
               v == Append(a.out, q)
               e == <<>>
    <3>1. g = [p EXCEPT !.buf = e, !.out = v] /\ b = [g EXCEPT !.fenced = FALSE]
      BY <2>1, <2>3, <2>8
    <3> HIDE DEF b, g, v, e
    <3>2. g = [out |-> v, buf |-> e, fenced |-> a.fenced]
      BY <2>3, <3>1
    <3>3. b = [out |-> v, buf |-> e, fenced |-> FALSE]
      BY <3>1, <3>2
    <3> QED
      BY <3>3 DEF v, e
  <2> HIDE DEF b, X, Y
  <2>10. Append(a.out, q) \in Seq(X)
    BY <1>1, <2>7, AppendIs
  <2>11. b.out = Append(a.out, q) /\ b.buf = <<>> /\ b.fenced = FALSE
    BY <2>9
  <2>12. b \in [out : Seq(X), buf : Seq(Y), fenced : BOOLEAN]
    <3>1. <<>> \in Seq(Y)
      BY EmptySeq
    <3> QED
      BY <2>9, <2>10, <3>1
  <2>13. b \in ParaStates(S)
    BY <2>11, <2>12, EmptySeq DEF ParaStates, X, Y
  <2>14. Split(b) = Split(a) \o Body(x)
    <3>1. Bodies(b.out) = Bodies(a.out) \o Body(q) /\ Bodies(b.out) \in Seq(Chars)
      <4>1. b.out \in Seq(Text)
        BY <1>3, <2>4, <2>11, AppendIs
      <4> QED
        BY <1>3, <2>4, <2>11, <4>1, BodiesLaws DEF Text
    <3>2. Split(b) = Bodies(b.out)
      BY <1>4, <2>11, <3>1, ConcatEmptySeq DEF Split
    <3>3. (Bodies(a.out) \o Bodies(a.buf)) \o Body(x) = Bodies(a.out) \o (Bodies(a.buf) \o Body(x))
      BY <1>4, ConcatAssociative
    <3> QED
      BY <1>5, <2>4, <3>1, <3>2, <3>3 DEF Split
  <2>15. IsFence(x) = TRUE /\ a.fenced = TRUE
    BY <1>1, <1>4, <1>11
  <2>16. b.fenced <=> (a.fenced # IsFence(x))
    BY <2>11, <2>15, Zenon
  <2> QED
    BY <2>13, <2>14, <2>16 DEF b
<1> QED
  BY <1>8, <1>9, <1>10, <1>11

\* it is the function that the fold applies to the places of s.
IsParaFold(s, it) ==
    it = [t \in SUBSET DOMAIN s |->
            IF t = {} THEN NoParagraphs ELSE ParaStep(it[t \ {Max(t)}], s[Max(t)])]

\* The fold, opened once.
LEMMA ParaFoldUnfolds == \A s : ParaFold(s) = (CHOOSE it : IsParaFold(s, it))[DOMAIN s]
BY DEF IsParaFold, ParaFold, FoldLeft, MapThenFoldSet

\* It is a fold whose step is a function.
LEMMA ParaFoldIsFold ==
    ASSUME NEW S, NEW s \in Seq(LineSet(S)), NoParagraphs \in ParaStates(S),
           \A a \in ParaStates(S), e \in LineSet(S) : ParaStep(a, e) \in ParaStates(S)
    PROVE  ParaFold(s) = FoldOf([a \in ParaStates(S) |-> [e \in LineSet(S) |-> ParaStep(a, e)]], NoParagraphs, s)
<1> DEFINE step == [a \in ParaStates(S) |-> [e \in LineSet(S) |-> ParaStep(a, e)]]
           base == NoParagraphs
           c == CHOOSE it : IsParaFold(s, it)
<1>1. step \in [ParaStates(S) -> [LineSet(S) -> ParaStates(S)]]
  OBVIOUS
<1>2. \A a \in ParaStates(S), e \in LineSet(S) : step[a][e] = ParaStep(a, e)
  OBVIOUS
<1>3. Len(s) \in Nat /\ DOMAIN s = 1..Len(s) /\ \A i \in 1..Len(s) : s[i] \in LineSet(S)
  BY LenProperties, ElementOfSeq
<1>0. base \in ParaStates(S)
  OBVIOUS
<1> HIDE DEF step, base
<1>4. PICK it \in [SUBSET DOMAIN s -> ParaStates(S)] : IsIter(step, base, s, it)
  BY <1>0, <1>1, FoldIter
<1>5. IsParaFold(s, it)
  <2>1. ASSUME NEW t \in SUBSET DOMAIN s, t # {}
        PROVE  step[it[t \ {Max(t)}]][s[Max(t)]] = ParaStep(it[t \ {Max(t)}], s[Max(t)])
    <3>1. Max(t) \in 1..Len(s) /\ t \ {Max(t)} \in SUBSET DOMAIN s
      BY <1>3, <2>1, MaxOfPlaces
    <3>2. it[t \ {Max(t)}] \in ParaStates(S) /\ s[Max(t)] \in LineSet(S)
      BY <1>3, <3>1
    <3> QED
      BY <1>2, <3>2
  <2> QED
    BY <1>4, <2>1 DEF IsIter, IsParaFold, base
<1>6. IsParaFold(s, c)
  BY <1>5
<1> HIDE DEF c
<1>7. c[{}] = base
  BY <1>6 DEF IsParaFold, base
<1>8. ASSUME NEW k \in 1..Len(s), c[1..(k - 1)] \in ParaStates(S)
      PROVE  c[1..k] = step[c[1..(k - 1)]][s[k]]
  <2>1. Max(1..k) = k /\ (1..k) \ {k} = 1..(k - 1) /\ 1..k \in SUBSET DOMAIN s /\ 1..k # {}
    BY <1>3, MaxOfPlaces
  <2>2. c[1..k] = ParaStep(c[1..(k - 1)], s[k])
    BY <1>6, <2>1 DEF IsParaFold
  <2>3. s[k] \in LineSet(S)
    BY <1>3
  <2> QED
    BY <1>2, <1>8, <2>2, <2>3
<1>9. TakesSteps(step, base, s, ParaStates(S), c)
  BY <1>7, <1>8 DEF TakesSteps
<1>a. Stepper(step, base, ParaStates(S), LineSet(S))
  BY <1>0, <1>1 DEF Stepper
<1>10. c[DOMAIN s] = FoldOf(step, base, s) /\ c[DOMAIN s] \in ParaStates(S)
  BY <1>a, <1>9, FoldMatch
<1> QED
  BY <1>10, ParaFoldUnfolds DEF c, step, base

\* The lines of a section in turn.
LEMMA ParaFoldLaws ==
    ASSUME NEW S \in SUBSET Own, Newline \in S
    PROVE  /\ NoParagraphs \in ParaStates(S) /\ ParaFold(<<>>) = NoParagraphs
           /\ \A s \in Seq(LineSet(S)) : ParaFold(s) \in ParaStates(S)
           /\ \A s \in Seq(LineSet(S)), x \in LineSet(S) :
                 ParaFold(Append(s, x)) = ParaStep(ParaFold(s), x)
<1> DEFINE A == ParaStates(S)
           E == LineSet(S)
           step == [a \in A |-> [e \in E |-> ParaStep(a, e)]]
<1>1. NoParagraphs \in A
  <2> DEFINE X == EvenParagraph(S)
             Y == LineSet(S)
  <2>1. <<>> \in Seq(X) /\ <<>> \in Seq(Y) /\ <<>> \in Seq(Clean(S))
    BY EmptySeq
  <2> HIDE DEF X, Y
  <2>2. [out |-> <<>>, buf |-> <<>>, fenced |-> FALSE] \in [out : Seq(X), buf : Seq(Y), fenced : BOOLEAN]
    BY <2>1
  <2> QED
    BY <2>1, <2>2 DEF ParaStates, NoParagraphs, X, Y
<1>2. \A a \in A, e \in E : ParaStep(a, e) \in A
  BY ParaStepIs
<1>3. ASSUME NEW s \in Seq(E)
      PROVE  ParaFold(s) = FoldOf(step, NoParagraphs, s)
  BY <1>1, <1>2, ParaFoldIsFold
<1> HIDE DEF A, E
<1>4. step \in [A -> [E -> A]] /\ \A a \in A, e \in E : step[a][e] = ParaStep(a, e)
  BY <1>2
<1> HIDE DEF step
<1>5. FoldFollows(step, NoParagraphs, A, E)
  <2>1. Stepper(step, NoParagraphs, A, E)
    BY <1>1, <1>4 DEF Stepper
  <2> QED
    BY <2>1, FoldLaws
<1>6. <<>> \in Seq(E) /\ \A s \in Seq(E), x \in E : Append(s, x) \in Seq(E)
  BY EmptySeq, AppendProperties
<1>7. ParaFold(<<>>) = NoParagraphs
  BY <1>3, <1>5, <1>6 DEF FoldFollows
<1>8. \A s \in Seq(E) : ParaFold(s) \in A
  BY <1>3, <1>5 DEF FoldFollows
<1>9. ASSUME NEW s \in Seq(E), NEW x \in E
      PROVE  ParaFold(Append(s, x)) = ParaStep(ParaFold(s), x)
  <2>1. FoldOf(step, NoParagraphs, Append(s, x)) = step[FoldOf(step, NoParagraphs, s)][x]
    BY <1>5 DEF FoldFollows
  <2>2. FoldOf(step, NoParagraphs, s) = ParaFold(s) /\ ParaFold(s) \in A
    BY <1>3, <1>8
  <2>3. ParaFold(Append(s, x)) = FoldOf(step, NoParagraphs, Append(s, x))
    BY <1>3, <1>6
  <2>4. step[ParaFold(s)][x] = ParaStep(ParaFold(s), x)
    BY <1>4, <2>2
  <2> QED
    BY <2>1, <2>2, <2>3, <2>4
<1> QED
  BY <1>1, <1>7, <1>8, <1>9 DEF A, E

\* The paragraphs of a section are all of it, and are closed if its fences are.
LEMMA SplitLaws ==
    ASSUME NEW S \in SUBSET Own, Newline \in S, NEW lines \in Seq(LineSet(S))
    PROVE  LET out == SplitParagraphs(lines)
           IN  /\ out \in Seq(Paragraph(S)) /\ Bodies(out) = Bodies(lines)
               /\ MarksOf(lines) % 2 = 0 => out \in Seq(EvenParagraph(S))
<1> DEFINE Y == LineSet(S)
           holds(s) == LET a == ParaFold(s)
                       IN  Split(a) = Bodies(s) /\ MarksOf(s) \in Nat /\ (a.fenced <=> MarksOf(s) % 2 = 1)
           G == {s \in Seq(Y) : holds(s)}
<1>1. <<>> \in G
  <2>1. <<>> \in Seq(Y) /\ ParaFold(<<>>) = NoParagraphs /\ Bodies(<<>>) = <<>> /\ MarksOf(<<>>) = 0
    BY ParaFoldLaws, EmptySeq, BodiesLaws, MarksOfLaws
  <2>2. NoParagraphs.out = <<>> /\ NoParagraphs.buf = <<>> /\ NoParagraphs.fenced = FALSE
    BY DEF NoParagraphs
  <2> DEFINE e == <<>>
             a == ParaFold(e)
             m == MarksOf(e)
  <2>3. e \o e = e
    BY EmptySeq, ConcatEmptySeq
  <2>4. a.out = e /\ a.buf = e /\ a.fenced = FALSE /\ m = 0 /\ Bodies(e) = e
    BY <2>1, <2>2
  <2>5. Split(a) = Bodies(e)
    BY <2>3, <2>4 DEF Split
  <2> HIDE DEF a, m
  <2>6. m \in Nat /\ ~(m % 2 = 1)
    BY <2>4
  <2>7. holds(e)
    BY <2>4, <2>5, <2>6 DEF a, m
  <2>8. e \in Seq(Y)
    BY <2>1
  <2> HIDE DEF e
  <2>9. e \in G
    BY <2>7, <2>8
  <2> QED
    BY <2>9 DEF e
<1>2. ASSUME NEW s \in G, NEW x \in Y
      PROVE  Append(s, x) \in G
  <2> DEFINE a == ParaFold(s)
             b == ParaStep(a, x)
             m == MarksOf(s)
  <2>1. s \in Seq(Y) /\ s \in Seq(Text) /\ x \in Text /\ Split(a) = Bodies(s) /\ m \in Nat /\ (a.fenced <=> m % 2 = 1)
    BY ParaTypes
  <2>2. a \in ParaStates(S) /\ ParaFold(Append(s, x)) = b
    BY <2>1, ParaFoldLaws
  <2>3. Split(b) = Split(a) \o Body(x) /\ (b.fenced <=> (a.fenced # IsFence(x)))
    BY <2>2, ParaStepIs
  <2>4. Bodies(Append(s, x)) = Bodies(s) \o Body(x) /\ MarksOf(Append(s, x)) = m + Marks(x)
    BY <2>1, BodiesLaws, MarksOfLaws
  <2>5. Append(s, x) \in Seq(Y)
    BY <2>1, AppendProperties
  <2>6. Marks(x) = IF IsFence(x) THEN 1 ELSE 0
    BY LineSetIs
  <2>7. a.fenced \in BOOLEAN /\ IsFence(x) \in BOOLEAN
    BY <2>2 DEF ParaStates, IsFence
  <2> DEFINE k == m + Marks(x)
  <2>8. k \in Nat /\ (b.fenced <=> k % 2 = 1)
    <3> HIDE DEF a, b, m
    <3>1. CASE IsFence(x)
      <4>1. k = m + 1 /\ (b.fenced <=> ~a.fenced)
        BY <2>3, <2>6, <2>7, <3>1
      <4> HIDE DEF k
      <4>2. k % 2 = 1 <=> m % 2 = 0
        BY <2>1, <4>1
      <4>3. m % 2 = 0 \/ m % 2 = 1
        BY <2>1
      <4> QED
        BY <2>1, <4>1, <4>2, <4>3
    <3>2. CASE ~IsFence(x)
      <4>1. k = m /\ (b.fenced <=> a.fenced)
        BY <2>1, <2>3, <2>6, <2>7, <3>2
      <4> QED
        BY <2>1, <4>1
    <3> QED
      BY <3>1, <3>2
  <2> HIDE DEF a, b, m, k
  <2>9. holds(Append(s, x))
    BY <2>1, <2>2, <2>3, <2>4, <2>8 DEF k
  <2> QED
    BY <2>5, <2>9
<1>3. G \in SUBSET Seq(Y)
  OBVIOUS
<1> HIDE DEF G
<1>4. G = Seq(Y)
  BY <1>1, <1>2, <1>3, SeqSetInduction
<1> DEFINE a == ParaFold(lines)
           q == Joined(a.buf)
           m == MarksOf(lines)
<1>5. a \in ParaStates(S) /\ Split(a) = Bodies(lines) /\ m \in Nat /\ (a.fenced <=> m % 2 = 1)
      /\ SplitParagraphs(lines) = ParaFlush(a).out
  BY <1>4, ParaFoldLaws, SplitIs DEF G
<1> HIDE DEF a, m
<1>6. /\ a \in [out : Seq(EvenParagraph(S)), buf : Seq(Y), fenced : BOOLEAN]
      /\ a.fenced => a.buf # <<>> /\ FenceLine(a.buf[1]) /\ MarksOf(a.buf) = 1
  BY <1>5 DEF ParaStates
<1>7. CASE ~a.fenced
  <2>1. ParaFlush(a).out \in Seq(EvenParagraph(S)) /\ Bodies(ParaFlush(a).out) = Split(a)
    BY <1>5, <1>7, FlushText
  <2>2. ParaFlush(a).out \in Seq(Paragraph(S))
    BY <2>1, ParaTypes
  <2> QED
    BY <1>5, <2>1, <2>2
<1>8. CASE a.fenced
  <2>1. /\ q \in Seq(S) /\ q \in Text /\ Sound(q) /\ Body(q) = Bodies(a.buf) /\ Marks(q) = 1
        /\ q # <<>> /\ q[1].kind = "tick" /\ ~IsBlank(q) /\ a.buf # <<>>
    BY <1>6, <1>8, BufferIs
  <2> HIDE DEF q, Y
  <2>2. q \in Paragraph(S)
    BY <2>1 DEF FencePart, Paragraph
  <2>3. a.out \in Seq(Paragraph(S)) /\ a.out \in Seq(Text)
    BY <1>6, ParaTypes
  <2>4. ParaFlush(a).out = Append(a.out, q)
    <3>1. ParaFlush(a) = [a EXCEPT !.buf = <<>>, !.out = Append(a.out, q)]
      BY <2>1 DEF ParaFlush, q
    <3> QED
      BY <1>6, <3>1
  <2>5. Append(a.out, q) \in Seq(Paragraph(S))
    BY <2>2, <2>3, AppendIs
  <2>6. Bodies(Append(a.out, q)) = Bodies(a.out) \o Body(q)
    BY <2>1, <2>3, BodiesLaws
  <2>7. ~(m % 2 = 0)
    BY <1>5, <1>8
  <2> QED
    BY <1>5, <2>1, <2>4, <2>5, <2>6, <2>7 DEF Split, m
<1> QED
  BY <1>7, <1>8

-----------------------------------------------------------------------------
(***************************************************************************)
(* What SplitSections folds, and what is seen of sections.                 *)
(***************************************************************************)
\* A section, and what a fold keeps of a document cut into sections.
Headed == [heading : Text, lines : Seq(Text)]
SectionStates == {a \in [all : Seq(Headed), fenced : BOOLEAN] : a.all # <<>>}

\* The last of the sections, with a line more.
Grown(all, line) == [all EXCEPT ![Len(all)].lines = Append(@, line)]
SectionStep(a, line) ==
    IF ~IsFence(line) /\ ~a.fenced /\ IsHeading(line)
    THEN [a EXCEPT !.all = Append(@, [heading |-> line, lines |-> <<line>>])]
    ELSE [all    |-> Grown(a.all, line),
          fenced |-> a.fenced # IsFence(line)]
NoSections == [all |-> << [heading |-> NoHeading, lines |-> <<>>] >>, fenced |-> FALSE]
SectionFold(s) == FoldLeft(LAMBDA a, line : SectionStep(a, line), NoSections, s)
HasText(x) == \E i \in DOMAIN x.lines : ~IsBlank(x.lines[i])
TextStep(kept, x) == IF HasText(x) THEN Append(kept, x) ELSE kept
KeptSections(s) == Filtered(s, LAMBDA x : \E i \in DOMAIN x.lines : ~IsBlank(x.lines[i]))

\* These are the steps of SplitSections.
LEMMA SplitSectionsIs == \A s : SplitSections(s) = KeptSections(SectionFold(s).all)
BY DEF SplitSections, KeptSections, SectionFold, SectionStep, NoSections, Grown

\* A line more of the last section.
LEMMA LastGrows ==
    ASSUME NEW F \in Seq(Headed), NEW l \in Headed, NEW x \in Text
    PROVE  LET m == [heading |-> l.heading, lines |-> Append(l.lines, x)]
           IN  m \in Headed /\ Grown(Append(F, l), x) = Append(F, m)
<1> DEFINE R == Headed
           all == Append(F, l)
           y == Append(l.lines, x)
           m == [heading |-> l.heading, lines |-> y]
           n == Len(F)
           out == Grown(all, x)
           h == l.heading
           T == Text
<1>1. l \in [heading : T, lines : Seq(T)] /\ x \in T
  BY DEF Headed
<1>2. y \in Seq(T)
  <2> HIDE DEF T
  <2> QED
    BY <1>1, AppendIs
<1>3. m \in R
  <2> HIDE DEF T, y
  <2>1. m \in [heading : T, lines : Seq(T)]
    BY <1>1, <1>2
  <2> QED
    BY <2>1 DEF R, T, Headed
<1>4. /\ all \in Seq(R) /\ n \in Nat /\ Len(all) = n + 1 /\ all[n + 1] = l
      /\ \A j \in 1..n : all[j] = F[j]
  BY AppendIs
<1>5. all = [i \in 1..(n + 1) |-> IF i = n + 1 THEN l ELSE F[i]]
  <2> HIDE DEF R
  <2> QED
    BY AppendIsMap DEF R
<1>6. Append(F, m) = [i \in 1..(n + 1) |-> IF i = n + 1 THEN m ELSE F[i]]
  <2>1. F \in Seq(R)
    OBVIOUS
  <2> HIDE DEF R, m
  <2> QED
    BY <1>3, <2>1, AppendIsMap
<1>7. m = [l EXCEPT !.lines = y]
  <2> HIDE DEF T, y
  <2> QED
    BY <1>1
<1>8. out = [all EXCEPT ![n + 1] = m]
  <2>1. out = [all EXCEPT ![Len(all)] = [all[Len(all)] EXCEPT !.lines = Append(all[Len(all)].lines, x)]]
    BY DEF Grown
  <2> DEFINE k == Len(all)
  <2>2. out = [all EXCEPT ![k] = [all[k] EXCEPT !.lines = Append(all[k].lines, x)]] /\ k = n + 1 /\ all[n + 1] = l
    BY <1>4, <2>1
  <2> HIDE DEF k, all, out, n
  <2>3. out = [all EXCEPT ![n + 1] = [l EXCEPT !.lines = Append(l.lines, x)]]
    BY <2>2
  <2> QED
    BY <1>7, <2>3
<1> HIDE DEF m, n, R
<1>9. out = Append(F, m)
  <2> HIDE DEF out, all
  <2> QED
    BY <1>4, <1>5, <1>6, <1>8
<1> QED
  BY <1>3, <1>9 DEF m, R

\* One line more.
LEMMA SectionStepIs ==
    ASSUME NEW a \in SectionStates, NEW F \in Seq(Headed), NEW l \in Headed, a.all = Append(F, l), NEW x \in Text
    PROVE  LET b == SectionStep(a, x)
               starts == ~IsFence(x) /\ ~a.fenced /\ IsHeading(x)
               new == [heading |-> x, lines |-> <<x>>]
               more == [heading |-> l.heading, lines |-> Append(l.lines, x)]
           IN  /\ b \in SectionStates /\ new \in Headed /\ more \in Headed
               /\ starts => b.all = Append(a.all, new) /\ b.fenced = FALSE
               /\ ~starts => b.all = Append(F, more) /\ b.fenced \in BOOLEAN /\ (b.fenced <=> (a.fenced # IsFence(x)))
<1> DEFINE b == SectionStep(a, x)
           starts == ~IsFence(x) /\ ~a.fenced /\ IsHeading(x)
           new == [heading |-> x, lines |-> <<x>>]
           more == [heading |-> l.heading, lines |-> Append(l.lines, x)]
           R == Headed
           T == Text
<1>1. a \in [all : Seq(R), fenced : BOOLEAN] /\ a.all # <<>> /\ IsFence(x) \in BOOLEAN
  BY DEF SectionStates, IsFence
<1>2. new \in R
  <2>1. x \in T
    OBVIOUS
  <2> DEFINE y == <<x>>
  <2> HIDE DEF T
  <2>2. y \in Seq(T)
    BY <2>1
  <2> HIDE DEF y
  <2>3. [heading |-> x, lines |-> y] \in [heading : T, lines : Seq(T)]
    BY <2>1, <2>2
  <2> QED
    BY <2>3 DEF y, T, R, Headed
<1>3. more \in R /\ Grown(a.all, x) = Append(F, more)
  BY LastGrows
<1> HIDE DEF new, more, R, T
<1>4. ASSUME starts
      PROVE  b \in SectionStates /\ b.all = Append(a.all, new) /\ b.fenced = FALSE
  <2> DEFINE v == Append(a.all, new)
  <2>1. b = [a EXCEPT !.all = v]
    BY <1>4 DEF SectionStep, new
  <2>2. v \in Seq(R) /\ v # <<>>
    BY <1>1, <1>2, AppendIs, SMTT(30)
  <2> HIDE DEF v, b
  <2>3. b = [all |-> v, fenced |-> a.fenced] /\ a.fenced = FALSE
    BY <1>1, <1>4, <2>1
  <2>4. b.all = v /\ b.fenced = FALSE /\ b \in [all : Seq(R), fenced : BOOLEAN]
    BY <1>1, <2>2, <2>3
  <2> QED
    BY <2>2, <2>4 DEF SectionStates, v, R
<1>5. ASSUME ~starts
      PROVE  b \in SectionStates /\ b.all = Append(F, more) /\ b.fenced \in BOOLEAN /\ (b.fenced <=> (a.fenced # IsFence(x)))
  <2> DEFINE v == Append(F, more)
             d == a.fenced # IsFence(x)
  <2>1. b = [all |-> v, fenced |-> d]
    BY <1>3, <1>5 DEF SectionStep
  <2>2. v \in Seq(R) /\ v # <<>>
    BY <1>3, AppendIs DEF R
  <2>3. d \in BOOLEAN
    OBVIOUS
  <2> HIDE DEF v, b, d
  <2>4. b.all = v /\ b.fenced = d /\ b \in [all : Seq(R), fenced : BOOLEAN]
    BY <2>1, <2>2, <2>3
  <2>5. b \in SectionStates /\ b.fenced \in BOOLEAN
    BY <2>2, <2>3, <2>4 DEF SectionStates, R
  <2>6. b.fenced <=> (a.fenced # IsFence(x))
    BY <2>4, Zenon DEF d
  <2> QED
    BY <2>4, <2>5, <2>6 DEF v
<1> QED
  BY <1>2, <1>3, <1>4, <1>5 DEF R, new, more, b

\* The sections so far are some and a last one.
LEMMA LastSection ==
    ASSUME NEW a \in SectionStates
    PROVE  \E F \in Seq(Headed), l \in Headed : a.all = Append(F, l)
<1>1. a.all \in Seq(Headed) /\ a.all # <<>>
  BY DEF SectionStates
<1> QED
  BY <1>1, SequenceEmptyOrAppend

\* A step leads from sections to sections.
LEMMA SectionSteps ==
    \A a \in SectionStates, x \in Text : SectionStep(a, x) \in SectionStates
<1> TAKE a \in SectionStates, x \in Text
<1>1. PICK F \in Seq(Headed), l \in Headed : a.all = Append(F, l)
  BY LastSection
<1> QED
  BY <1>1, SectionStepIs

\* it is the function that the fold applies to the places of s.
IsSectionFold(s, it) ==
    it = [t \in SUBSET DOMAIN s |->
            IF t = {} THEN NoSections ELSE SectionStep(it[t \ {Max(t)}], s[Max(t)])]

\* The fold, opened once.
LEMMA SectionFoldUnfolds == \A s : SectionFold(s) = (CHOOSE it : IsSectionFold(s, it))[DOMAIN s]
BY DEF IsSectionFold, SectionFold, FoldLeft, MapThenFoldSet

\* It is a fold whose step is a function.
LEMMA SectionFoldIsFold ==
    ASSUME NEW s \in Seq(Text), NoSections \in SectionStates,
           \A a \in SectionStates, e \in Text : SectionStep(a, e) \in SectionStates
    PROVE  SectionFold(s) = FoldOf([a \in SectionStates |-> [e \in Text |-> SectionStep(a, e)]], NoSections, s)
<1> DEFINE step == [a \in SectionStates |-> [e \in Text |-> SectionStep(a, e)]]
           base == NoSections
           c == CHOOSE it : IsSectionFold(s, it)
<1>1. step \in [SectionStates -> [Text -> SectionStates]]
  OBVIOUS
<1>2. \A a \in SectionStates, e \in Text : step[a][e] = SectionStep(a, e)
  OBVIOUS
<1>3. Len(s) \in Nat /\ DOMAIN s = 1..Len(s) /\ \A i \in 1..Len(s) : s[i] \in Text
  BY LenProperties, ElementOfSeq
<1>0. base \in SectionStates
  OBVIOUS
<1> HIDE DEF step, base
<1>4. PICK it \in [SUBSET DOMAIN s -> SectionStates] : IsIter(step, base, s, it)
  BY <1>0, <1>1, FoldIter
<1>5. IsSectionFold(s, it)
  <2>1. ASSUME NEW t \in SUBSET DOMAIN s, t # {}
        PROVE  step[it[t \ {Max(t)}]][s[Max(t)]] = SectionStep(it[t \ {Max(t)}], s[Max(t)])
    <3>1. Max(t) \in 1..Len(s) /\ t \ {Max(t)} \in SUBSET DOMAIN s
      BY <1>3, <2>1, MaxOfPlaces
    <3>2. it[t \ {Max(t)}] \in SectionStates /\ s[Max(t)] \in Text
      BY <1>3, <3>1
    <3> QED
      BY <1>2, <3>2
  <2> QED
    BY <1>4, <2>1 DEF IsIter, IsSectionFold, base
<1>6. IsSectionFold(s, c)
  BY <1>5
<1> HIDE DEF c
<1>7. c[{}] = base
  BY <1>6 DEF IsSectionFold, base
<1>8. ASSUME NEW k \in 1..Len(s), c[1..(k - 1)] \in SectionStates
      PROVE  c[1..k] = step[c[1..(k - 1)]][s[k]]
  <2>1. Max(1..k) = k /\ (1..k) \ {k} = 1..(k - 1) /\ 1..k \in SUBSET DOMAIN s /\ 1..k # {}
    BY <1>3, MaxOfPlaces
  <2>2. c[1..k] = SectionStep(c[1..(k - 1)], s[k])
    BY <1>6, <2>1 DEF IsSectionFold
  <2>3. s[k] \in Text
    BY <1>3
  <2> QED
    BY <1>2, <1>8, <2>2, <2>3
<1>9. TakesSteps(step, base, s, SectionStates, c)
  BY <1>7, <1>8 DEF TakesSteps
<1>a. Stepper(step, base, SectionStates, Text)
  BY <1>0, <1>1 DEF Stepper
<1>10. c[DOMAIN s] = FoldOf(step, base, s) /\ c[DOMAIN s] \in SectionStates
  BY <1>a, <1>9, FoldMatch
<1> QED
  BY <1>10, SectionFoldUnfolds DEF c, step, base

\* The lines of a document in turn.
LEMMA SectionFoldLaws ==
    /\ NoSections \in SectionStates /\ SectionFold(<<>>) = NoSections
    /\ \A s \in Seq(Text) : SectionFold(s) \in SectionStates
    /\ \A s \in Seq(Text), x \in Text :
          SectionFold(Append(s, x)) = SectionStep(SectionFold(s), x)
<1> DEFINE A == SectionStates
           E == Text
           step == [a \in A |-> [e \in E |-> SectionStep(a, e)]]
<1>1. NoSections \in A
  <2> DEFINE T == Text
             e == <<>>
             R == Headed
             x == [heading |-> e, lines |-> e]
             u == <<x>>
  <2>1. e \in T /\ e \in Seq(T)
    BY EmptySeq DEF Text
  <2> HIDE DEF T, e
  <2>2. x \in [heading : T, lines : Seq(T)]
    BY <2>1
  <2>3. x \in R
    BY <2>2 DEF Headed, T
  <2> HIDE DEF R, x
  <2>4. u \in Seq(R) /\ u # <<>>
    BY <2>3
  <2> HIDE DEF u
  <2>5. [all |-> u, fenced |-> FALSE] \in [all : Seq(R), fenced : BOOLEAN]
    BY <2>4
  <2> QED
    BY <2>4, <2>5 DEF SectionStates, NoSections, NoHeading, R, x, u, e
<1>2. \A a \in A, e \in E : SectionStep(a, e) \in A
  BY SectionSteps
<1>3. ASSUME NEW s \in Seq(E)
      PROVE  SectionFold(s) = FoldOf(step, NoSections, s)
  BY <1>1, <1>2, SectionFoldIsFold
<1> HIDE DEF A, E
<1>4. step \in [A -> [E -> A]] /\ \A a \in A, e \in E : step[a][e] = SectionStep(a, e)
  BY <1>2
<1> HIDE DEF step
<1>5. FoldFollows(step, NoSections, A, E)
  <2>1. Stepper(step, NoSections, A, E)
    BY <1>1, <1>4 DEF Stepper
  <2> QED
    BY <2>1, FoldLaws
<1>6. <<>> \in Seq(E) /\ \A s \in Seq(E), x \in E : Append(s, x) \in Seq(E)
  BY EmptySeq, AppendProperties
<1>7. SectionFold(<<>>) = NoSections
  BY <1>3, <1>5, <1>6 DEF FoldFollows
<1>8. \A s \in Seq(E) : SectionFold(s) \in A
  BY <1>3, <1>5 DEF FoldFollows
<1>9. ASSUME NEW s \in Seq(E), NEW x \in E
      PROVE  SectionFold(Append(s, x)) = SectionStep(SectionFold(s), x)
  <2>1. FoldOf(step, NoSections, Append(s, x)) = step[FoldOf(step, NoSections, s)][x]
    BY <1>5 DEF FoldFollows
  <2>2. FoldOf(step, NoSections, s) = SectionFold(s) /\ SectionFold(s) \in A
    BY <1>3, <1>8
  <2>3. SectionFold(Append(s, x)) = FoldOf(step, NoSections, Append(s, x))
    BY <1>3, <1>6
  <2>4. step[SectionFold(s)][x] = SectionStep(SectionFold(s), x)
    BY <1>4, <2>2
  <2> QED
    BY <2>1, <2>2, <2>3, <2>4
<1> QED
  BY <1>1, <1>7, <1>8, <1>9 DEF A, E

\* it is the function that the fold applies to the places of s.
IsKeptSections(s, it) ==
    it = [t \in SUBSET DOMAIN s |->
            IF t = {} THEN <<>> ELSE TextStep(it[t \ {Max(t)}], s[Max(t)])]

\* The fold, opened once.
LEMMA KeptSectionsUnfolds == \A s : KeptSections(s) = (CHOOSE it : IsKeptSections(s, it))[DOMAIN s]
BY DEF IsKeptSections, KeptSections, Filtered, FoldLeft, MapThenFoldSet, TextStep, HasText

\* It is a fold whose step is a function.
LEMMA KeptSectionsIsFold ==
    ASSUME NEW E, NEW s \in Seq(E), <<>> \in Seq(E),
           \A a \in Seq(E), e \in E : TextStep(a, e) \in Seq(E)
    PROVE  KeptSections(s) = FoldOf([a \in Seq(E) |-> [e \in E |-> TextStep(a, e)]], <<>>, s)
<1> DEFINE step == [a \in Seq(E) |-> [e \in E |-> TextStep(a, e)]]
           base == <<>>
           c == CHOOSE it : IsKeptSections(s, it)
<1>1. step \in [Seq(E) -> [E -> Seq(E)]]
  OBVIOUS
<1>2. \A a \in Seq(E), e \in E : step[a][e] = TextStep(a, e)
  OBVIOUS
<1>3. Len(s) \in Nat /\ DOMAIN s = 1..Len(s) /\ \A i \in 1..Len(s) : s[i] \in E
  BY LenProperties, ElementOfSeq
<1>0. base \in Seq(E)
  OBVIOUS
<1> HIDE DEF step, base
<1>4. PICK it \in [SUBSET DOMAIN s -> Seq(E)] : IsIter(step, base, s, it)
  BY <1>0, <1>1, FoldIter
<1>5. IsKeptSections(s, it)
  <2>1. ASSUME NEW t \in SUBSET DOMAIN s, t # {}
        PROVE  step[it[t \ {Max(t)}]][s[Max(t)]] = TextStep(it[t \ {Max(t)}], s[Max(t)])
    <3>1. Max(t) \in 1..Len(s) /\ t \ {Max(t)} \in SUBSET DOMAIN s
      BY <1>3, <2>1, MaxOfPlaces
    <3>2. it[t \ {Max(t)}] \in Seq(E) /\ s[Max(t)] \in E
      BY <1>3, <3>1
    <3> QED
      BY <1>2, <3>2
  <2> QED
    BY <1>4, <2>1 DEF IsIter, IsKeptSections, base
<1>6. IsKeptSections(s, c)
  BY <1>5
<1> HIDE DEF c
<1>7. c[{}] = base
  BY <1>6 DEF IsKeptSections, base
<1>8. ASSUME NEW k \in 1..Len(s), c[1..(k - 1)] \in Seq(E)
      PROVE  c[1..k] = step[c[1..(k - 1)]][s[k]]
  <2>1. Max(1..k) = k /\ (1..k) \ {k} = 1..(k - 1) /\ 1..k \in SUBSET DOMAIN s /\ 1..k # {}
    BY <1>3, MaxOfPlaces
  <2>2. c[1..k] = TextStep(c[1..(k - 1)], s[k])
    BY <1>6, <2>1 DEF IsKeptSections
  <2>3. s[k] \in E
    BY <1>3
  <2> QED
    BY <1>2, <1>8, <2>2, <2>3
<1>9. TakesSteps(step, base, s, Seq(E), c)
  BY <1>7, <1>8 DEF TakesSteps
<1>a. Stepper(step, base, Seq(E), E)
  BY <1>0, <1>1 DEF Stepper
<1>10. c[DOMAIN s] = FoldOf(step, base, s) /\ c[DOMAIN s] \in Seq(E)
  BY <1>a, <1>9, FoldMatch
<1> QED
  BY <1>10, KeptSectionsUnfolds DEF c, step, base

\* What is seen of sections: of their lines in turn.
LinesIn(x) == x.lines
TheirLines == [x \in Headed |-> LinesIn(x)]
SeenIn(all) == Bodies(FlattenSeq(Mapped(TheirLines, all)))

\* What is seen of several sections in turn.
LEMMA SeenLaws ==
    /\ SeenIn(<<>>) = <<>>
    /\ \A u \in Seq(Headed) : SeenIn(u) \in Text
    /\ \A u \in Seq(Headed), x \in Headed : SeenIn(Append(u, x)) = SeenIn(u) \o Bodies(x.lines)
    /\ \A u, v \in Seq(Headed) : SeenIn(u \o v) = SeenIn(u) \o SeenIn(v)
    /\ \A x \in Headed : x.lines \in Seq(Text) /\ x.heading \in Text /\ SeenIn(<<x>>) = Bodies(x.lines)
<1> DEFINE R == Headed
           W == Seq(Text)
           g == TheirLines
           m(u) == Mapped(g, u)
           f(u) == FlattenSeq(m(u))
<1>1. \A x \in R : x.lines \in W /\ x.heading \in Text /\ g[x] = x.lines
  BY DEF TheirLines, LinesIn, Headed
<1>2. g \in [R -> W]
  BY <1>1 DEF TheirLines, LinesIn
<1> HIDE DEF g
<1>3. /\ m(<<>>) = <<>>
      /\ \A u \in Seq(R) : m(u) \in Seq(W)
      /\ \A u \in Seq(R), x \in R : m(Append(u, x)) = Append(m(u), g[x])
      /\ \A u, v \in Seq(R) : m(u \o v) = m(u) \o m(v)
  <2> HIDE DEF R, W
  <2>1. /\ m(<<>>) = <<>>
        /\ \A u \in Seq(R) : m(u) \in Seq(W)
        /\ \A u \in Seq(R), x \in R : m(Append(u, x)) = Append(m(u), g[x])
    BY <1>2, MappedLaws, ZenonT(40)
  <2>2. ASSUME NEW u \in Seq(R), NEW v \in Seq(R)
        PROVE  m(u \o v) = m(u) \o m(v)
    <3>1. Mapped(g, u \o v) = Mapped(g, u) \o Mapped(g, v)
      <4>1. Maps(g, R, W)
        BY <1>2 DEF Maps
      <4>2. MapsParts(g, R, W)
        BY <4>1, MappedConcat
      <4> QED
        BY <4>2 DEF MapsParts
    <3> QED
      BY <3>1
  <2> HIDE DEF m
  <2> QED
    BY <2>1, <2>2
<1> HIDE DEF m
<1>4. /\ f(<<>>) = <<>>
      /\ \A u \in Seq(R) : f(u) \in Seq(Text)
      /\ \A u \in Seq(R), x \in R : f(Append(u, x)) = f(u) \o x.lines
      /\ \A u, v \in Seq(R) : f(u \o v) = f(u) \o f(v)
  <2>1. f(<<>>) = <<>> /\ \A u \in Seq(R) : f(u) \in Seq(Text)
    BY <1>3, FlattenLaws
  <2>2. ASSUME NEW u \in Seq(R), NEW x \in R
        PROVE  f(Append(u, x)) = f(u) \o x.lines
    <3> DEFINE y == m(u)
               z == x.lines
    <3>1. y \in Seq(Seq(Text)) /\ z \in Seq(Text) /\ m(Append(u, x)) = Append(y, z)
      BY <1>1, <1>3
    <3> HIDE DEF y, z, R, W
    <3>2. FlattenSeq(Append(y, z)) = FlattenSeq(y) \o z
      BY <3>1, FlattenLaws
    <3> QED
      BY <3>1, <3>2 DEF y, z
  <2>3. ASSUME NEW u \in Seq(R), NEW v \in Seq(R)
        PROVE  f(u \o v) = f(u) \o f(v)
    BY <1>3, FlattenConcat
  <2> QED
    BY <2>1, <2>2, <2>3
<1>5. \A u : SeenIn(u) = Bodies(f(u))
  BY DEF SeenIn, m, g
<1> HIDE DEF f
<1>6. SeenIn(<<>>) = <<>> /\ \A u \in Seq(R) : SeenIn(u) \in Text
  BY <1>4, <1>5, BodiesLaws
<1>7. \A u \in Seq(R), x \in R : SeenIn(Append(u, x)) = SeenIn(u) \o Bodies(x.lines)
  BY <1>1, <1>4, <1>5, BodiesLaws
<1>8. \A u, v \in Seq(R) : SeenIn(u \o v) = SeenIn(u) \o SeenIn(v)
  BY <1>4, <1>5, BodiesLaws, ZenonT(40)
<1>9. ASSUME NEW x \in R
      PROVE  SeenIn(<<x>>) = Bodies(x.lines)
  <2> DEFINE e == <<>>
             y == Bodies(x.lines)
  <2>1. e \in Seq(R) /\ <<x>> = Append(e, x) /\ SeenIn(e) = e
    BY <1>6, EmptySeq
  <2> HIDE DEF e
  <2>2. SeenIn(<<x>>) = e \o y /\ y \in Seq(Chars)
    BY <1>1, <1>7, <2>1, BodiesLaws DEF Text
  <2> HIDE DEF y
  <2>3. e \o y = y
    BY <2>2, ConcatEmptySeq DEF e
  <2> QED
    BY <2>2, <2>3 DEF y
<1> QED
  BY <1>1, <1>6, <1>7, <1>8, <1>9

\* Nothing is seen of the sections that are dropped.
LEMMA KeptSectionsLaws ==
    ASSUME NEW E \in SUBSET Headed, NEW s \in Seq(E)
    PROVE  KeptSections(s) \in Seq(E) /\ SeenIn(KeptSections(s)) = SeenIn(s)
<1> DEFINE B == {x \in E : HasText(x)}
           step == [a \in Seq(E) |-> [e \in E |-> TextStep(a, e)]]
           sel(u) == Sel(E, B, u)
           G == {u \in Seq(E) : SeenIn(sel(u)) = SeenIn(u)}
<1>1. <<>> \in Seq(E) /\ \A a \in Seq(E), e \in E : TextStep(a, e) \in Seq(E)
  BY EmptySeq, AppendProperties DEF TextStep
<1>2. KeptSections(s) = FoldOf(step, <<>>, s)
  BY <1>1, KeptSectionsIsFold
<1>3. step = Picks(E, B)
  BY DEF TextStep, Picks
<1>4. KeptSections(s) = sel(s)
  BY <1>2, <1>3 DEF Sel
<1>5. /\ sel(<<>>) = <<>>
      /\ \A u \in Seq(E), e \in E :
            /\ e \in B => sel(Append(u, e)) = Append(sel(u), e)
            /\ e \notin B => sel(Append(u, e)) = sel(u)
      /\ \A u \in Seq(E) : sel(u) \in Seq(E)
  BY SelNone, SelAppend, SelTyped
<1>6. Seq(E) \in SUBSET Seq(Headed)
  OBVIOUS
<1> HIDE DEF sel
<1>7. <<>> \in G
  BY <1>5, EmptySeq
<1>8. ASSUME NEW x \in E, x \notin B
      PROVE  Bodies(x.lines) = <<>>
  <2> DEFINE u == x.lines
  <2>1. u \in Seq(Text) /\ \A i \in DOMAIN u : IsBlank(u[i])
    BY <1>8, SeenLaws DEF HasText
  <2> HIDE DEF u
  <2>2. DOMAIN u = 1..Len(u) /\ \A i \in 1..Len(u) : u[i] \in Text
    BY <2>1, LenProperties, ElementOfSeq
  <2>3. \A i \in 1..Len(u) : Body(u[i]) = <<>>
    BY <2>1, <2>2, BlankBody
  <2>4. Bodies(u) = <<>>
    BY <2>1, <2>3, BodiesNone
  <2> QED
    BY <2>4 DEF u
<1>9. ASSUME NEW u \in G, NEW x \in E
      PROVE  Append(u, x) \in G
  <2>1. u \in Seq(E) /\ SeenIn(sel(u)) = SeenIn(u)
    OBVIOUS
  <2>2. Append(u, x) \in Seq(E) /\ sel(u) \in Seq(E) /\ x \in Headed
    BY <1>5, <2>1, AppendProperties
  <2>3. SeenIn(Append(u, x)) = SeenIn(u) \o Bodies(x.lines) /\ SeenIn(u) \in Seq(Chars)
    BY <1>6, <2>1, <2>2, SeenLaws DEF Text
  <2>4. CASE x \in B
    <3>1. SeenIn(Append(sel(u), x)) = SeenIn(sel(u)) \o Bodies(x.lines)
      BY <1>6, <2>2, SeenLaws
    <3> QED
      BY <1>5, <2>1, <2>2, <2>3, <2>4, <3>1
  <2>5. CASE x \notin B
    <3>1. Bodies(x.lines) = <<>>
      BY <1>8, <2>5
    <3>2. SeenIn(u) \o <<>> = SeenIn(u)
      BY <2>3, ConcatEmptySeq
    <3> QED
      BY <1>5, <2>1, <2>2, <2>3, <2>5, <3>1, <3>2
  <2> QED
    BY <2>4, <2>5
<1>10. G \in SUBSET Seq(E)
  OBVIOUS
<1> HIDE DEF G
<1>11. G = Seq(E)
  BY <1>7, <1>9, <1>10, SeqSetInduction
<1> QED
  BY <1>4, <1>5, <1>11 DEF G

-----------------------------------------------------------------------------
(***************************************************************************)
(* The headings of a document, and the sections under them.                *)
(***************************************************************************)
\* The fences and the headings of a document up to a line.
FencesIn(doc, n) == Cardinality({i \in 1..n : IsFence(doc[i])})
HeadingsTo(doc, at) == {n \in 1..at : IsHeading(doc[n]) /\ FencesIn(doc, n) % 2 = 0}
HeadingAt(doc, at) == IF HeadingsTo(doc, at) = {} THEN NoHeading ELSE doc[Max(HeadingsTo(doc, at))]

\* Each character knows its line, and a line is a fence or has no backticks.
Lined(doc) ==
    /\ doc \in Seq(LineSet(Own))
    /\ \A i \in 1..Len(doc) : \A j \in 1..Len(doc[i]) : doc[i][j].line = i

\* The fences up to a line, line by line.
LEMMA FencesInLaws ==
    ASSUME NEW doc
    PROVE  /\ FencesIn(doc, 0) = 0
           /\ \A n \in Nat : FencesIn(doc, n) \in Nat
           /\ \A n \in Nat : FencesIn(doc, n + 1) = FencesIn(doc, n) + (IF IsFence(doc[n + 1]) THEN 1 ELSE 0)
<1> DEFINE rows(n) == {i \in 1..n : IsFence(doc[i])}
<1>1. FencesIn(doc, 0) = 0
  <2>1. rows(0) = {}
    OBVIOUS
  <2> QED
    BY <2>1, FS_EmptySet DEF FencesIn
<1>2. ASSUME NEW n \in Nat
      PROVE  IsFiniteSet(rows(n)) /\ Cardinality(rows(n)) \in Nat
  <2>1. IsFiniteSet(1..n)
    BY FS_Interval
  <2>2. IsFiniteSet(rows(n))
    BY <2>1, FS_Subset
  <2> QED
    BY <2>2, FS_CardinalityType
<1>3. ASSUME NEW n \in Nat
      PROVE  FencesIn(doc, n + 1) = FencesIn(doc, n) + (IF IsFence(doc[n + 1]) THEN 1 ELSE 0)
  <2> DEFINE r == rows(n)
             k == n + 1
  <2>1. k \notin r /\ 1..k = (1..n) \cup {k}
    OBVIOUS
  <2>2. rows(k) = IF IsFence(doc[k]) THEN r \cup {k} ELSE r
    BY <2>1
  <2>3. IsFiniteSet(r) /\ Cardinality(r) \in Nat
    BY <1>2
  <2>4. FencesIn(doc, k) = Cardinality(rows(k)) /\ FencesIn(doc, n) = Cardinality(r)
    BY DEF FencesIn
  <2> HIDE DEF r, k, rows
  <2>5. Cardinality(r \cup {k}) = Cardinality(r) + 1
    BY <2>1, <2>3, FS_AddElement
  <2> QED
    BY <2>2, <2>3, <2>4, <2>5 DEF k
<1> QED
  BY <1>1, <1>2, <1>3 DEF FencesIn

\* The heading in force at a line, line by line.
LEMMA HeadingAtLaws ==
    ASSUME NEW doc
    PROVE  /\ HeadingAt(doc, 0) = NoHeading
           /\ \A n \in Nat : HeadingAt(doc, n + 1) =
                 IF IsHeading(doc[n + 1]) /\ FencesIn(doc, n + 1) % 2 = 0 THEN doc[n + 1]
                 ELSE HeadingAt(doc, n)
<1>1. HeadingAt(doc, 0) = NoHeading
  <2>1. HeadingsTo(doc, 0) = {}
    BY DEF HeadingsTo
  <2> QED
    BY <2>1 DEF HeadingAt
<1>2. ASSUME NEW n \in Nat
      PROVE  HeadingAt(doc, n + 1) =
                 IF IsHeading(doc[n + 1]) /\ FencesIn(doc, n + 1) % 2 = 0 THEN doc[n + 1]
                 ELSE HeadingAt(doc, n)
  <2> DEFINE k == n + 1
             H == HeadingsTo(doc, k)
             is == IsHeading(doc[k]) /\ FencesIn(doc, k) % 2 = 0
  <2>1. 1..k = (1..n) \cup {k} /\ k \in Nat /\ k \in 1..k
    OBVIOUS
  <2>2. ~is => H = HeadingsTo(doc, n)
    BY <2>1 DEF HeadingsTo
  <2>3. is => k \in H
    BY <2>1 DEF HeadingsTo
  <2>4. H \in SUBSET (1..k)
    BY DEF HeadingsTo
  <2> HIDE DEF k, H, is
  <2>5. is => Max(H) = k /\ H # {}
    <3>1. H # {} => Max(H) \in H /\ \A i \in H : i <= Max(H)
      BY <2>1, <2>4, MaxOfPlaces
    <3> SUFFICES ASSUME k \in H
                 PROVE  Max(H) = k /\ H # {}
      BY <2>3
    <3> DEFINE m == Max(H)
    <3>2. m \in 1..k /\ k <= m
      BY <2>4, <3>1
    <3> HIDE DEF m
    <3>3. m = k
      BY <2>1, <3>2
    <3> QED
      BY <3>3 DEF m
  <2>6. HeadingAt(doc, k) = IF is THEN doc[k] ELSE HeadingAt(doc, n)
    BY <2>2, <2>5 DEF HeadingAt, H
  <2> QED
    BY <2>6 DEF k, is
<1> QED
  BY <1>1, <1>2

\* The characters of the lines under a heading.
Under(doc, h) ==
    {Newline} \cup
    {c \in Own : c.line \in 1..Len(doc) /\ HeadingAt(doc, c.line) = h /\ Occurs(c, doc[c.line])}

\* A line is made of such characters.
LEMMA LineUnder ==
    ASSUME NEW doc, Lined(doc), NEW i \in 1..Len(doc), NEW h, h = HeadingAt(doc, i)
    PROVE  /\ doc[i] \in LineSet(Under(doc, h)) /\ doc[i] \in LineSet(Own) /\ doc[i] \in Text
           /\ Under(doc, h) \in SUBSET Own /\ Newline \in Under(doc, h)
<1> DEFINE x == doc[i]
           U == Under(doc, h)
<1>1. x \in LineSet(Own) /\ \A j \in 1..Len(x) : x[j].line = i
  BY ElementOfSeq DEF Lined
<1>2. x \in Seq(Own) /\ Whole(x) /\ (FenceLine(x) \/ NoTicks(x))
  BY <1>1 DEF LineSet
<1> HIDE DEF x
<1>3. Len(x) \in Nat /\ \A j \in 1..Len(x) : x[j] \in Own
  BY <1>2, LenProperties, ElementOfSeq
<1>4. \A j \in 1..Len(x) : x[j] \in U
  <2> TAKE j \in 1..Len(x)
  <2>1. x[j] \in Own /\ x[j].line = i /\ Occurs(x[j], x)
    BY <1>1, <1>3 DEF Occurs
  <2> QED
    BY <2>1 DEF Under, x
<1>5. Newline \in Own
  BY NewlineIs DEF Own
<1>6. U \in SUBSET Own /\ Newline \in U
  BY <1>5 DEF Under
<1> HIDE DEF U
<1>7. x \in Seq(U)
  BY <1>2, <1>3, <1>4, LenProperties
<1>8. x \in Text
  <2>1. Own \in SUBSET Chars
    BY DEF Own
  <2> QED
    BY <1>2, <2>1, TextOf
<1> QED
  BY <1>1, <1>2, <1>6, <1>7, <1>8 DEF LineSet, x, U

\* A section of the document: its lines are under its heading.
SectionOf(doc) == {x \in Headed : x.lines \in Seq(LineSet(Under(doc, x.heading)))}
EvenSection(doc) == {x \in SectionOf(doc) : MarksOf(x.lines) % 2 = 0}

\* The first n lines of the document are cut into F and l, which is open if a fence is.
Splits(doc, n, a, F, l) ==
    /\ F \in Seq(EvenSection(doc)) /\ l \in SectionOf(doc) /\ a.all = Append(F, l)
    /\ l.heading = HeadingAt(doc, n)
    /\ a.fenced <=> MarksOf(l.lines) % 2 = 1
    /\ a.fenced <=> FencesIn(doc, n) % 2 = 1

\* The kinds of sections are among one another.
LEMMA SectionTypes ==
    ASSUME NEW doc
    PROVE  /\ EvenSection(doc) \in SUBSET SectionOf(doc) /\ SectionOf(doc) \in SUBSET Headed
           /\ Seq(EvenSection(doc)) \in SUBSET Seq(SectionOf(doc))
           /\ Seq(EvenSection(doc)) \in SUBSET Seq(Headed) /\ Seq(SectionOf(doc)) \in SUBSET Seq(Headed)
           /\ \A x \in SectionOf(doc) : MarksOf(x.lines) \in Nat
<1> DEFINE E == EvenSection(doc)
           S == SectionOf(doc)
           R == Headed
<1>1. E \in SUBSET S /\ S \in SUBSET R
  BY DEF EvenSection, SectionOf
<1> HIDE DEF E, S, R
<1>2. Seq(E) \in SUBSET Seq(S) /\ Seq(E) \in SUBSET Seq(R) /\ Seq(S) \in SUBSET Seq(R)
  BY <1>1
<1>3. \A x \in S : MarksOf(x.lines) \in Nat
  BY <1>1, SeenLaws, MarksOfLaws DEF R
<1> QED
  BY <1>1, <1>2, <1>3 DEF E, S, R

\* The first lines of a section: a line that starts it, or one more.
LEMMA LinesGrow ==
    ASSUME NEW doc, NEW h, NEW x \in Text, x \in LineSet(Under(doc, h)),
           NEW lines \in Seq(LineSet(Under(doc, h))), lines \in Seq(Text)
    PROVE  /\ Append(lines, x) \in Seq(LineSet(Under(doc, h)))
           /\ <<x>> \in Seq(LineSet(Under(doc, h)))
           /\ MarksOf(Append(lines, x)) = MarksOf(lines) + Marks(x) /\ MarksOf(lines) \in Nat
           /\ MarksOf(<<x>>) = Marks(x) /\ Marks(x) \in Nat
           /\ Bodies(Append(lines, x)) = Bodies(lines) \o Body(x) /\ Bodies(<<x>>) = Body(x)
<1> DEFINE L == LineSet(Under(doc, h))
           e == <<>>
<1>1. Append(lines, x) \in Seq(L) /\ <<x>> \in Seq(L)
  <2>1. lines \in Seq(L) /\ x \in L
    OBVIOUS
  <2> HIDE DEF L
  <2> QED
    BY <2>1, AppendIs
<1>2. MarksOf(Append(lines, x)) = MarksOf(lines) + Marks(x) /\ MarksOf(lines) \in Nat /\ Marks(x) \in Nat
      /\ Bodies(Append(lines, x)) = Bodies(lines) \o Body(x) /\ Bodies(<<x>>) = Body(x)
  BY MarksOfLaws, MarksLaws, BodiesLaws
<1>3. MarksOf(<<x>>) = Marks(x)
  <2> DEFINE w == Append(e, x)
             m == Marks(x)
  <2>1. <<x>> = w /\ e \in Seq(Text) /\ MarksOf(e) = 0
    BY EmptySeq, MarksOfLaws
  <2>2. MarksOf(w) = MarksOf(e) + m /\ m \in Nat
    <3> HIDE DEF e
    <3> QED
      BY <1>2, <2>1, MarksOfLaws
  <2> HIDE DEF e, w, m
  <2>3. MarksOf(w) = m
    BY <2>1, <2>2
  <2> QED
    BY <2>1, <2>3, Zenon DEF m
<1> QED
  BY <1>1, <1>2, <1>3

\* One line more of the document.
LEMMA SplitsStep ==
    ASSUME NEW doc, Lined(doc), NEW n \in Nat, n + 1 \in 1..Len(doc), NEW a \in SectionStates,
           NEW F, NEW l, Splits(doc, n, a, F, l)
    PROVE  LET b == SectionStep(a, doc[n + 1])
           IN  /\ \E G, m : Splits(doc, n + 1, b, G, m)
               /\ SeenIn(b.all) = SeenIn(a.all) \o Body(doc[n + 1])
<1> DEFINE k == n + 1
           x == doc[k]
           b == SectionStep(a, x)
           h == HeadingAt(doc, k)
           starts == ~IsFence(x) /\ ~a.fenced /\ IsHeading(x)
           new == [heading |-> x, lines |-> <<x>>]
           more == [heading |-> l.heading, lines |-> Append(l.lines, x)]
           f == FencesIn(doc, n)
           g == FencesIn(doc, k)
<1>1. x \in LineSet(Under(doc, h)) /\ x \in LineSet(Own) /\ x \in Text
  BY LineUnder
<1>2. /\ F \in Seq(EvenSection(doc)) /\ l \in SectionOf(doc) /\ a.all = Append(F, l)
      /\ l.heading = HeadingAt(doc, n)
      /\ a.fenced <=> MarksOf(l.lines) % 2 = 1
      /\ a.fenced <=> f % 2 = 1
  BY DEF Splits
<1>3. F \in Seq(Headed) /\ l \in Headed /\ l.lines \in Seq(Text) /\ a.fenced \in BOOLEAN
  BY <1>2, SectionTypes, SeenLaws DEF SectionStates
<1>4. /\ b \in SectionStates /\ new \in Headed /\ more \in Headed
      /\ starts => b.all = Append(a.all, new) /\ b.fenced = FALSE
      /\ ~starts => b.all = Append(F, more) /\ b.fenced \in BOOLEAN /\ (b.fenced <=> (a.fenced # IsFence(x)))
  <2>1. a \in SectionStates /\ x \in Text /\ F \in Seq(Headed) /\ l \in Headed /\ a.all = Append(F, l)
    BY <1>1, <1>2, <1>3
  <2> HIDE DEF x
  <2> QED
    BY <2>1, SectionStepIs
<1>5. Marks(x) = (IF IsFence(x) THEN 1 ELSE 0) /\ IsFence(x) \in BOOLEAN /\ Body(x) \in Seq(Chars)
      /\ (IsHeading(x) => ~IsFence(x))
  <2>1. IsFence(x) => FenceLine(x) /\ Marks(x) = 1
    BY <1>1, LineSetIs
  <2>2. ~IsFence(x) => Marks(x) = 0
    BY <1>1, LineSetIs
  <2>3. FenceLine(x) => x[1].kind = "tick"
    <3>1. 1 \in 1..3
      OBVIOUS
    <3> QED
      BY <3>1 DEF FenceLine
  <2>4. IsHeading(x) => ~IsFence(x)
    BY <2>1, <2>3 DEF IsHeading
  <2> QED
    BY <1>1, <2>1, <2>2, <2>4, BodyLaws DEF Text, IsFence
<1>6. f \in Nat /\ g = f + (IF IsFence(x) THEN 1 ELSE 0)
  BY FencesInLaws
<1>7. h = IF IsHeading(x) /\ g % 2 = 0 THEN x ELSE HeadingAt(doc, n)
  BY HeadingAtLaws
<1> HIDE DEF k, x, b, h, f, g
<1>8. CASE starts
  <2>1. g = f /\ ~(f % 2 = 1) /\ b.fenced = FALSE /\ b.all = Append(a.all, new)
    BY <1>2, <1>4, <1>6, <1>8
  <2>2. f % 2 = 0 /\ h = x /\ l \in EvenSection(doc)
    <3>1. f % 2 = 0
      BY <1>6, <2>1
    <3>2. MarksOf(l.lines) % 2 = 0
      <4> DEFINE i == MarksOf(l.lines)
      <4>1. i \in Nat /\ ~(i % 2 = 1)
        BY <1>2, <1>8, SectionTypes
      <4> HIDE DEF i
      <4>2. i % 2 = 0
        BY <4>1
      <4> QED
        BY <4>2 DEF i
    <3> QED
      BY <1>2, <1>7, <1>8, <2>1, <3>1, <3>2 DEF EvenSection
  <2>3. a.all \in Seq(EvenSection(doc)) /\ a.all \in Seq(Headed)
    <3> DEFINE E == EvenSection(doc)
    <3>1. F \in Seq(E) /\ l \in E
      BY <1>2, <2>2
    <3> HIDE DEF E
    <3>2. Append(F, l) \in Seq(E)
      BY <3>1, AppendIs
    <3> QED
      BY <1>2, <3>2, SectionTypes DEF E
  <2>4. <<x>> \in Seq(LineSet(Under(doc, x))) /\ MarksOf(<<x>>) = 0 /\ Bodies(<<x>>) = Body(x)
    <3> DEFINE e == <<>>
               L == LineSet(Under(doc, x))
    <3>1. e \in Seq(L) /\ e \in Seq(Text)
      BY EmptySeq
    <3>2. x \in L
      BY <1>1, <2>2
    <3> HIDE DEF e
    <3> QED
      BY <1>1, <1>5, <1>8, <3>1, <3>2, LinesGrow
  <2>5. new.heading = x /\ new.lines = <<x>>
    OBVIOUS
  <2> HIDE DEF new
  <2>6. new \in SectionOf(doc)
    BY <1>4, <2>4, <2>5 DEF SectionOf
  <2>7. Splits(doc, k, b, a.all, new)
    <3>1. ~(MarksOf(new.lines) % 2 = 1) /\ ~(g % 2 = 1)
      BY <2>1, <2>2, <2>4, <2>5
    <3> QED
      BY <2>1, <2>2, <2>3, <2>5, <2>6, <3>1 DEF Splits, h, g
  <2>8. SeenIn(b.all) = SeenIn(a.all) \o Body(x)
    BY <1>4, <2>1, <2>3, <2>4, <2>5, SeenLaws
  <2> QED
    BY <2>7, <2>8 DEF k, x, b
<1>9. CASE ~starts
  <2>1. b.all = Append(F, more) /\ b.fenced \in BOOLEAN /\ (b.fenced <=> (a.fenced # IsFence(x)))
    BY <1>4, <1>9
  <2>2. h = l.heading
    <3>1. IsHeading(x) => a.fenced /\ g % 2 = 1
      BY <1>2, <1>5, <1>6, <1>9
    <3> QED
      BY <1>2, <1>7, <3>1
  <2>3. /\ Append(l.lines, x) \in Seq(LineSet(Under(doc, l.heading)))
        /\ MarksOf(Append(l.lines, x)) = MarksOf(l.lines) + Marks(x) /\ MarksOf(l.lines) \in Nat
        /\ Bodies(Append(l.lines, x)) = Bodies(l.lines) \o Body(x)
    <3> DEFINE u == l.lines
    <3>1. u \in Seq(LineSet(Under(doc, h))) /\ u \in Seq(Text)
      BY <1>2, <1>3, <2>2 DEF SectionOf
    <3> HIDE DEF u
    <3>2. /\ Append(u, x) \in Seq(LineSet(Under(doc, h)))
          /\ MarksOf(Append(u, x)) = MarksOf(u) + Marks(x) /\ MarksOf(u) \in Nat
          /\ Bodies(Append(u, x)) = Bodies(u) \o Body(x)
      BY <1>1, <3>1, LinesGrow, ZenonT(40)
    <3> QED
      BY <2>2, <3>2, Zenon DEF u
  <2>4. more.heading = l.heading /\ more.lines = Append(l.lines, x)
    OBVIOUS
  <2> HIDE DEF more
  <2>5. more \in SectionOf(doc)
    BY <1>4, <2>3, <2>4 DEF SectionOf
  <2>6. (b.fenced <=> MarksOf(more.lines) % 2 = 1) /\ (b.fenced <=> g % 2 = 1)
    <3> DEFINE i == MarksOf(l.lines)
               j == MarksOf(more.lines)
               d == IF IsFence(x) THEN 1 ELSE 0
    <3>1. i \in Nat /\ j = i + d /\ (a.fenced <=> i % 2 = 1) /\ (a.fenced <=> f % 2 = 1) /\ g = f + d
      BY <1>2, <1>5, <1>6, <2>3, <2>4
    <3> HIDE DEF i, j, d
    <3>2. CASE IsFence(x)
      <4>1. d = 1 /\ (b.fenced <=> ~a.fenced)
        BY <1>3, <1>5, <2>1, <3>2 DEF d
      <4>2. (j % 2 = 1 <=> i % 2 = 0) /\ (g % 2 = 1 <=> f % 2 = 0)
        BY <1>6, <3>1, <4>1
      <4>3. (i % 2 = 0 \/ i % 2 = 1) /\ (f % 2 = 0 \/ f % 2 = 1)
        BY <1>6, <3>1
      <4> QED
        BY <3>1, <4>1, <4>2, <4>3 DEF j
    <3>3. CASE ~IsFence(x)
      <4>1. d = 0 /\ (b.fenced <=> a.fenced)
        BY <1>3, <1>5, <2>1, <3>3 DEF d
      <4>2. j = i /\ g = f
        BY <1>6, <3>1, <4>1
      <4> QED
        BY <3>1, <4>1, <4>2 DEF j
    <3> QED
      BY <3>2, <3>3
  <2>7. Splits(doc, k, b, F, more)
    BY <1>2, <2>1, <2>2, <2>4, <2>5, <2>6 DEF Splits, h, g
  <2>8. SeenIn(b.all) = SeenIn(a.all) \o Body(x)
    <3>1. SeenIn(b.all) = SeenIn(F) \o (Bodies(l.lines) \o Body(x))
      BY <1>3, <1>4, <2>1, <2>3, <2>4, SeenLaws
    <3>2. SeenIn(a.all) = SeenIn(F) \o Bodies(l.lines)
      BY <1>2, <1>3, SeenLaws
    <3>3. SeenIn(F) \in Seq(Chars) /\ Bodies(l.lines) \in Seq(Chars)
      BY <1>3, SeenLaws, BodiesLaws DEF Text
    <3>4. (SeenIn(F) \o Bodies(l.lines)) \o Body(x) = SeenIn(F) \o (Bodies(l.lines) \o Body(x))
      BY <1>5, <3>3, ConcatAssociative, SMTT(30)
    <3> QED
      BY <3>1, <3>2, <3>4
  <2> QED
    BY <2>7, <2>8 DEF k, x, b
<1> QED
  BY <1>8, <1>9

\* s is how the document begins, and how far the fold over it has come.
Begins(doc, s) == Len(s) <= Len(doc) /\ \A i \in 1..Len(s) : s[i] = doc[i]
CutUp(doc, s) ==
    /\ \E F, l : Splits(doc, Len(s), SectionFold(s), F, l)
    /\ SeenIn(SectionFold(s).all) = Bodies(s)

\* Nothing is cut into one section without lines.
LEMMA CutUpStarts ==
    ASSUME NEW doc
    PROVE  CutUp(doc, <<>>)
<1> DEFINE e == <<>>
           l == [heading |-> e, lines |-> e]
           a == NoSections
           no == FALSE
<1>1. a.all = Append(e, l) /\ a.fenced = no
  <2>1. a.all = <<l>> /\ <<l>> = Append(e, l)
    BY DEF NoSections, NoHeading
  <2> QED
    BY <2>1 DEF NoSections
<1>2. l.heading = e /\ l.lines = e
  OBVIOUS
<1>3. e \in Text /\ e \in Seq(Text) /\ e \in Seq(LineSet(Under(doc, e))) /\ e \in Seq(EvenSection(doc))
      /\ e \in Seq(Headed)
  BY EmptySeq DEF Text
<1>4. Len(e) = 0 /\ SectionFold(e) = a /\ SeenIn(e) = e /\ Bodies(e) = e /\ MarksOf(e) = 0
      /\ HeadingAt(doc, 0) = e /\ FencesIn(doc, 0) = 0
  BY SectionFoldLaws, SeenLaws, BodiesLaws, MarksOfLaws, HeadingAtLaws, FencesInLaws DEF NoHeading
<1>5. l \in Headed
  <2> DEFINE T == Text
             L == Seq(T)
  <2>1. e \in T /\ e \in L
    BY <1>3
  <2> HIDE DEF e, T, L
  <2>2. [heading |-> e, lines |-> e] \in [heading : T, lines : L]
    BY <2>1
  <2> QED
    BY <2>2 DEF Headed, T, L
<1>6. e \o e = e
  BY EmptySeq, ConcatEmptySeq
<1> HIDE DEF a, l
<1>7. l \in SectionOf(doc)
  BY <1>2, <1>3, <1>5 DEF SectionOf
<1> HIDE DEF e
<1>8. Splits(doc, 0, a, e, l)
  <2>1. ~(0 % 2 = 1) /\ ~a.fenced
    BY <1>1
  <2> QED
    BY <1>1, <1>2, <1>3, <1>4, <1>7, <2>1 DEF Splits
<1>9. SeenIn(a.all) = e
  BY <1>1, <1>2, <1>3, <1>4, <1>5, <1>6, SeenLaws
<1> QED
  BY <1>4, <1>8, <1>9 DEF CutUp, e

\* And so is one line more.
LEMMA CutUpGrows ==
    ASSUME NEW doc, Lined(doc), NEW s \in Seq(Text), NEW x \in Text, Begins(doc, Append(s, x)), CutUp(doc, s)
    PROVE  CutUp(doc, Append(s, x))
<1> DEFINE n == Len(s)
           k == n + 1
           t == Append(s, x)
           a == SectionFold(s)
           b == SectionStep(a, x)
<1>1. n \in Nat /\ Len(t) = k /\ t[k] = x /\ SectionFold(t) = b /\ a \in SectionStates
      /\ Bodies(t) = Bodies(s) \o Body(x)
  BY AppendIs, SectionFoldLaws, BodiesLaws
<1>2. Len(t) <= Len(doc) /\ \A i \in 1..Len(t) : t[i] = doc[i]
  BY DEF Begins
<1>3. PICK F, l : Splits(doc, n, a, F, l)
  BY DEF CutUp
<1>4. SeenIn(a.all) = Bodies(s)
  BY DEF CutUp
<1>5. doc \in Seq(LineSet(Own)) /\ Len(doc) \in Nat
  BY DEF Lined
<1> HIDE DEF t, a, n
<1>6. k \in 1..Len(doc) /\ doc[k] = x
  BY <1>1, <1>2, <1>5
<1>7. (\E G, m : Splits(doc, k, b, G, m)) /\ SeenIn(b.all) = SeenIn(a.all) \o Body(x)
  BY <1>1, <1>3, <1>6, SplitsStep
<1> HIDE DEF b, k
<1>8. CutUp(doc, t)
  BY <1>1, <1>4, <1>7 DEF CutUp
<1> QED
  BY <1>8 DEF t

\* And so the whole document.
LEMMA DocumentIsCut ==
    ASSUME NEW doc, Lined(doc)
    PROVE  CutUp(doc, doc) /\ doc \in Seq(Text)
<1> DEFINE Y == LineSet(Own)
           G == {s \in Seq(Y) : Begins(doc, s) => CutUp(doc, s)}
<1>0. Y \in SUBSET Text
  BY LineSetIs DEF Own
<1> HIDE DEF Y
<1>1. <<>> \in G
  BY CutUpStarts, EmptySeq
<1>2. ASSUME NEW s \in G, NEW x \in Y
      PROVE  Append(s, x) \in G
  <2> DEFINE t == Append(s, x)
  <2>1. s \in Seq(Y) /\ s \in Seq(Text) /\ x \in Text /\ t \in Seq(Y)
        /\ Len(t) = Len(s) + 1 /\ Len(s) \in Nat /\ \A i \in 1..Len(s) : t[i] = s[i]
    BY <1>0, AppendIs
  <2>2. ASSUME Begins(doc, t)
        PROVE  Begins(doc, s)
    <3>1. Len(t) <= Len(doc) /\ \A i \in 1..Len(t) : t[i] = doc[i]
      BY <2>2 DEF Begins
    <3>2. doc \in Seq(Y) /\ Len(doc) \in Nat
      BY DEF Lined, Y
    <3> HIDE DEF t
    <3> DEFINE n == Len(s)
               m == Len(t)
               d == Len(doc)
    <3>3. n \in Nat /\ m = n + 1 /\ m <= d /\ d \in Nat
      BY <2>1, <3>1, <3>2
    <3>4. \A i \in 1..n : i \in 1..m /\ t[i] = s[i]
      BY <2>1, <3>3
    <3> HIDE DEF n, m, d
    <3>5. n <= d
      BY <3>3
    <3>6. \A i \in 1..n : s[i] = doc[i]
      BY <3>1, <3>4 DEF m
    <3> QED
      BY <3>5, <3>6 DEF Begins, n, d
  <2>3. ASSUME Begins(doc, t)
        PROVE  CutUp(doc, t)
    <3>1. CutUp(doc, s)
      BY <2>2, <2>3
    <3> QED
      BY <2>1, <2>3, <3>1, CutUpGrows
  <2> HIDE DEF t
  <2>4. t \in G
    BY <2>1, <2>3
  <2> QED
    BY <2>4 DEF t
<1>3. G \in SUBSET Seq(Y)
  OBVIOUS
<1> HIDE DEF G
<1>4. G = Seq(Y)
  BY <1>1, <1>2, <1>3, SeqSetInduction
<1>5. doc \in Seq(Y)
  BY DEF Lined, Y
<1>6. Begins(doc, doc)
  BY <1>5 DEF Begins
<1>7. doc \in Seq(Text)
  BY <1>0, <1>5
<1> QED
  BY <1>4, <1>5, <1>6, <1>7 DEF G

\* splitSections (chunker.ts:80) parts a document at the headings outside of its
\* fences: every section is made of the lines under its heading, the sections show
\* together, in order, what the document shows, and each closes the fences it opens
\* if the document does.
THEOREM SectionsOfDocument ==
    ASSUME NEW doc, Lined(doc)
    PROVE  LET out == SplitSections(doc)
           IN  /\ out \in Seq(SectionOf(doc)) /\ SeenIn(out) = Bodies(doc)
               /\ FencesIn(doc, Len(doc)) % 2 = 0 => out \in Seq(EvenSection(doc))
<1> DEFINE a == SectionFold(doc)
           n == Len(doc)
           f == FencesIn(doc, n)
           all == a.all
           out == SplitSections(doc)
           S == SectionOf(doc)
           E == EvenSection(doc)
<1>1. PICK F, l : Splits(doc, n, a, F, l)
  BY DocumentIsCut DEF CutUp
<1>2. SeenIn(all) = Bodies(doc) /\ out = KeptSections(all)
  BY DocumentIsCut, SplitSectionsIs DEF CutUp
<1>3. F \in Seq(E) /\ l \in S /\ all = Append(F, l) /\ (a.fenced <=> MarksOf(l.lines) % 2 = 1)
      /\ (a.fenced <=> f % 2 = 1) /\ MarksOf(l.lines) \in Nat
  BY <1>1, SectionTypes DEF Splits
<1>4. E \in SUBSET Headed /\ S \in SUBSET Headed /\ F \in Seq(S)
  BY <1>3, SectionTypes
<1>5. f % 2 = 0 => l \in E
  <2> DEFINE m == MarksOf(l.lines)
  <2>1. m \in Nat /\ (m % 2 = 1 <=> f % 2 = 1)
    BY <1>3
  <2> HIDE DEF m, f
  <2>2. f % 2 = 0 => m % 2 = 0
    BY <2>1
  <2> QED
    BY <1>3, <2>2 DEF m, EvenSection
<1> HIDE DEF a, out, f, S, E
<1>6. all \in Seq(S)
  BY <1>3, <1>4, AppendIs
<1>7. f % 2 = 0 => all \in Seq(E)
  BY <1>3, <1>5, AppendIs
<1> HIDE DEF all
<1>8. out \in Seq(S) /\ SeenIn(out) = Bodies(doc)
  BY <1>2, <1>4, <1>6, KeptSectionsLaws
<1>9. f % 2 = 0 => out \in Seq(E)
  BY <1>2, <1>4, <1>7, KeptSectionsLaws
<1> QED
  BY <1>8, <1>9 DEF out, f, S, E

-----------------------------------------------------------------------------
(***************************************************************************)
(* The documents of the model.                                             *)
(***************************************************************************)
\* The kinds of the characters of a line: whole pairs, and a fence or no backticks.
GoodKinds(K) ==
    /\ K \in Seq(Kinds)
    /\ \A j \in 1..Len(K) : /\ K[j] = "high" => j < Len(K) /\ K[j + 1] = "low"
                            /\ K[j] = "low" => j > 1 /\ K[j - 1] = "high"
    /\ \/ Len(K) = 3 /\ \A j \in 1..3 : K[j] = "tick"
       \/ \A j \in 1..Len(K) : K[j] # "tick"

\* A line without backticks and without pairs.
LEMMA SimpleKinds ==
    ASSUME NEW K \in Seq({"letter", "dot", "space", "hash"})
    PROVE  GoodKinds(K)
<1> DEFINE P == {"letter", "dot", "space", "hash"}
<1>1. P \in SUBSET Kinds /\ \A k \in P : k # "high" /\ k # "low" /\ k # "tick"
  BY DEF Kinds
<1>2. K \in Seq(P)
  OBVIOUS
<1> HIDE DEF P
<1>3. K \in Seq(Kinds) /\ \A j \in 1..Len(K) : K[j] \in P
  BY <1>1, <1>2, ElementOfSeq
<1> QED
  BY <1>1, <1>3 DEF GoodKinds

\* A letter and seven pairs.
LEMMA EmojiKinds == GoodKinds(Letters(1) \o Pairs(7))
<1> DEFINE a == Letters(1)
           b == Pairs(7)
           K == a \o b
<1>1. a \in Seq(Kinds) /\ Len(a) = 1 /\ a[1] = "letter"
  BY DEF Letters, Kinds
<1>2. b \in Seq(Kinds) /\ Len(b) = 14
  BY DEF Pairs, Kinds
<1>3. \A j \in 1..14 : b[j] = IF j % 2 = 1 THEN "high" ELSE "low"
  BY DEF Pairs
<1> HIDE DEF a, b
<1>4. K \in Seq(Kinds) /\ Len(K) = 15 /\ K[1] = "letter" /\ \A j \in 2..15 : K[j] = b[j - 1]
  <2>1. /\ K \in Seq(Kinds) /\ Len(K) = Len(a) + Len(b)
        /\ \A i \in 1..(Len(a) + Len(b)) : K[i] = IF i <= Len(a) THEN a[i] ELSE b[i - Len(a)]
    BY <1>1, <1>2, ConcatProperties
  <2> HIDE DEF K
  <2>2. Len(K) = 15 /\ \A i \in 1..15 : K[i] = IF i <= 1 THEN a[i] ELSE b[i - 1]
    BY <1>1, <1>2, <2>1
  <2>3. K[1] = a[1]
    BY <2>2
  <2>4. \A j \in 2..15 : j \in 1..15 /\ ~(j <= 1)
    OBVIOUS
  <2>5. \A j \in 2..15 : K[j] = b[j - 1]
    BY <2>2, <2>4
  <2> QED
    BY <1>1, <2>1, <2>2, <2>3, <2>5
<1> HIDE DEF K
<1>5. \A j \in 2..15 : K[j] = IF (j - 1) % 2 = 1 THEN "high" ELSE "low"
  <2> TAKE j \in 2..15
  <2>1. j - 1 \in 1..14 /\ K[j] = b[j - 1]
    BY <1>4
  <2> DEFINE k == j - 1
  <2> HIDE DEF k
  <2>2. K[j] = IF k % 2 = 1 THEN "high" ELSE "low"
    BY <1>3, <2>1 DEF k
  <2> QED
    BY <2>2 DEF k
<1>6. \A j \in 1..15 : /\ K[j] = "high" => j < 15 /\ K[j + 1] = "low"
                       /\ K[j] = "low" => j > 1 /\ K[j - 1] = "high"
                       /\ K[j] # "tick"
  <2> TAKE j \in 1..15
  <2>1. j = 1 \/ j \in 2..15
    OBVIOUS
  <2>2. j \in 2..15 => (K[j] = "high" <=> (j - 1) % 2 = 1) /\ (K[j] = "low" <=> (j - 1) % 2 # 1) /\ K[j] # "tick"
    BY <1>5
  <2>3. j \in 2..15 /\ (j - 1) % 2 = 1 => j < 15 /\ (j + 1) \in 2..15 /\ ((j + 1) - 1) % 2 # 1
    OBVIOUS
  <2>4. j \in 2..15 /\ (j - 1) % 2 # 1 => j - 1 \in 2..15 /\ ((j - 1) - 1) % 2 = 1
    OBVIOUS
  <2> QED
    BY <1>4, <1>5, <2>1, <2>2, <2>3, <2>4, SMTT(30)
<1>7. GoodKinds(K)
  BY <1>4, <1>6 DEF GoodKinds
<1> QED
  BY <1>7 DEF K, a, b

\* The lines of every shape but the one whose opening leaves no room for a body.
LEMMA KindsAreGood == \A shape \in DOMAIN KindsOf : shape # "oneliner" => GoodKinds(KindsOf[shape])
<1> DEFINE P == {"letter", "dot", "space", "hash"}
<1>1. \A n \in Nat : Letters(n) \in Seq(P)
  BY DEF Letters
<1>2. KindsOf.blank \in Seq(P) /\ KindsOf.heading \in Seq(P)
  BY DEF KindsOf
<1>3. KindsOf.word \in Seq(P)
  BY <1>1 DEF KindsOf
<1>4. KindsOf.prose \in Seq(P)
  <2> DEFINE d == <<"dot", "space">>
             u == Letters(5)
             v == Letters(6)
             w == Letters(3)
  <2>1. d \in Seq(P) /\ u \in Seq(P) /\ v \in Seq(P) /\ w \in Seq(P)
    BY <1>1
  <2>2. KindsOf.prose = u \o d \o v \o d \o w
    BY DEF KindsOf
  <2> HIDE DEF d, u, v, w, P
  <2>3. u \o d \in Seq(P) /\ u \o d \o v \in Seq(P)
    BY <2>1, ConcatProperties
  <2>4. u \o d \o v \o d \in Seq(P)
    BY <2>1, <2>3, ConcatProperties
  <2>5. u \o d \o v \o d \o w \in Seq(P)
    BY <2>1, <2>4, ConcatProperties
  <2> QED
    BY <2>2, <2>5
<1>5. GoodKinds(KindsOf.fence)
  <2> DEFINE K == TickKinds
  <2>1. K \in Seq(Kinds) /\ Len(K) = 3 /\ K[1] = "tick" /\ K[2] = "tick" /\ K[3] = "tick"
    BY DEF TickKinds, Kinds
  <2>2. KindsOf.fence = K
    BY DEF KindsOf
  <2> HIDE DEF K
  <2>3. \A j \in 1..3 : K[j] = "tick"
    BY <2>1
  <2>4. GoodKinds(K)
    BY <2>1, <2>3 DEF GoodKinds
  <2> QED
    BY <2>2, <2>4
<1>6. GoodKinds(KindsOf.emoji)
  BY EmojiKinds DEF KindsOf
<1>7. \A shape \in DOMAIN KindsOf :
         shape \in {"blank", "word", "heading", "fence", "prose", "emoji", "oneliner"}
  BY DEF KindsOf
<1>8. \A K \in Seq(P) : GoodKinds(K)
  BY SimpleKinds
<1> HIDE DEF P
<1> QED
  BY <1>2, <1>3, <1>4, <1>5, <1>6, <1>7, <1>8

\* A line of such kinds.
LEMMA LineOfKinds ==
    ASSUME NEW K, GoodKinds(K), NEW i \in Nat, i >= 1, NEW x, x = [j \in DOMAIN K |-> Char(i, j, K[j])]
    PROVE  x \in LineSet(Own) /\ \A j \in 1..Len(x) : x[j].line = i
<1> DEFINE n == Len(K)
<1>1. n \in Nat /\ DOMAIN K = 1..n /\ \A j \in 1..n : K[j] \in Kinds
  BY ElementOfSeq DEF GoodKinds
<1>2. \A j \in 1..n : x[j] \in Own /\ x[j].line = i /\ x[j].kind = K[j] /\ x[j].column = j
  <2> TAKE j \in 1..n
  <2> DEFINE k == K[j]
             c == [line |-> i, column |-> j, kind |-> k]
  <2>1. x[j] = c /\ k \in Kinds /\ j \in Nat
    BY <1>1 DEF Char
  <2> HIDE DEF k
  <2>2. c \in [line : Nat, column : Nat, kind : Kinds] /\ c.line = i /\ c.kind = k /\ c.column = j
    BY <2>1
  <2> HIDE DEF c
  <2>3. c \in Own
    BY <2>2 DEF Own, Chars
  <2> QED
    BY <2>1, <2>2, <2>3 DEF k
<1>3. x \in Seq(Own) /\ Len(x) = n
  BY <1>1, <1>2
<1> HIDE DEF n
<1>4. Whole(x)
  <2> SUFFICES ASSUME NEW j \in 1..n
               PROVE  /\ x[j].kind = "high" => j < n /\ x[j + 1].kind = "low"
                      /\ x[j].kind = "low" => j > 1 /\ x[j - 1].kind = "high"
    BY <1>3 DEF Whole
  <2>1. /\ K[j] = "high" => j < n /\ K[j + 1] = "low"
        /\ K[j] = "low" => j > 1 /\ K[j - 1] = "high"
    BY DEF GoodKinds, n
  <2>2. (j < n => j + 1 \in 1..n) /\ (j > 1 => j - 1 \in 1..n)
    BY <1>1
  <2> QED
    BY <1>2, <2>1, <2>2
<1>5. FenceLine(x) \/ NoTicks(x)
  <2>1. CASE n = 3 /\ \A j \in 1..3 : K[j] = "tick"
    BY <1>2, <1>3, <2>1 DEF FenceLine
  <2>2. CASE \A j \in 1..n : K[j] # "tick"
    BY <1>2, <1>3, <2>2 DEF NoTicks
  <2> QED
    BY <2>1, <2>2 DEF GoodKinds, n
<1> QED
  BY <1>2, <1>3, <1>4, <1>5 DEF LineSet

\* The lines of a document of the shapes that have room for a body.
LEMMA DocumentsAreLined ==
    ASSUME "oneliner" \notin Shapes, NEW doc \in Documents
    PROVE  Lined(doc)
<1> DEFINE kinds(shapes, i) == KindsOf[shapes[i]]
<1>1. PICK shapes \in BoundedSeq(Shapes, MaxLines) :
         doc = [i \in DOMAIN shapes |-> [j \in DOMAIN KindsOf[shapes[i]] |-> Char(i, j, KindsOf[shapes[i]][j])]]
  BY DEF Documents
<1>2. PICK m \in 0..MaxLines : shapes \in [1..m -> Shapes]
  BY <1>1 DEF BoundedSeq, SeqOf
<1>3. m \in Nat /\ DOMAIN shapes = 1..m
  BY <1>2, ChunkerAssumption
<1>4. \A i \in 1..m : GoodKinds(KindsOf[shapes[i]])
  <2> TAKE i \in 1..m
  <2>1. shapes[i] \in Shapes /\ shapes[i] # "oneliner" /\ shapes[i] \in DOMAIN KindsOf
    BY <1>2, ChunkerAssumption
  <2> QED
    BY <2>1, KindsAreGood
<1>5. \A i \in 1..m : doc[i] \in LineSet(Own) /\ \A j \in 1..Len(doc[i]) : doc[i][j].line = i
  <2> TAKE i \in 1..m
  <2> DEFINE K == KindsOf[shapes[i]]
             x == doc[i]
  <2>1. x = [j \in DOMAIN K |-> Char(i, j, K[j])] /\ GoodKinds(K) /\ i \in Nat /\ i >= 1
    BY <1>1, <1>3, <1>4
  <2> HIDE DEF K, x
  <2>2. x \in LineSet(Own) /\ \A j \in 1..Len(x) : x[j].line = i
    BY <2>1, LineOfKinds
  <2> QED
    BY <2>2 DEF x
<1>6. DOMAIN doc = 1..m
  BY <1>1, <1>3
<1>7. doc \in Seq(LineSet(Own)) /\ Len(doc) = m
  <2> DEFINE L == LineSet(Own)
  <2>1. \A i \in 1..m : doc[i] \in L
    BY <1>5
  <2>2. doc = [i \in 1..m |-> doc[i]]
    BY <1>1, <1>3
  <2> HIDE DEF L
  <2>3. doc \in [1..m -> L]
    BY <2>1, <2>2
  <2>4. doc \in Seq(L) /\ Len(doc) = m
    BY <1>3, <2>3
  <2> QED
    BY <2>4 DEF L
<1> QED
  BY <1>5, <1>7 DEF Lined

-----------------------------------------------------------------------------
(***************************************************************************)
(* The chunks under a heading, and the inductive invariant.                *)
(***************************************************************************)
\* A chunk, and a chunk of the lines under its heading.
Chunk == [content : Text, heading : Text]
ContentOf(x) == x.content
TheirContents == [x \in Chunk |-> ContentOf(x)]
ChunkUnder(doc) == {x \in Chunk : x.content \in Piece(Marked(Under(doc, x.heading)))}
EvenChunk(doc) == {x \in ChunkUnder(doc) : Even(x.content)}

\* The newlines of joined lines are among them.
LEMMA UnderIs == \A doc, h : Under(doc, h) \in SUBSET Own /\ Newline \in Under(doc, h)
<1>1. Newline \in Own
  BY NewlineIs DEF Own
<1> QED
  BY <1>1 DEF Under

\* The contents of several chunks in turn.
LEMMA ContentsAre ==
    /\ Contents(<<>>) = <<>>
    /\ \A c \in Seq(Chunk) : Contents(c) \in Seq(Text) /\ Contents(c) = Mapped(TheirContents, c)
    /\ \A c, d \in Seq(Chunk) : Contents(c \o d) = Contents(c) \o Contents(d)
<1> DEFINE R == Chunk
           W == Text
           g == TheirContents
           m(c) == Mapped(g, c)
<1>1. \A x \in R : x.content \in W /\ g[x] = x.content
  BY DEF TheirContents, ContentOf, Chunk
<1>2. g \in [R -> W]
  BY <1>1 DEF TheirContents, ContentOf
<1> HIDE DEF g
<1>3. ASSUME NEW c \in Seq(R)
      PROVE  Contents(c) = m(c)
  <2>1. DOMAIN c = 1..Len(c) /\ \A i \in 1..Len(c) : c[i] \in R
    BY LenProperties, ElementOfSeq
  <2>2. \A i \in DOMAIN c : g[c[i]] = c[i].content
    BY <1>1, <2>1
  <2> QED
    BY <2>2 DEF Contents, Mapped
<1> HIDE DEF R, W
<1>4. m(<<>>) = <<>> /\ \A c \in Seq(R) : m(c) \in Seq(W)
  BY <1>2, MappedLaws
<1>5. \A c, d \in Seq(R) : m(c \o d) = m(c) \o m(d)
  <2>1. Maps(g, R, W)
    BY <1>2 DEF Maps
  <2>2. MapsParts(g, R, W)
    BY <2>1, MappedConcat
  <2> QED
    BY <2>2 DEF MapsParts
<1>6. <<>> \in Seq(R) /\ \A c, d \in Seq(R) : c \o d \in Seq(R)
  BY EmptySeq, ConcatProperties
<1> HIDE DEF m
<1> QED
  BY <1>3, <1>4, <1>5, <1>6, ZenonT(40) DEF m, R, W, g

\* The kinds of chunks are among one another.
LEMMA ChunkTypes ==
    ASSUME NEW doc
    PROVE  /\ EvenChunk(doc) \in SUBSET ChunkUnder(doc) /\ ChunkUnder(doc) \in SUBSET Chunk
           /\ Seq(EvenChunk(doc)) \in SUBSET Seq(ChunkUnder(doc))
           /\ Seq(EvenChunk(doc)) \in SUBSET Seq(Chunk) /\ Seq(ChunkUnder(doc)) \in SUBSET Seq(Chunk)
<1> DEFINE E == EvenChunk(doc)
           S == ChunkUnder(doc)
           R == Chunk
<1>1. E \in SUBSET S /\ S \in SUBSET R
  BY DEF EvenChunk, ChunkUnder
<1> HIDE DEF E, S, R
<1>2. Seq(E) \in SUBSET Seq(S) /\ Seq(E) \in SUBSET Seq(R) /\ Seq(S) \in SUBSET Seq(R)
  BY <1>1
<1> QED
  BY <1>1, <1>2 DEF E, S, R

\* The chunks of one section.
LEMMA SectionChunks ==
    ASSUME NEW doc, NEW x \in SectionOf(doc)
    PROVE  LET c == ChunksOf(x)
           IN  /\ c \in Seq(ChunkUnder(doc)) /\ Bodies(Contents(c)) = Bodies(x.lines)
               /\ x \in EvenSection(doc) => c \in Seq(EvenChunk(doc))
<1> DEFINE h == x.heading
           S == Under(doc, h)
           p == SplitParagraphs(x.lines)
           c == ChunksOf(x)
           n == Len(c)
           D == Piece(Marked(S))
<1>1. x \in Headed /\ x.lines \in Seq(LineSet(S)) /\ h \in Text
  BY SeenLaws DEF SectionOf
<1>2. S \in SUBSET Own /\ Newline \in S
  BY UnderIs
<1> HIDE DEF S
<1>3. /\ p \in Seq(Paragraph(S)) /\ Bodies(p) = Bodies(x.lines)
      /\ MarksOf(x.lines) % 2 = 0 => p \in Seq(EvenParagraph(S))
  BY <1>1, <1>2, SplitLaws
<1>4. /\ c \in Seq([content : D, heading : {h}]) /\ Bodies(Contents(c)) = Bodies(p)
      /\ p \in Seq(EvenParagraph(S)) => \A i \in DOMAIN c : Even(c[i].content)
  BY <1>2, <1>3, ChunksOfLaws
<1>5. D \in SUBSET Text
  BY <1>2, MarkedIs DEF Piece
<1> HIDE DEF D, c, p
<1>6. n \in Nat /\ DOMAIN c = 1..n /\ \A i \in 1..n : c[i] \in [content : D, heading : {h}]
  BY <1>4, LenProperties, ElementOfSeq
<1>7. \A i \in 1..n : c[i] \in ChunkUnder(doc)
  <2> TAKE i \in 1..n
  <2> DEFINE y == c[i]
             T == Text
  <2>1. y \in [content : D, heading : {h}]
    BY <1>6
  <2> HIDE DEF y, T, h
  <2>2. D \in SUBSET T /\ h \in T
    BY <1>1, <1>5 DEF T
  <2>3. y.content \in D /\ y.heading = h /\ y \in [content : T, heading : T]
    BY <2>1, <2>2
  <2>4. y.content \in Piece(Marked(Under(doc, y.heading)))
    BY <2>3 DEF D, S
  <2> QED
    BY <2>3, <2>4 DEF ChunkUnder, Chunk, y, T
<1>8. c \in Seq(ChunkUnder(doc))
  <2> DEFINE R == ChunkUnder(doc)
  <2>1. \A i \in 1..n : c[i] \in R
    BY <1>7
  <2> HIDE DEF R
  <2> QED
    BY <1>4, <1>6, <2>1 DEF R
<1>9. ASSUME x \in EvenSection(doc)
      PROVE  c \in Seq(EvenChunk(doc))
  <2> DEFINE R == EvenChunk(doc)
  <2>1. MarksOf(x.lines) % 2 = 0
    BY <1>9 DEF EvenSection
  <2>2. \A i \in 1..n : c[i] \in R
    BY <1>3, <1>4, <1>6, <1>7, <2>1 DEF EvenChunk
  <2> HIDE DEF R
  <2> QED
    BY <1>4, <1>6, <2>2 DEF R
<1> QED
  BY <1>3, <1>4, <1>8, <1>9 DEF c

\* The fences of the document are closed.
Closed(doc) == FencesIn(doc, Len(doc)) % 2 = 0

\* Every section left and every chunk made is of the lines under its heading, they
\* close the fences they open if the document does, and together show what it shows.
ChunkerInv ==
    /\ Lined(document)
    /\ sections \in Seq(SectionOf(document)) /\ chunks \in Seq(ChunkUnder(document))
    /\ Closed(document) => sections \in Seq(EvenSection(document)) /\ chunks \in Seq(EvenChunk(document))
    /\ Bodies(Contents(chunks)) \o SeenIn(sections) = Bodies(document)

\* It holds of a document cut into sections.
LEMMA ChunkerInvInit ==
    ASSUME "oneliner" \notin Shapes, ChunkerInit
    PROVE  ChunkerInv
<1> DEFINE e == <<>>
           doc == document
<1>1. doc \in Documents /\ sections = SplitSections(doc) /\ chunks = e
  BY DEF ChunkerInit
<1>2. Lined(doc)
  BY <1>1, DocumentsAreLined
<1>3. /\ sections \in Seq(SectionOf(doc)) /\ SeenIn(sections) = Bodies(doc)
      /\ Closed(doc) => sections \in Seq(EvenSection(doc))
  BY <1>1, <1>2, SectionsOfDocument DEF Closed
<1>4. chunks \in Seq(ChunkUnder(doc)) /\ chunks \in Seq(EvenChunk(doc))
  BY <1>1, EmptySeq
<1>5. Bodies(Contents(chunks)) = e
  BY <1>1, ContentsAre, BodiesLaws
<1>6. SeenIn(sections) \in Seq(Chars)
  BY <1>3, SectionTypes, SeenLaws DEF Text
<1>7. Bodies(Contents(chunks)) \o SeenIn(sections) = Bodies(doc)
  <2> DEFINE v == SeenIn(sections)
  <2>1. e \o v = v
    <3> HIDE DEF v
    <3> QED
      BY <1>6, ConcatEmptySeq DEF v
  <2> QED
    BY <1>3, <1>5, <2>1
<1> QED
  BY <1>2, <1>3, <1>4, <1>7 DEF ChunkerInv

\* And it still holds when a section is cut into chunks.
LEMMA ChunkerInvStep ==
    ASSUME ChunkerInv, [ChunkerNext]_chunkerVars
    PROVE  ChunkerInv'
<1>1. CASE ChunkSection
  <2> DEFINE doc == document
             x == Head(sections)
             rest == Tail(sections)
             c == ChunksOf(x)
             S == SectionOf(doc)
             E == EvenSection(doc)
             K == ChunkUnder(doc)
             V == EvenChunk(doc)
  <2>1. sections # <<>> /\ chunks' = chunks \o c /\ sections' = rest /\ document' = doc
    BY <1>1 DEF ChunkSection
  <2>2. /\ Lined(doc) /\ sections \in Seq(S) /\ chunks \in Seq(K)
        /\ Closed(doc) => sections \in Seq(E) /\ chunks \in Seq(V)
        /\ Bodies(Contents(chunks)) \o SeenIn(sections) = Bodies(doc)
    BY DEF ChunkerInv
  <2>3. S \in SUBSET Headed /\ Seq(S) \in SUBSET Seq(Headed) /\ Seq(K) \in SUBSET Seq(Chunk)
    BY SectionTypes, ChunkTypes
  <2>4. x \in S /\ rest \in Seq(S) /\ <<x>> \in Seq(S) /\ sections = <<x>> \o rest
    <3> HIDE DEF S
    <3> QED
      BY <2>1, <2>2, HeadTailConcat
  <2>5. Closed(doc) => x \in E /\ rest \in Seq(E)
    <3> HIDE DEF E
    <3> QED
      BY <2>1, <2>2, HeadTailConcat
  <2> HIDE DEF x, rest
  <2>6. /\ c \in Seq(K) /\ Bodies(Contents(c)) = Bodies(x.lines)
        /\ x \in E => c \in Seq(V)
    BY <2>4, SectionChunks
  <2> HIDE DEF c
  <2>7. chunks \o c \in Seq(K) /\ (Closed(doc) => chunks \o c \in Seq(V))
    <3> HIDE DEF K, V
    <3> QED
      BY <2>2, <2>5, <2>6, ConcatProperties
  <2>8. Bodies(Contents(chunks \o c)) \o SeenIn(rest) = Bodies(doc)
    <3> DEFINE m == Contents(chunks)
               k == Contents(c)
               r == SeenIn(rest)
               y == Bodies(x.lines)
               bm == Bodies(m)
    <3>1. m \in Seq(Text) /\ k \in Seq(Text) /\ Contents(chunks \o c) = m \o k
      BY <2>2, <2>3, <2>6, ContentsAre
    <3>2. Bodies(m \o k) = bm \o Bodies(k) /\ bm \in Seq(Chars) /\ Bodies(k) = y /\ Bodies(k) \in Seq(Chars)
      <4> HIDE DEF m, k
      <4> QED
        BY <2>6, <3>1, BodiesLaws DEF Text, k
    <3>3. SeenIn(<<x>> \o rest) = y \o r /\ r \in Seq(Chars)
      <4> DEFINE u == <<x>>
      <4>1. u \in Seq(Headed) /\ rest \in Seq(Headed) /\ SeenIn(u) = y
        BY <2>3, <2>4, SeenLaws
      <4> HIDE DEF u
      <4>2. SeenIn(u \o rest) = SeenIn(u) \o SeenIn(rest) /\ SeenIn(rest) \in Seq(Chars)
        BY <4>1, SeenLaws DEF Text
      <4> QED
        BY <4>1, <4>2 DEF u
    <3> HIDE DEF m, k, r, y, bm
    <3>4. (bm \o y) \o r = bm \o (y \o r)
      BY <3>2, <3>3, ConcatAssociative
    <3>5. Bodies(Contents(chunks \o c)) = bm \o y
      BY <3>1, <3>2
    <3>6. bm \o SeenIn(sections) = Bodies(doc) /\ SeenIn(sections) = y \o r
      BY <2>2, <2>4, <3>3 DEF bm, m
    <3> QED
      BY <3>4, <3>5, <3>6 DEF r
  <2> HIDE DEF K, V, S, E
  <2>9. /\ Lined(doc) /\ rest \in Seq(S) /\ chunks \o c \in Seq(K)
        /\ Closed(doc) => rest \in Seq(E) /\ chunks \o c \in Seq(V)
    BY <2>2, <2>4, <2>5, <2>7
  <2> QED
    BY <2>1, <2>8, <2>9 DEF ChunkerInv, K, V, S, E
<1>2. CASE UNCHANGED chunkerVars
  BY <1>2 DEF ChunkerInv, chunkerVars
<1> QED
  BY <1>1, <1>2 DEF ChunkerNext

-----------------------------------------------------------------------------
(***************************************************************************)
(* What the invariant says of the chunks.                                  *)
(***************************************************************************)
\* What a chunk is, and the fences of the document, in the words of the properties.
LEMMA ChunkerInvSays ==
    ASSUME ChunkerInv, NEW i \in DOMAIN chunks
    PROVE  LET x == chunks[i]
           IN  /\ x.content \in Piece(Marked(Under(document, x.heading))) /\ x.content \in Text
               /\ Closed(document) => Even(x.content)
<1> DEFINE K == ChunkUnder(document)
           V == EvenChunk(document)
           x == chunks[i]
<1>1. chunks \in Seq(K) /\ (Closed(document) => chunks \in Seq(V))
  BY DEF ChunkerInv
<1> HIDE DEF K, V
<1>2. DOMAIN chunks = 1..Len(chunks) /\ Len(chunks) \in Nat
  BY <1>1, LenProperties
<1>3. x \in K /\ (Closed(document) => x \in V)
  BY <1>1, <1>2, ElementOfSeq
<1> HIDE DEF x
<1>4. x.content \in Piece(Marked(Under(document, x.heading))) /\ x.content \in Text
  BY <1>3 DEF K, ChunkUnder, Chunk
<1>5. Closed(document) => Even(x.content)
  BY <1>3 DEF V, EvenChunk
<1> QED
  BY <1>4, <1>5 DEF x

\* The fences of the document, as the properties count them.
LEMMA FencesUpToIs == \A n : FencesUpTo(n) = FencesIn(document, n)
BY DEF FencesUpTo, FencesIn

\* No chunk is longer than the limit.
LEMMA InvWithinTheLimit == ChunkerInv => WithinTheLimit
<1> SUFFICES ASSUME ChunkerInv, NEW i \in DOMAIN chunks
             PROVE  Len(chunks[i].content) <= MaxLen
  BY DEF WithinTheLimit
<1> QED
  BY ChunkerInvSays DEF Piece

\* No chunk holds half of a pair.
LEMMA InvPairsStayWhole == ChunkerInv => PairsStayWhole
<1> SUFFICES ASSUME ChunkerInv, NEW i \in DOMAIN chunks
             PROVE  LET s == chunks[i].content
                    IN  \A j \in DOMAIN s :
                            /\ s[j].kind = "high" => j < Len(s) /\ s[j + 1].kind = "low"
                            /\ s[j].kind = "low" => j > 1 /\ s[j - 1].kind = "high"
  BY DEF PairsStayWhole
<1> DEFINE s == chunks[i].content
<1>1. s \in Text /\ Whole(s)
  BY ChunkerInvSays DEF Piece, Sound
<1> HIDE DEF s
<1>2. DOMAIN s = 1..Len(s)
  BY <1>1, LenProperties DEF Text
<1> QED
  BY <1>1, <1>2 DEF Whole, s

\* A chunk closes its fences if the document does.
LEMMA InvFencesStayClosed == ChunkerInv => FencesStayClosed
<1> SUFFICES ASSUME ChunkerInv, Closed(document), NEW i \in DOMAIN chunks
             PROVE  LET lines == LinesOf(chunks[i].content)
                    IN  Cardinality({j \in DOMAIN lines : IsFence(lines[j])}) % 2 = 0
  BY FencesUpToIs DEF FencesStayClosed, Closed
<1> DEFINE s == chunks[i].content
<1>1. s \in Text /\ Sound(s) /\ Marks(s) % 2 = 0
  BY ChunkerInvSays DEF Piece, Even
<1> HIDE DEF s
<1>2. Cardinality({j \in DOMAIN LinesOf(s) : IsFence(LinesOf(s)[j])}) = Marks(s)
  BY <1>1, FencesOfText
<1> QED
  BY <1>1, <1>2 DEF s

\* A chunk is filed under the heading of its text.
LEMMA InvUnderTheirHeading == ChunkerInv => UnderTheirHeading
<1> SUFFICES ASSUME ChunkerInv, NEW i \in DOMAIN chunks
             PROVE  chunks[i].heading = HeadingAt(document, Max({c.line : c \in ToSet(chunks[i].content)}))
  BY FencesUpToIs DEF UnderTheirHeading, HeadingAt, HeadingsTo
<1> DEFINE s == chunks[i].content
           h == chunks[i].heading
           A == {c.line : c \in ToSet(s)}
           U == Under(document, h)
           n == Len(document)
<1>1. s \in Seq(Marked(U)) /\ s # <<>> /\ s[1].line # 0
  BY ChunkerInvSays DEF Piece
<1>2. n \in Nat
  BY DEF ChunkerInv, Lined
<1>3. \A c \in Marked(U) : c.line = 0 \/ (c.line \in 1..n /\ HeadingAt(document, c.line) = h)
  <2> TAKE c \in Marked(U)
  <2>1. c = Newline \/ (\E j \in 1..3 : c = Ticks[j]) \/ (c.line \in 1..n /\ HeadingAt(document, c.line) = h)
    BY DEF Marked, Under
  <2> QED
    BY <2>1, NewlineIs, TicksAre
<1> HIDE DEF s, h, U, n
<1>4. Len(s) \in Nat /\ Len(s) # 0 /\ DOMAIN s = 1..Len(s) /\ \A j \in 1..Len(s) : s[j] \in Marked(U)
  BY <1>1, LenProperties, ElementOfSeq, EmptySeq
<1>5. \A c : c \in ToSet(s) <=> \E j \in 1..Len(s) : c = s[j]
  BY <1>4 DEF ToSet
<1>6. A \in SUBSET (0..n) /\ s[1].line \in A
  <2>1. 1 \in 1..Len(s)
    BY <1>4
  <2>2. \A c \in ToSet(s) : c.line \in 0..n
    BY <1>2, <1>3, <1>4, <1>5
  <2> QED
    BY <1>5, <2>1, <2>2
<1>7. Max(A) \in A /\ Max(A) \in 1..n
  BY <1>1, <1>2, <1>6, LargestPlace
<1>8. PICK c \in ToSet(s) : Max(A) = c.line
  BY <1>7
<1>9. c \in Marked(U) /\ c.line # 0
  BY <1>4, <1>5, <1>7, <1>8
<1>10. HeadingAt(document, Max(A)) = h
  BY <1>3, <1>8, <1>9
<1> QED
  BY <1>10 DEF h, s

\* The body of each of some texts.
BodyOf == [s \in Text |-> Body(s)]

\* One by one they show what they show together.
LEMMA BodyOfEach == \A t \in Seq(Text) : FlattenSeq(Mapped(BodyOf, t)) = Bodies(t)
<1> DEFINE R == Text
           g == BodyOf
           m(t) == Mapped(g, t)
           G == {t \in Seq(R) : FlattenSeq(m(t)) = Bodies(t)}
<1>1. g \in [R -> R] /\ \A s \in R : g[s] = Body(s)
  BY BodyLaws DEF BodyOf
<1> HIDE DEF g
<1>2. m(<<>>) = <<>> /\ \A t \in Seq(R) : m(t) \in Seq(R)
  <2> HIDE DEF R
  <2> QED
    BY <1>1, MappedLaws
<1>3. \A t \in Seq(R), x \in R : m(Append(t, x)) = Append(m(t), g[x])
  <2> HIDE DEF R
  <2> QED
    BY <1>1, MappedLaws, ZenonT(40)
<1> HIDE DEF m
<1>4. <<>> \in G
  BY <1>2, EmptySeq, FlattenLaws, BodiesLaws
<1>5. ASSUME NEW t \in G, NEW x \in R
      PROVE  Append(t, x) \in G
  <2> DEFINE y == m(t)
             z == g[x]
             v == Append(t, x)
  <2>1. y \in Seq(Seq(Chars)) /\ z \in Seq(Chars) /\ z = Body(x) /\ m(v) = Append(y, z) /\ v \in Seq(R)
        /\ FlattenSeq(y) = Bodies(t)
    BY <1>1, <1>2, <1>3, AppendIs DEF Text
  <2>2. Bodies(v) = Bodies(t) \o z
    BY <2>1, BodiesLaws
  <2> HIDE DEF y, z, v
  <2>3. FlattenSeq(Append(y, z)) = FlattenSeq(y) \o z
    BY <2>1, FlattenLaws
  <2>4. v \in G
    BY <2>1, <2>2, <2>3
  <2> QED
    BY <2>4 DEF v
<1>6. G \in SUBSET Seq(R)
  OBVIOUS
<1> HIDE DEF G, R
<1>7. G = Seq(R)
  BY <1>4, <1>5, <1>6, SeqSetInduction
<1> QED
  BY <1>7 DEF G, R, m, g

\* The characters of the lines of a document.
Written(doc) == {c \in Own : c.line \in 1..Len(doc) /\ Occurs(c, doc[c.line])}

\* The lines are made of them, and a fence line of backticks only.
LEMMA WrittenIs ==
    ASSUME NEW doc, Lined(doc)
    PROVE  /\ doc \in Seq(Seq(Written(doc))) /\ Written(doc) \in SUBSET Chars
           /\ \A c \in Written(doc) : ~IsFence(doc[c.line]) <=> c.kind # "tick"
           /\ \A h : Marked(Under(doc, h)) \in SUBSET Chars
<1> DEFINE W == Written(doc)
           n == Len(doc)
<1>1. doc \in Seq(LineSet(Own)) /\ n \in Nat /\ \A i \in 1..n : doc[i] \in LineSet(Own)
  BY LenProperties, ElementOfSeq DEF Lined
<1>2. \A i \in 1..n : \A j \in 1..Len(doc[i]) : doc[i][j].line = i
  BY DEF Lined
<1>3. \A i \in 1..n : doc[i] \in Seq(W)
  <2> TAKE i \in 1..n
  <2> DEFINE x == doc[i]
  <2>1. x \in Seq(Own)
    BY <1>1 DEF LineSet
  <2>2. \A j \in 1..Len(x) : x[j].line = i
    BY <1>2
  <2> HIDE DEF x
  <2>3. Len(x) \in Nat /\ \A j \in 1..Len(x) : x[j] \in Own
    BY <2>1, LenProperties, ElementOfSeq
  <2>4. \A j \in 1..Len(x) : x[j] \in W
    <3> TAKE j \in 1..Len(x)
    <3>1. x[j] \in Own /\ x[j].line = i /\ Occurs(x[j], x)
      BY <2>2, <2>3 DEF Occurs
    <3> QED
      BY <3>1 DEF Written, x
  <2> HIDE DEF W
  <2>5. x \in Seq(W)
    BY <2>1, <2>3, <2>4, LenProperties
  <2> QED
    BY <2>5 DEF x
<1>4. doc \in Seq(Seq(W))
  <2> DEFINE L == Seq(W)
             Y == LineSet(Own)
  <2>1. doc \in Seq(Y) /\ \A i \in 1..n : doc[i] \in L
    BY <1>1, <1>3
  <2> HIDE DEF L, Y
  <2>2. doc \in Seq(L)
    BY <1>1, <2>1, LenProperties
  <2> QED
    BY <2>2 DEF L
<1>5. \A c \in W : ~IsFence(doc[c.line]) <=> c.kind # "tick"
  <2> TAKE c \in W
  <2> DEFINE x == doc[c.line]
  <2>1. x \in LineSet(Own) /\ \E j \in 1..Len(x) : x[j] = c
    BY <1>1 DEF Written, Occurs
  <2> HIDE DEF x
  <2>2. PICK j \in 1..Len(x) : x[j] = c
    BY <2>1
  <2>3. IsFence(x) => FenceLine(x)
    BY <2>1, LineSetIs
  <2>4. ~IsFence(x) => NoTicks(x)
    BY <2>1, LineSetIs
  <2>5. FenceLine(x) => c.kind = "tick"
    BY <2>2 DEF FenceLine
  <2>6. NoTicks(x) => c.kind # "tick"
    BY <2>2 DEF NoTicks
  <2> QED
    BY <2>3, <2>4, <2>5, <2>6 DEF x
<1>6. W \in SUBSET Chars
  BY DEF Written, Own
<1>7. \A h : Marked(Under(doc, h)) \in SUBSET Chars
  BY UnderIs, MarkedIs
<1> QED
  BY <1>4, <1>5, <1>6, <1>7

\* What is kept of the characters of the document is what is not a backtick.
LEMMA KeptIsBody ==
    ASSUME Lined(document)
    PROVE  /\ \A h : \A s \in Seq(Marked(Under(document, h))) : Filtered(s, InBody) = Body(s)
           /\ \A s \in Seq(Written(document)) : Filtered(s, InBody) = Body(s)
<1> DEFINE B == {c \in Chars : InBody(c)}
           W == Written(document)
<1>1. \A c \in W : c \in B <=> c \in Plain
  <2> TAKE c \in W
  <2>1. c \in Chars /\ (~IsFence(document[c.line]) <=> c.kind # "tick") /\ c.line # 0
    <3>1. c.line \in 1..Len(document)
      BY DEF Written
    <3> QED
      BY <3>1, WrittenIs
  <2> QED
    BY <2>1 DEF InBody, Plain
<1>2. \A h : \A c \in Marked(Under(document, h)) : c \in W \/ c = Newline \/ \E i \in 1..3 : c = Ticks[i]
  BY DEF Marked, Under, Written
<1>3. (Newline \in B <=> Newline \in Plain) /\ \A i \in 1..3 : Ticks[i] \in B <=> Ticks[i] \in Plain
  BY NewlineIs, TicksAre DEF InBody, Plain
<1>4. \A h : \A c \in Marked(Under(document, h)) : c \in B <=> c \in Plain
  BY <1>1, <1>2, <1>3
<1>5. \A s \in Text : Filtered(s, InBody) = Sel(Chars, B, s)
  BY KeptIsSel
<1> HIDE DEF B, W
<1>6. ASSUME NEW U \in SUBSET Chars, \A c \in U : c \in B <=> c \in Plain, NEW s \in Seq(U)
      PROVE  Filtered(s, InBody) = Body(s)
  <2>1. s \in Text
    BY TextOf
  <2>2. Sel(Chars, B, s) = Sel(Chars, Plain, s)
    BY <1>6, SelSame
  <2> QED
    BY <1>5, <2>1, <2>2 DEF Body
<1>7. ASSUME NEW h, NEW s \in Seq(Marked(Under(document, h)))
      PROVE  Filtered(s, InBody) = Body(s)
  <2> DEFINE U == Marked(Under(document, h))
  <2>1. U \in SUBSET Chars /\ s \in Seq(U) /\ \A c \in U : c \in B <=> c \in Plain
    BY <1>4, WrittenIs
  <2> HIDE DEF U
  <2> QED
    BY <1>6, <2>1
<1>8. ASSUME NEW s \in Seq(W)
      PROVE  Filtered(s, InBody) = Body(s)
  <2>1. W \in SUBSET Chars
    BY WrittenIs DEF W
  <2> QED
    BY <1>1, <1>6, <2>1
<1> QED
  BY <1>7, <1>8 DEF W

\* Once all sections are cut, the chunks show what the document shows.
LEMMA InvNothingIsLost == ChunkerInv => NothingIsLost
<1> SUFFICES ASSUME ChunkerInv, Done
             PROVE  /\ FlattenSeq([i \in DOMAIN chunks |-> Filtered(chunks[i].content, InBody)])
                         = Filtered(FlattenSeq(document), InBody)
                    /\ \A c \in ToSet(FlattenSeq(document)) :
                          Shows(c) /\ c.kind # "tick" => \E i \in DOMAIN chunks : c \in ToSet(chunks[i].content)
  BY DEF NothingIsLost
<1> DEFINE t == Contents(chunks)
           all == FlattenSeq(document)
           W == Written(document)
           n == Len(chunks)
<1>1. Lined(document) /\ chunks \in Seq(Chunk) /\ Bodies(t) \o SeenIn(sections) = Bodies(document)
  BY ChunkTypes DEF ChunkerInv
<1>2. t \in Seq(Text)
  BY <1>1, ContentsAre
<1>3. n \in Nat /\ DOMAIN chunks = 1..n /\ DOMAIN t = 1..n /\ Len(t) = n
      /\ \A i \in 1..n : t[i] = chunks[i].content
  <2>1. DOMAIN chunks = 1..n /\ n \in Nat
    BY <1>1, LenProperties
  <2>2. DOMAIN t = DOMAIN chunks /\ \A i \in DOMAIN chunks : t[i] = chunks[i].content
    BY DEF Contents
  <2> HIDE DEF t, n
  <2>3. DOMAIN t = 1..Len(t) /\ Len(t) \in Nat
    BY <1>2, LenProperties
  <2> DEFINE m == Len(t)
  <2>4. m = n
    <3> HIDE DEF m
    <3> QED
      BY <2>1, <2>2, <2>3 DEF m
  <2> QED
    BY <2>1, <2>2, <2>4
<1>4. Bodies(t) = Bodies(document)
  <2> DEFINE b == Bodies(t)
             e == <<>>
  <2>1. b \in Seq(Chars) /\ SeenIn(sections) = e
    BY <1>2, SeenLaws, BodiesLaws DEF Text, Done
  <2> HIDE DEF b, e
  <2>2. b \o e = b
    BY <2>1, ConcatEmptySeq DEF e
  <2> QED
    BY <1>1, <2>1, <2>2 DEF b
<1> HIDE DEF t, n
<1>5. all \in Seq(W) /\ all \in Text /\ W \in SUBSET Chars
  <2>1. document \in Seq(Seq(W)) /\ W \in SUBSET Chars
    BY <1>1, WrittenIs
  <2> HIDE DEF W
  <2>2. all \in Seq(W)
    BY <2>1, FlattenLaws
  <2> QED
    BY <2>1, <2>2, TextOf
<1>6. Filtered(all, InBody) = Bodies(document)
  BY <1>1, <1>5, KeptIsBody DEF Bodies
<1>7. FlattenSeq([i \in DOMAIN chunks |-> Filtered(chunks[i].content, InBody)]) = Bodies(t)
  <2>1. \A i \in DOMAIN chunks : Filtered(chunks[i].content, InBody) = Body(t[i])
    <3> TAKE i \in DOMAIN chunks
    <3> DEFINE h == chunks[i].heading
    <3>1. chunks[i].content \in Seq(Marked(Under(document, h)))
      BY ChunkerInvSays DEF Piece
    <3> HIDE DEF h
    <3> QED
      BY <1>1, <1>3, <3>1, KeptIsBody
  <2>2. \A i \in 1..n : BodyOf[t[i]] = Body(t[i])
    BY <1>2, <1>3, ElementOfSeq DEF BodyOf
  <2>3. [i \in DOMAIN chunks |-> Filtered(chunks[i].content, InBody)] = Mapped(BodyOf, t)
    BY <1>3, <2>1, <2>2 DEF Mapped
  <2> QED
    BY <1>2, <2>3, BodyOfEach
<1>8. ASSUME NEW c \in ToSet(all), Shows(c), c.kind # "tick"
      PROVE  \E i \in DOMAIN chunks : c \in ToSet(chunks[i].content)
  <2>1. DOMAIN all = 1..Len(all) /\ \A j \in 1..Len(all) : all[j] \in Chars
    BY <1>5, LenProperties, ElementOfSeq DEF Text
  <2> HIDE DEF all
  <2>2. Occurs(c, all) /\ c \in Chars
    BY <1>8, <2>1 DEF ToSet, Occurs
  <2>3. c \in Plain
    BY <1>8, <2>2 DEF Plain
  <2>4. FlattenSeq(t) \in Seq(Chars)
    BY <1>2, FlattenLaws DEF Text
  <2>5. Occurs(c, Body(all))
    BY <1>5, <2>2, <2>3, SelOccurs DEF Body, Text
  <2>6. Body(all) = Body(FlattenSeq(t))
    BY <1>4 DEF Bodies, all
  <2>7. Occurs(c, FlattenSeq(t))
    BY <2>3, <2>4, <2>5, <2>6, SelOccurs DEF Body
  <2>8. PICK i \in 1..n : Occurs(c, t[i])
    BY <1>2, <1>3, <2>7, FlattenOccurs DEF Text
  <2>9. t[i] \in Seq(Chars)
    BY <1>2, <1>3, ElementOfSeq DEF Text
  <2>10. DOMAIN t[i] = 1..Len(t[i])
    BY <2>9, LenProperties
  <2>11. c \in ToSet(t[i])
    BY <2>8, <2>10 DEF ToSet, Occurs
  <2> QED
    BY <1>3, <2>11
<1> QED
  BY <1>4, <1>6, <1>7, <1>8

(***************************************************************************)
(* In every state that the cutting of a document reaches, the chunks made  *)
(* and the sections left show together what the document shows, in its     *)
(* order, and each is sound (chunker.ts:4-16, chunkDocument :231).         *)
(***************************************************************************)
THEOREM ChunkerInvHolds == "oneliner" \notin Shapes => (ChunkerSpec => []ChunkerInv)
<1>1. "oneliner" \notin Shapes /\ ChunkerInit => ChunkerInv
  BY ChunkerInvInit
<1>2. ChunkerInv /\ [ChunkerNext]_chunkerVars => ChunkerInv'
  BY ChunkerInvStep
<1> SUFFICES ASSUME "oneliner" \notin Shapes
             PROVE  ChunkerSpec => []ChunkerInv
  OBVIOUS
<1>3. ChunkerInit => ChunkerInv
  BY <1>1
<1> QED
  BY <1>2, <1>3, PTL DEF ChunkerSpec

(***************************************************************************)
(* Cutting a document of any number of lines loses no character and puts   *)
(* none out of its order, keeps every chunk within the limit, keeps        *)
(* surrogate pairs whole, closes in each chunk the fences it opens, and    *)
(* files each chunk under the heading of its text (chunker.ts:4-16).  The  *)
(* condition: no fence opens with a line longer than the limit, which      *)
(* splitLongFence repeats in every piece (chunker.ts:196) or, when nothing *)
(* follows it, cuts off (:228).                                            *)
(***************************************************************************)
THEOREM DocumentsAreKept == "oneliner" \notin Shapes => (ChunkerSpec => []ChunksKeepTheDocument)
<1>1. ChunkerInv => ChunksKeepTheDocument
  BY InvNothingIsLost, InvWithinTheLimit, InvPairsStayWhole, InvFencesStayClosed, InvUnderTheirHeading
     DEF ChunksKeepTheDocument
<1> QED
  BY <1>1, ChunkerInvHolds, PTL

=============================================================================
