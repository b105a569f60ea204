------------------------------ MODULE Chunker -------------------------------
(***************************************************************************)
(* How the text of a draft is cut into the chunks that the mirror and the  *)
(* graph keep (pipeline/chunker.ts).  A document is a sequence of lines of *)
(* given shapes; a character knows its place in the document and its kind, *)
(* so that what a chunk holds can be traced back.  Only the kinds that the *)
(* code tells apart exist: whitespace, the dot that ends a sentence, the   *)
(* backticks of a fence, the hash of a heading (a pseudo-heading in        *)
(* capitals is a heading too), the two halves of a surrogate pair, and any *)
(* other letter.  The preview and the hashes of a chunk are left out.      *)
(***************************************************************************)
EXTENDS Integers, SequencesExt

CONSTANTS MaxLen,    \* chunking.maxLen: the limit of a chunk
          Shapes,    \* the shapes of lines that occur
          MaxLines   \* bound: the lines of a document

Letters(n) == [i \in 1..n |-> "letter"]
TickKinds  == [i \in 1..3 |-> "tick"]
Pairs(n)   == [i \in 1..(2 * n) |-> IF i % 2 = 1 THEN "high" ELSE "low"]

\* One line of each shape, as the kinds of its characters.
KindsOf == [
    blank   |-> <<>>,
    word    |-> Letters(4),
    heading |-> <<"hash", "space", "letter">>,
    fence   |-> TickKinds,
    prose   |-> Letters(5) \o <<"dot", "space">> \o Letters(6) \o <<"dot", "space">> \o Letters(3),
    emoji   |-> Letters(1) \o Pairs(7),
    oneliner |-> TickKinds \o Letters(MaxLen)]

ASSUME ChunkerAssumption ==
    /\ MaxLen \in Nat /\ MaxLen > 2 * Len(TickKinds) + 3
    /\ MaxLines \in Nat
    /\ Shapes \subseteq DOMAIN KindsOf

VARIABLES document,   \* its lines
          sections,   \* those not yet cut
          chunks
chunkerVars == <<document, sections, chunks>>

-----------------------------------------------------------------------------
(* Text: sequences of characters.                                          *)

\* The elements of s that pass the test, in their order.
Filtered(s, Test(_)) ==
    FoldLeft(LAMBDA kept, e : IF Test(e) THEN Append(kept, e) ELSE kept, <<>>, s)

Char(line, column, kind) == [line |-> line, column |-> column, kind |-> kind]
Newline  == Char(0, 0, "newline")
Ticks    == [i \in 1..3 |-> Char(0, i, "tick")]

Shows(c) == c.kind \notin {"space", "newline"}
IsBlank(s) == \A i \in DOMAIN s : ~Shows(s[i])

TrimStart(s) ==
    IF IsBlank(s) THEN <<>> ELSE SubSeq(s, SelectInSeq(s, Shows), Len(s))
TrimEnd(s) ==
    IF IsBlank(s) THEN <<>> ELSE SubSeq(s, 1, SelectLastInSeq(s, Shows))
TrimBoth(s) == TrimStart(TrimEnd(s))

Joined(lines) ==
    FoldLeft(LAMBDA s, line : s \o <<Newline>> \o line, Head(lines), Tail(lines))

LinesOf(s) ==
    FoldLeft(LAMBDA lines, c : IF c = Newline THEN Append(lines, <<>>)
                               ELSE [lines EXCEPT ![Len(lines)] = Append(@, c)],
             << <<>> >>, s)

\* FENCE_LINE_RE and isFence, MD_HEADING_RE and isPseudoHeading.
IsFence(s) ==
    LET t == TrimStart(s) IN Len(t) >= 3 /\ \A i \in 1..3 : t[i].kind = "tick"
IsHeading(line) == line # <<>> /\ line[1].kind = "hash"

\* An index that does not fall within a surrogate pair.
SafeCutIndex(s, i) ==
    IF 0 < i /\ i < Len(s) /\ s[i].kind = "high" /\ s[i + 1].kind = "low"
    THEN IF i > 1 THEN i - 1 ELSE i + 1
    ELSE i

-----------------------------------------------------------------------------
(* Sections and paragraphs: a fence is opaque to both.                     *)

NoHeading == <<>>

SplitSections(lines) ==
    LET Step(a, line) ==
            IF ~IsFence(line) /\ ~a.fenced /\ IsHeading(line)
            THEN [a EXCEPT !.all = Append(@, [heading |-> line, lines |-> <<line>>])]
            ELSE [all    |-> [a.all EXCEPT ![Len(a.all)].lines = Append(@, line)],
                  fenced |-> a.fenced # IsFence(line)]
        start == [all |-> << [heading |-> NoHeading, lines |-> <<>>] >>, fenced |-> FALSE]
    IN  Filtered(FoldLeft(Step, start, lines).all,
                 LAMBDA s : \E i \in DOMAIN s.lines : ~IsBlank(s.lines[i]))

\* A fault: paragraphs are split at every blank line, also within a fence.
ParagraphsBlindToFences(lines) ==
    LET Step(a, line) ==
            IF IsBlank(line) THEN Append(a, <<>>) ELSE [a EXCEPT ![Len(a)] = Append(@, line)]
        all == Filtered(FoldLeft(Step, << <<>> >>, lines), LAMBDA p : p # <<>>)
    IN  [i \in DOMAIN all |-> Joined(all[i])]

SplitParagraphs(lines) ==
    LET Flush(a) ==
            [a EXCEPT !.buf = <<>>,
                      !.out = IF a.buf = <<>> \/ IsBlank(Joined(a.buf)) THEN @
                              ELSE Append(@, Joined(a.buf))]
        Push(a, line) == [a EXCEPT !.buf = Append(@, line)]
        Step(a, line) ==
            IF IsFence(line)
            THEN IF a.fenced THEN [Flush(Push(a, line)) EXCEPT !.fenced = FALSE]
                 ELSE [Push(Flush(a), line) EXCEPT !.fenced = TRUE]
            ELSE IF ~a.fenced /\ IsBlank(line) THEN Flush(a) ELSE Push(a, line)
    IN  Flush(FoldLeft(Step, [out |-> <<>>, buf |-> <<>>, fenced |-> FALSE], lines)).out

-----------------------------------------------------------------------------
(* Pieces: what is too long is cut at a sentence or between the lines of a *)
(* fence, and inside of a word or a line if nothing else helps.            *)

\* After the last dot of the window that a space follows; else at the limit.
SentenceEnd(s) ==
    LET ends == {i \in 2..(MaxLen - 1) : s[i].kind = "dot" /\ s[i + 1].kind = "space"}
    IN  IF ends = {} THEN MaxLen ELSE Max(ends)

\* pieces[left] is what the last `left` characters of s are cut into.
SplitLongParagraph(s) ==
    LET pieces[left \in 0..Len(s)] ==
            LET rest == SubSeq(s, Len(s) - left + 1, Len(s))
                end  == Max({SafeCutIndex(rest, SentenceEnd(rest)), 1})
            IN  IF left <= MaxLen THEN (IF rest = <<>> THEN <<>> ELSE <<rest>>)
                ELSE <<TrimEnd(SubSeq(rest, 1, end))>>
                       \o pieces[Len(TrimStart(SubSeq(rest, end + 1, left)))]
    IN  pieces[Len(s)]

\* A line longer than a fence has room for; cuts[from] is what is cut after `from`.
HardCuts(line, budget) ==
    LET cuts[from \in 0..Len(line)] ==
            LET end == Max({SafeCutIndex(line, Min({from + budget, Len(line)})), from + 1})
            IN  IF from = Len(line) THEN <<>>
                ELSE <<SubSeq(line, from + 1, end)>> \o cuts[end]
    IN  cuts[0]

SplitLongFence(fence) ==
    LET lines   == LinesOf(fence)
        opening == Head(lines)
        isClosed == Len(TrimBoth(Last(lines))) = 3 /\ IsFence(Last(lines))
        body    == SubSeq(lines, 2, IF isClosed THEN Len(lines) - 1 ELSE Len(lines))
        budget  == Max({MaxLen - (Len(opening) + Len(Ticks) + 2), 1})
        Fenced(ls) == opening \o <<Newline>> \o Joined(ls) \o <<Newline>> \o Ticks
        Flush(a) == IF a.cur = <<>> THEN a
                    ELSE [out |-> Append(a.out, Fenced(a.cur)), cur |-> <<>>, len |-> 0]
        Step(a, line) ==
            LET add == Len(line) + (IF a.cur = <<>> THEN 0 ELSE 1)
                b   == IF a.len + add > budget THEN Flush(a) ELSE a
                cut == HardCuts(line, budget)
            IN  IF Len(line) > budget
                THEN [b EXCEPT !.out = @ \o [i \in DOMAIN cut |-> Fenced(<<cut[i]>>)]]
                ELSE [b EXCEPT !.cur = Append(@, line), !.len = @ + add]
        out == Flush(FoldLeft(Step, [out |-> <<>>, cur |-> <<>>, len |-> 0], body)).out
    IN  IF out = <<>> THEN <<SubSeq(fence, 1, MaxLen)>> ELSE out

PiecesOf(paragraph) ==
    LET p == TrimBoth(paragraph)
    IN  CASE Len(p) <= MaxLen -> <<p>>
          [] Len(p) > MaxLen /\ IsFence(p) -> SplitLongFence(p)
          [] OTHER -> SplitLongParagraph(p)

-----------------------------------------------------------------------------
(* Chunks: the pieces of a section, packed greedily.                       *)

Between == <<Newline, Newline>>

Packed(pieces) ==
    LET Step(a, piece) ==
            LET candidate == IF a.current = <<>> THEN piece ELSE a.current \o Between \o piece
            IN  IF Len(candidate) <= MaxLen THEN [a EXCEPT !.current = candidate]
                ELSE [out |-> Append(a.out, a.current), current |-> piece]
        end == FoldLeft(Step, [out |-> <<>>, current |-> <<>>], pieces)
    IN  Append(end.out, end.current)

ChunksOf(section) ==
    LET paragraphs == SplitParagraphs(section.lines)
        pieces     == FlattenSeq([i \in DOMAIN paragraphs |-> PiecesOf(paragraphs[i])])
        packed     == Packed(pieces)
        contents   == Filtered([i \in DOMAIN packed |-> TrimBoth(packed[i])],
                               LAMBDA s : s # <<>>)
    IN  [i \in DOMAIN contents |-> [content |-> contents[i], heading |-> section.heading]]

\* The documents of at most MaxLines lines.
Documents ==
    {[i \in DOMAIN shapes |-> [j \in DOMAIN KindsOf[shapes[i]] |-> Char(i, j, KindsOf[shapes[i]][j])]] :
        shapes \in BoundedSeq(Shapes, MaxLines)}

ChunkerInit ==
    /\ document \in Documents
    /\ sections = SplitSections(document)
    /\ chunks = <<>>

ChunkSection ==
    /\ sections # <<>>
    /\ chunks' = chunks \o ChunksOf(Head(sections))
    /\ sections' = Tail(sections)
    /\ UNCHANGED document

ChunkerNext == ChunkSection

ChunkerSpec == ChunkerInit /\ [][ChunkerNext]_chunkerVars

-----------------------------------------------------------------------------

Done == sections = <<>>

FencesUpTo(n) == Cardinality({i \in 1..n : IsFence(document[i])})

\* A line of the text proper: not the opening or the closing of a fence.
InBody(c) == Shows(c) /\ c.line # 0 /\ ~IsFence(document[c.line])

(***************************************************************************)
(* The chunks together are the document: its lines in their order, each    *)
(* character once, and what stands after the backticks of a fence at least *)
(* once (chunker.ts:13: the concatenation of the chunks is the text up to  *)
(* whitespace; the openings of fences that were cut are repeated, :188).   *)
(***************************************************************************)
NothingIsLost ==
    Done =>
        /\ FlattenSeq([i \in DOMAIN chunks |-> Filtered(chunks[i].content, InBody)])
             = Filtered(FlattenSeq(document), InBody)
        /\ \A c \in ToSet(FlattenSeq(document)) :
              Shows(c) /\ c.kind # "tick" => \E i \in DOMAIN chunks : c \in ToSet(chunks[i].content)

\* chunker.ts:12: no chunk is longer than the limit.
WithinTheLimit == \A i \in DOMAIN chunks : Len(chunks[i].content) <= MaxLen

\* chunker.ts:101: no chunk begins or ends within a surrogate pair.
PairsStayWhole ==
    \A i \in DOMAIN chunks :
        \A j \in DOMAIN chunks[i].content :
            LET s == chunks[i].content
            IN  /\ s[j].kind = "high" => j < Len(s) /\ s[j + 1].kind = "low"
                /\ s[j].kind = "low" => j > 1 /\ s[j - 1].kind = "high"

\* chunker.ts:75: in a document whose fences are closed, a chunk closes its own.
FencesStayClosed ==
    FencesUpTo(Len(document)) % 2 = 0 =>
        \A i \in DOMAIN chunks :
            LET lines == LinesOf(chunks[i].content)
            IN  Cardinality({j \in DOMAIN lines : IsFence(lines[j])}) % 2 = 0

\* A chunk is filed under the last heading outside of fences that is not after its text.
UnderTheirHeading ==
    \A i \in DOMAIN chunks :
        LET at == Max({c.line : c \in ToSet(chunks[i].content)})
            headings == {n \in 1..at : IsHeading(document[n]) /\ FencesUpTo(n) % 2 = 0}
        IN  chunks[i].heading = IF headings = {} THEN NoHeading ELSE document[Max(headings)]

(***************************************************************************)
(* Cutting a document loses and breaks nothing: every document whose       *)
(* fences open with a line that leaves room for a body (chunker.ts:4-16).  *)
(***************************************************************************)
ChunksKeepTheDocument ==
    NothingIsLost /\ WithinTheLimit /\ PairsStayWhole /\ FencesStayClosed /\ UnderTheirHeading

=============================================================================
