---------------------------- MODULE AnswerCache -----------------------------
(***************************************************************************)
(* Answering a question (packages/shared: answer/answer.ts, retrieval.ts,  *)
(* rerank.ts, gate.ts, cache.ts) while bases are being rebuilt.            *)
(*                                                                         *)
(* Every process that answers (panel, MCP server) keeps answers in its own *)
(* memory, under a key that holds the highest id of a finished export of   *)
(* the bases asked.  A build writes the mirror, then finishes its export   *)
(* run, then loads the graph, then settles the dirty flag; a question      *)
(* reads the key, the flag, the graph and the mirror at four moments.      *)
(* Text is abstract: what a base says is a version number.  One question   *)
(* is in flight at a time: each entry is written from what one question    *)
(* read, and the entries are judged one by one.                            *)
(***************************************************************************)
EXTENDS Integers, Sequences, SequencesExt

CONSTANTS
    Bases,       \* knowledge bases
    MaxEntries,  \* MAX_ENTRIES of the cache
    MaxRuns,     \* bound: export runs
    MaxEdits     \* bound: decisions in the inbox, and edits of the chunking

ASSUME AnswerAssumption ==
    /\ MaxEntries \in Nat \ {0}
    /\ MaxRuns \in Nat /\ MaxEdits \in Nat

VARIABLES
    wanted,             \* what a build of the base would export
    dirty,              \* kb_registry.dirty
    mirror, graph,      \* what chunks_mirror and OpenSPG hold of a base
    build,              \* the build of a base
    published,          \* the base's newest finished export run
    runs,               \* ids given to export runs
    edits,              \* edits made
    asked,              \* the question in flight
    cache,              \* the process's answers, least recently used first
    rebuiltClean        \* history: bases rebuilt while not marked dirty

kbVars == <<wanted, dirty, mirror, graph, build, published, runs, edits, rebuiltClean>>
answerVars == <<kbVars, asked, cache>>

NoBuild == [pc |-> "idle", run |-> 0, content |-> 0, overtaken |-> FALSE]
NotAsked == [pc |-> "none"]

AnswerInit ==
    /\ wanted = [b \in Bases |-> 0]
    /\ mirror = wanted /\ graph = wanted
    /\ dirty = [b \in Bases |-> FALSE]
    /\ build = [b \in Bases |-> NoBuild]
    /\ published = [b \in Bases |-> 0]
    /\ runs = 0 /\ edits = 0
    /\ asked = NotAsked
    /\ cache = <<>>
    /\ rebuiltClean = {}

-----------------------------------------------------------------------------
(***************************************************************************)
(* The bases: what a question can observe of the inbox and of a build.     *)
(***************************************************************************)

\* A draft is promoted or withdrawn: decide, markDirty.
Decide(b) ==
    /\ edits < MaxEdits
    /\ edits' = edits + 1
    /\ wanted' = [wanted EXCEPT ![b] = @ + 1]
    /\ dirty' = [dirty EXCEPT ![b] = TRUE]
    /\ build' = [build EXCEPT ![b].overtaken = build[b].pc # "idle"]
    /\ UNCHANGED <<mirror, graph, published, runs, asked, cache, rebuiltClean>>

\* PUT /settings: a new chunk size changes every base's export, and no flag.
EditChunking ==
    /\ edits < MaxEdits
    /\ edits' = edits + 1
    /\ wanted' = [b \in Bases |-> wanted[b] + 1]
    /\ UNCHANGED <<dirty, mirror, graph, build, published, runs, asked, cache, rebuiltClean>>

\* snapshotDirty, startExportRun and the collection of the drafts.  A base
\* that is not dirty may be built too.
StartBuild(b) ==
    /\ build[b].pc = "idle" /\ runs < MaxRuns
    /\ runs' = runs + 1
    /\ build' = [build EXCEPT ![b] = [pc |-> "export", run |-> runs + 1,
                                      content |-> wanted[b], overtaken |-> FALSE]]
    /\ rebuiltClean' = IF dirty[b] THEN rebuiltClean ELSE rebuiltClean \cup {b}
    /\ UNCHANGED <<wanted, dirty, mirror, graph, published, edits, asked, cache>>

BuildGoes(b, from, to) ==
    /\ build[b].pc = from
    /\ build' = [build EXCEPT ![b].pc = to]
    /\ UNCHANGED <<wanted, dirty, runs, edits, asked, cache, rebuiltClean>>

WriteMirror(b) ==
    /\ BuildGoes(b, "export", "mirrored")
    /\ mirror' = [mirror EXCEPT ![b] = build[b].content]
    /\ UNCHANGED <<graph, published>>

\* finishExportRun(success)
FinishExport(b) ==
    /\ BuildGoes(b, "mirrored", "exported")
    /\ published' = [published EXCEPT ![b] = build[b].run]
    /\ UNCHANGED <<mirror, graph>>

LoadGraph(b) ==
    /\ BuildGoes(b, "exported", "loaded")
    /\ graph' = [graph EXCEPT ![b] = build[b].content]
    /\ UNCHANGED <<mirror, published>>

BuildEnds(b) ==
    /\ build' = [build EXCEPT ![b] = NoBuild]
    /\ UNCHANGED <<wanted, mirror, graph, published, runs, edits, asked, cache, rebuiltClean>>

\* settleDirtyAfterBuild
Settle(b) ==
    /\ build[b].pc = "loaded"
    /\ dirty' = [dirty EXCEPT ![b] = @ /\ build[b].overtaken]
    /\ BuildEnds(b)

\* The build fails or dies, anywhere.
BuildFails(b) == build[b].pc # "idle" /\ BuildEnds(b) /\ UNCHANGED dirty

KbStep ==
    \/ EditChunking
    \/ \E b \in Bases : \/ Decide(b) \/ StartBuild(b) \/ WriteMirror(b) \/ FinishExport(b)
                        \/ LoadGraph(b) \/ Settle(b) \/ BuildFails(b)

-----------------------------------------------------------------------------
(***************************************************************************)
(* The cache.                                                              *)
(***************************************************************************)

Newest(S) == CHOOSE m \in S : \A n \in S : n <= m

\* dataVersion
DataVersion(ns) == Newest({published[b] : b \in ns})

\* A fault: the version is left out of the key.
KeyWithoutVersion(ns) == [ns |-> ns, version |-> 0]

\* answerCacheKey, of one question and one setting of the options
Key(ns) == [ns |-> ns, version |-> DataVersion(ns)]

\* A fault: the entry is put before the oldest one is taken out.
PutBeforeRoom(c, e) == Append(c, e)

\* putCachedAnswer: a key that is there keeps its place.
Put(c, e) ==
    LET room == IF Len(c) >= MaxEntries THEN Tail(c) ELSE c
    IN  IF \E i \in DOMAIN room : room[i].key = e.key
        THEN [i \in DOMAIN room |-> IF room[i].key = e.key THEN e ELSE room[i]]
        ELSE Append(room, e)

\* An entry outlives its TTL.
Expires(i) ==
    /\ cache' = RemoveAt(cache, i)
    /\ UNCHANGED <<kbVars, asked>>

\* The process restarts; its cache and the question are gone.
ProcessRestarts ==
    /\ cache # <<>> \/ asked # NotAsked
    /\ cache' = <<>> /\ asked' = NotAsked
    /\ UNCHANGED kbVars

-----------------------------------------------------------------------------
(***************************************************************************)
(* A question.                                                             *)
(***************************************************************************)

\* getCachedAnswer finds it: its place in the LRU order is renewed.
Hit(ns) ==
    /\ asked = NotAsked
    /\ \E i \in DOMAIN cache :
        /\ cache[i].key = Key(ns)
        /\ cache' = Append(RemoveAt(cache, i), cache[i])
    /\ UNCHANGED <<kbVars, asked>>

Goes(r) ==
    /\ asked' = r
    /\ UNCHANGED <<kbVars, cache>>

Miss(ns) ==
    /\ asked = NotAsked
    /\ \A e \in ToSet(cache) : e.key # Key(ns)
    /\ Goes([pc |-> "keyed", key |-> Key(ns)])

\* hybridSearch, after the rewriting of the query: the registry is read.
Search ==
    /\ asked.pc = "keyed"
    /\ Goes([pc |-> "searched", key |-> asked.key, dirty |-> \E b \in asked.key.ns : dirty[b]])

\* The channels answer: OpenSPG is down, or the query has no embedding, or
\* they find what the graph holds.
Channels ==
    /\ asked.pc = "searched"
    /\ \E degraded \in BOOLEAN :
        Goes([pc |-> "found", key |-> asked.key, soft |-> asked.dirty, degraded |-> degraded,
              graph |-> [b \in asked.key.ns |-> graph[b]]])

\* refuse, in either phase of the gate; or a call of the model fails.
Refused == asked.pc = "found" /\ Goes(NotAsked)

\* A fault: a clean registry is not asked for.
CacheableIfUp(q) == ~q.degraded

Cacheable(q) == ~q.degraded /\ ~q.soft

\* After the rerank: buildContext reads the mirror; the model is asked.
\* An answer that will not be kept leaves no trace here.
Context ==
    /\ asked.pc = "found"
    /\ Goes(IF Cacheable(asked)
            THEN [pc |-> "generating", key |-> asked.key,
                  seen |-> [b \in asked.key.ns |-> [graph |-> asked.graph[b], mirror |-> mirror[b]]]]
            ELSE NotAsked)

\* The model has answered: a confident answer is kept.
Answered ==
    /\ asked.pc = "generating"
    /\ asked' = NotAsked
    /\ \/ UNCHANGED cache                        \* weak, out of scope, or the call failed
       \/ cache' = Put(cache, [key |-> asked.key, seen |-> asked.seen])
    /\ UNCHANGED kbVars

AskStep ==
    \/ \E ns \in (SUBSET Bases) \ {{}} : Hit(ns) \/ Miss(ns)
    \/ Search \/ Channels \/ Refused \/ Context \/ Answered

CacheStep == ProcessRestarts \/ \E i \in DOMAIN cache : Expires(i)

AnswerNext == KbStep \/ AskStep \/ CacheStep

AnswerSpec == AnswerInit /\ [][AnswerNext]_answerVars

-----------------------------------------------------------------------------
(***************************************************************************)
(* Properties.                                                             *)
(***************************************************************************)

\* Every variable keeps its type; the cache keeps its bound.
AnswerTypeOK ==
    /\ \A b \in Bases : mirror[b] \in 0..wanted[b] /\ graph[b] \in 0..wanted[b]
    /\ dirty \in [Bases -> BOOLEAN]
    /\ \A b \in Bases : build[b].run \in 0..runs /\ published[b] \in 0..runs
    /\ Len(cache) <= MaxEntries
    /\ asked.pc \in {"none", "keyed", "searched", "found", "generating"}

\* The entries that a question asked now would be served.
Servable == {e \in ToSet(cache) : e.key = Key(e.key.ns)}

(***************************************************************************)
(* An answer served from the cache was computed from what the graph holds  *)
(* now, and from what the mirror holds, unless the base is marked dirty:   *)
(* no rebuild leaves an older answer behind, however the builds of the     *)
(* bases asked overlap ("rebuild KB naturalnie unieważnia wpisy",          *)
(* cache.ts; the condition on kb_dirty in answerQuestion).  A rebuild of a *)
(* base that is not dirty gives no such warning and is excluded.           *)
(***************************************************************************)
ServedAnswersAreCurrent ==
    \A e \in Servable : \A b \in e.key.ns \ rebuiltClean :
        \/ e.seen[b] = [graph |-> graph[b], mirror |-> mirror[b]]
        \/ dirty[b]

=============================================================================
