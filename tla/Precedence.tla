----------------------------- MODULE Precedence -----------------------------
(***************************************************************************)
(* The precedence rule of the exporter, applyPrecedence in                 *)
(* apps/panel-api/src/pipeline/exporter.ts: which promoted drafts of a     *)
(* knowledge base are superseded by another one, and therefore leave the   *)
(* target state.  The code computes it with two loops over the fetched     *)
(* list; this module says what the loops compute, as sets.  The loops are  *)
(* in ApplyPrecedence, and MCPrecedence checks that the two agree.         *)
(***************************************************************************)
EXTENDS Integers, FiniteSets

CONSTANTS
    Drafts,        \* draft ids, numbered in the order of created_at
    RefOf,         \* the trimmed source_ref of a draft, or NoRef
    NoRef,         \* an empty source_ref
    SupersedesOf   \* the draft named by `supersedes`, or NoDraft

NoDraft == 0

ASSUME DraftsAssumption == Drafts \subseteq Nat \ {0} /\ IsFiniteSet(Drafts)
ASSUME SupersedesAssumption == SupersedesOf \in [Drafts -> Drafts \cup {NoDraft}]

-----------------------------------------------------------------------------

\* isNewer: the later promoted_at, the id breaks a tie.
Newer(a, b, promotedAt) ==
    \/ promotedAt[a] > promotedAt[b]
    \/ promotedAt[a] = promotedAt[b] /\ a > b

(***************************************************************************)
(* The drafts another draft of S names in `supersedes`.  Two drafts that   *)
(* name each other cancel out, and a draft that names itself is ignored.   *)
(***************************************************************************)
ExplicitVictims(S) ==
    {v \in S : \E d \in S : d # v /\ SupersedesOf[d] = v /\ SupersedesOf[v] # d}

\* A fault: the oldest version of a source is the one kept.
OldestKept(S, twice, promotedAt) ==
    {d \in S \ ExplicitVictims(S) :
        \E e \in S \ ExplicitVictims(S) :
            RefOf[d] # NoRef /\ RefOf[e] = RefOf[d] /\ Newer(d, e, promotedAt)}

(***************************************************************************)
(* Of the others, the drafts that share their source_ref with a newer one. *)
(* twice is the set of drafts the list holds more than once: the second    *)
(* copy of a draft loses to the first one, and the draft with it.          *)
(***************************************************************************)
SourceVictims(S, twice, promotedAt) ==
    LET rest == S \ ExplicitVictims(S)
    IN  {d \in rest :
            /\ RefOf[d] # NoRef
            /\ \/ d \in twice
               \/ \E e \in rest : RefOf[e] = RefOf[d] /\ Newer(e, d, promotedAt)}

Superseded(S, twice, promotedAt) ==
    ExplicitVictims(S) \cup SourceVictims(S, twice, promotedAt)

=============================================================================
