-------------------------- MODULE ApplyPrecedence --------------------------
(***************************************************************************)
(* The two loops of applyPrecedence, as folds over the list of fetched     *)
(* drafts.  The list may hold a draft twice: allPromotedDrafts pages       *)
(* through a table that other processes change.                            *)
(***************************************************************************)
EXTENDS Precedence, SequencesExt

\* A fault: mutual `supersedes` withdraws both drafts.
NamedVictimKeepingCycles(d, listed) ==
    {v \in listed : v = SupersedesOf[d] /\ v # d}

\* The victim of d's `supersedes`, as a set of at most one draft.
NamedVictim(d, listed) ==
    {v \in listed : v = SupersedesOf[d] /\ v # d /\ SupersedesOf[v] # d}

ExplicitPass(list) ==
    FoldLeft(LAMBDA gone, d : gone \cup NamedVictim(d, Range(list)), {}, list)

\* The draft d against w, the leader of its source_ref so far.
TakesOver(d, w, promotedAt) == Newer(d, w, promotedAt)

(***************************************************************************)
(* One round of the source_ref loop.  winner holds the draft that leads    *)
(* each source_ref met so far, gone the drafts superseded so far.          *)
(***************************************************************************)
SourceRound(acc, d, promotedAt) ==
    LET leaders == {w \in acc.winner : RefOf[w] = RefOf[d]}
        stays   == \E w \in leaders : ~TakesOver(d, w, promotedAt)
    IN  IF d \in acc.gone \/ RefOf[d] = NoRef THEN acc
        ELSE IF stays THEN [acc EXCEPT !.gone = @ \cup {d}]
        ELSE [winner |-> (acc.winner \ leaders) \cup {d}, gone |-> acc.gone \cup leaders]

SourcePass(list, promotedAt) ==
    FoldLeft(LAMBDA acc, d : SourceRound(acc, d, promotedAt),
             [winner |-> {}, gone |-> ExplicitPass(list)], list)

SupersededByLoops(list, promotedAt) == SourcePass(list, promotedAt).gone

=============================================================================
