---------------------------- MODULE MCPrecedence ----------------------------
(***************************************************************************)
(* Every list of at most MaxList drafts, every source_ref, `supersedes`    *)
(* and promotion time over a small set of drafts: the loops of             *)
(* applyPrecedence against the rule they are meant to compute.             *)
(***************************************************************************)
EXTENDS Integers, Sequences, FiniteSets

CONSTANTS Drafts, Refs, NoRef, MaxList, MaxTime

ASSUME MCPrecedenceAssumption ==
    Drafts \subseteq Nat \ {0} /\ IsFiniteSet(Drafts) /\ MaxTime \in Nat

VARIABLES list, refOf, supersedesOf, promotedAt
precedenceVars == <<list, refOf, supersedesOf, promotedAt>>

P == INSTANCE ApplyPrecedence WITH RefOf <- refOf, SupersedesOf <- supersedesOf

PrecedenceInit ==
    /\ list = <<>>
    /\ refOf \in [Drafts -> Refs \cup {NoRef}]
    /\ supersedesOf \in [Drafts -> Drafts \cup {P!NoDraft}]
    /\ promotedAt \in [Drafts -> 1..MaxTime]

ListDraft(d) ==
    /\ Len(list) < MaxList
    /\ list' = Append(list, d)
    /\ UNCHANGED <<refOf, supersedesOf, promotedAt>>

PrecedenceNext == \E d \in Drafts : ListDraft(d)

PrecedenceSpec == PrecedenceInit /\ [][PrecedenceNext]_precedenceVars

Listed == {list[i] : i \in DOMAIN list}
Twice  == {d \in Listed : Cardinality({i \in DOMAIN list : list[i] = d}) > 1}

-----------------------------------------------------------------------------

(***************************************************************************)
(* Whatever the order of the list and however often it repeats a draft,    *)
(* the loops of applyPrecedence withdraw exactly the drafts the rule names *)
(* (exporter.ts:299-333).                                                  *)
(***************************************************************************)
LoopsComputeTheRule ==
    P!SupersededByLoops(list, promotedAt) = P!Superseded(Listed, Twice, promotedAt)

=============================================================================
