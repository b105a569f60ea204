---------------------------- MODULE LearningGaps ----------------------------
(***************************************************************************)
(* The learning loop (packages/shared: db/repos/learningGaps.ts,           *)
(* answersFeedback.ts; panel-api: services/learning.ts, drafts.ts): a      *)
(* question without a good answer is a gap, a gap becomes a draft, and the *)
(* promotion of the draft resolves the gap.                                *)
(*                                                                         *)
(* The panel and the MCP server share the database.  Every write is a      *)
(* transaction of its own.  The panel is one JavaScript process and does   *)
(* nothing else between the two transactions of promoteDraftEntry, but it  *)
(* may die there, and the MCP server goes on recording.                    *)
(***************************************************************************)
EXTENDS Integers, Sequences, FiniteSets, FiniteSetsExt

CONSTANTS
    Questions,   \* normalized questions, each within one namespace
    MaxGaps,     \* bound: gaps
    MaxDrafts,   \* bound: drafts made from gaps
    MaxAsked     \* bound: how often a question is asked in vain

ASSUME GapsAssumption == MaxGaps \in Nat /\ MaxDrafts \in Nat /\ MaxAsked \in Nat

VARIABLES
    gaps,        \* rows of learning_gaps, in the order of their insertion
    drafts,      \* the drafts made from gaps
    promoting,   \* the draft promoteDraftEntry is between its transactions on
    vain,        \* history: how often a question was recorded
    forgotten,   \* history: evidence of the rows retention deleted
    cutOff       \* history: drafts whose promotion the panel did not survive

gapVars == <<gaps, drafts, promoting, vain, forgotten, cutOff>>

NoDraft == 0

GapsInit ==
    /\ gaps = <<>> /\ drafts = <<>>
    /\ promoting = NoDraft
    /\ vain = [q \in Questions |-> 0]
    /\ forgotten = vain
    /\ cutOff = {}

Closed == {"resolved", "ignored"}

\* TRANSITIONS
CanBecome ==
    [open     |-> {"in_draft", "resolved", "ignored"},
     in_draft |-> {"resolved", "ignored"},
     resolved |-> {"open"},
     ignored  |-> {"open"},
     deleted  |-> {}]

GapsOf(q) == {g \in DOMAIN gaps : gaps[g].question = q}
GapsLeft(q) == {g \in GapsOf(q) : gaps[g].status # "deleted"}
EvidenceIn(some) == SumFunctionOnSet([g \in DOMAIN gaps |-> gaps[g].evidence], some)
Evidence(q) == EvidenceIn(GapsLeft(q))
OpenTwins(q) == {g \in GapsOf(q) : gaps[g].status = "open"}

\* The panel's handlers are synchronous: none starts inside a promotion.
PanelIsFree == promoting = NoDraft

-----------------------------------------------------------------------------
(***************************************************************************)
(* Gaps.                                                                   *)
(***************************************************************************)

\* recordGap, called by either process: a refused or weak answer, a claim not
\* verified, a thumb down.
RecordGap(q) ==
    /\ vain[q] < MaxAsked
    /\ vain' = [vain EXCEPT ![q] = @ + 1]
    /\ \/ \E g \in OpenTwins(q) : gaps' = [gaps EXCEPT ![g].evidence = @ + 1]
       \/ /\ OpenTwins(q) = {} /\ Len(gaps) < MaxGaps
          /\ gaps' = Append(gaps, [question |-> q, status |-> "open",
                                   evidence |-> 1, draft |-> NoDraft])
    /\ UNCHANGED <<drafts, promoting, forgotten, cutOff>>

\* setGapStatus, as ignoreGap and resolveGap call it.
SetGapStatus(g, to) ==
    /\ PanelIsFree
    /\ to \in CanBecome[gaps[g].status]
    /\ gaps' = [gaps EXCEPT ![g].status = to]
    /\ UNCHANGED <<drafts, promoting, vain, forgotten, cutOff>>

\* A fault: the gap is reopened next to its twin.
ReopenedBesideTwin(g) == [gaps EXCEPT ![g].status = "open"]

\* A fault: the twin's evidence is replaced by the reopened gap's.
ReopenedReplacing(g) ==
    LET twins == OpenTwins(gaps[g].question) \ {g}
    IN  [h \in DOMAIN gaps |->
            IF h \in twins THEN [gaps[h] EXCEPT !.evidence = gaps[g].evidence]
            ELSE IF h = g /\ twins = {} THEN [gaps[h] EXCEPT !.status = "open"] ELSE gaps[h]]

\* reopenGap: an open twin takes the evidence over, and the gap stays closed.
Reopened(g) ==
    LET twins == OpenTwins(gaps[g].question) \ {g}
    IN  [h \in DOMAIN gaps |->
            IF h \in twins THEN [gaps[h] EXCEPT !.evidence = @ + gaps[g].evidence]
            ELSE IF h = g /\ twins = {} THEN [gaps[h] EXCEPT !.status = "open"] ELSE gaps[h]]

ReopenGap(g) ==
    /\ PanelIsFree
    /\ "open" \in CanBecome[gaps[g].status]
    /\ Evidence(gaps[g].question) + gaps[g].evidence <= 2 * MaxAsked   \* bound: merged twice
    /\ gaps' = Reopened(g)
    /\ UNCHANGED <<drafts, promoting, vain, forgotten, cutOff>>

Deleted(q) == [question |-> q, status |-> "deleted", evidence |-> 1, draft |-> NoDraft]

\* purgeRows: the closed gaps that are older than the term.
ForgetGaps ==
    /\ PanelIsFree
    /\ \E old \in SUBSET {g \in DOMAIN gaps : gaps[g].status \in Closed} :
        /\ old # {}
        /\ gaps' = [g \in DOMAIN gaps |->
                       IF g \in old THEN Deleted(gaps[g].question) ELSE gaps[g]]
        /\ forgotten' = [q \in Questions |->
                            forgotten[q] + EvidenceIn(old \cap GapsOf(q))]
    /\ UNCHANGED <<drafts, promoting, vain, cutOff>>

-----------------------------------------------------------------------------
(***************************************************************************)
(* Drafts made from gaps.                                                  *)
(***************************************************************************)

\* startDraftFromGap: the draft and the gap's status in one transaction.
StartDraft(g) ==
    /\ PanelIsFree
    /\ gaps[g].status = "open" /\ Len(drafts) < MaxDrafts
    /\ drafts' = Append(drafts, "pending")
    /\ gaps' = [gaps EXCEPT ![g].status = "in_draft", ![g].draft = Len(drafts) + 1]
    /\ UNCHANGED <<promoting, vain, forgotten, cutOff>>

\* decide, as rejectDraft and withdrawDraft call it: no gap hears of it.
Decides(d, from, to) ==
    /\ PanelIsFree
    /\ drafts[d] = from
    /\ drafts' = [drafts EXCEPT ![d] = to]
    /\ UNCHANGED <<gaps, vain, forgotten, cutOff>>

RejectDraft(d) == Decides(d, "pending", "rejected") /\ UNCHANGED promoting
WithdrawDraft(d) == Decides(d, "promoted", "withdrawn") /\ UNCHANGED promoting

\* promoteDraftEntry, first transaction: promoteDraft.
PromoteDraft(d) == Decides(d, "pending", "promoted") /\ promoting' = d

\* A fault: the gaps looked for are the open ones.
OpenGapsOf(d) == {g \in DOMAIN gaps : gaps[g].draft = d /\ gaps[g].status = "open"}

WaitingGapsOf(d) == {g \in DOMAIN gaps : gaps[g].draft = d /\ gaps[g].status = "in_draft"}

\* promoteDraftEntry, second transaction: resolveByDraft.
ResolveByDraft ==
    /\ promoting # NoDraft
    /\ gaps' = [g \in DOMAIN gaps |->
                   IF g \in WaitingGapsOf(promoting)
                   THEN [gaps[g] EXCEPT !.status = "resolved"] ELSE gaps[g]]
    /\ promoting' = NoDraft
    /\ UNCHANGED <<drafts, vain, forgotten, cutOff>>

\* The panel dies between the two.
PanelDies ==
    /\ promoting # NoDraft
    /\ cutOff' = cutOff \cup {promoting}
    /\ promoting' = NoDraft
    /\ UNCHANGED <<gaps, drafts, vain, forgotten>>

\* deleteRejectedDraft: the gaps let go of the draft, and keep their status.
DeleteRejectedDraft(d) ==
    /\ PanelIsFree
    /\ drafts[d] = "rejected"
    /\ drafts' = [drafts EXCEPT ![d] = "deleted"]
    /\ gaps' = [g \in DOMAIN gaps |->
                   IF gaps[g].draft = d THEN [gaps[g] EXCEPT !.draft = NoDraft] ELSE gaps[g]]
    /\ UNCHANGED <<promoting, vain, forgotten, cutOff>>

GapsNext ==
    \/ \E q \in Questions : RecordGap(q)
    \/ \E g \in DOMAIN gaps : StartDraft(g) \/ ReopenGap(g) \/ \E to \in Closed : SetGapStatus(g, to)
    \/ \E d \in DOMAIN drafts : \/ PromoteDraft(d) \/ RejectDraft(d) \/ WithdrawDraft(d)
                                \/ DeleteRejectedDraft(d)
    \/ ResolveByDraft \/ PanelDies \/ ForgetGaps

GapsSpec == GapsInit /\ [][GapsNext]_gapVars

-----------------------------------------------------------------------------
(***************************************************************************)
(* Properties.                                                             *)
(***************************************************************************)

\* Every variable keeps its type.
GapsTypeOK ==
    /\ \A g \in DOMAIN gaps : /\ gaps[g].question \in Questions
                              /\ gaps[g].status \in DOMAIN CanBecome
                              /\ gaps[g].evidence \in Nat \ {0}
                              /\ gaps[g].draft \in {NoDraft} \cup DOMAIN drafts
    /\ drafts \in Seq({"pending", "promoted", "rejected", "withdrawn", "deleted"})
    /\ promoting \in {NoDraft} \cup DOMAIN drafts
    /\ vain \in [Questions -> Nat] /\ forgotten \in [Questions -> Nat]
    /\ cutOff \subseteq DOMAIN drafts

(***************************************************************************)
(* A question has at most one open gap, however gaps are recorded, closed  *)
(* and reopened: the unique index ux_gaps_open_dedupe never refuses one of *)
(* these writes, and reopenGap need not handle it.                         *)
(***************************************************************************)
OneOpenGapPerQuestion == \A q \in Questions : Cardinality(OpenTwins(q)) <= 1

(***************************************************************************)
(* Every time a question was asked in vain is in the evidence of a gap of  *)
(* the question, or of a closed gap retention deleted: merging, reopening  *)
(* and drafting lose none.  (A gap may be merged twice, so the evidence    *)
(* may exceed what was asked.)                                             *)
(***************************************************************************)
NothingAskedIsLost == \A q \in Questions : Evidence(q) + forgotten[q] >= vain[q]

(***************************************************************************)
(* A gap does not wait for a draft that has been promoted (promoteDraft-   *)
(* Entry: "po promocji auto-resolve luk"), unless the panel died between   *)
(* the two transactions; withdrawing the draft afterwards changes nothing. *)
(***************************************************************************)
PromotedMeansResolved ==
    \A g \in {h \in DOMAIN gaps : gaps[h].status = "in_draft" /\ gaps[h].draft # NoDraft} :
        \/ gaps[g].draft \in cutOff \cup {promoting}
        \/ drafts[gaps[g].draft] \in {"pending", "rejected"}

=============================================================================
