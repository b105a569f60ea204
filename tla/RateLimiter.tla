----------------------------- MODULE RateLimiter ------------------------------
(***************************************************************************)
(* The sliding windows of the MCP server (mcp-server: rate-limit.ts and    *)
(* its callers in server.ts): a bucket per key, per key and costly tool,   *)
(* and per address of refused calls.  A batch costs as many units as it    *)
(* has messages.  The map of buckets is capped and forgets some.           *)
(*                                                                         *)
(* A hit is kept as what is left of its window, 0 when it is over; a       *)
(* bucket drops its old hits only when it is checked.  The clock does not  *)
(* go back.  All buckets have one limit here; each call is synchronous.    *)
(***************************************************************************)
EXTENDS Integers, FiniteSets, SequencesExt

CONSTANTS
    Buckets,
    Limit,         \* RATE_LIMIT_PER_MIN and the limits of tools
    Window,        \* windowMs
    MaxBuckets,    \* MAX_BUCKETS
    MaxCost        \* bound: messages in a batch

ASSUME RatesAssumption ==
    Limit \in Nat \ {0} /\ Window \in Nat \ {0} /\ MaxBuckets \in Nat \ {0} /\ MaxCost \in Nat

VARIABLES
    hits,          \* RateLimiter.buckets: of the buckets it holds
    letThrough       \* history: the units let through in the last window, since
                   \* the bucket was dropped as one of the least used

rateVars == <<hits, letThrough>>

RatesInit == hits = [b \in {} |-> <<>>] /\ letThrough = [b \in Buckets |-> <<>>]

\* How many hits the loop of `check` shifts out: up to the first in the window.
Expired(s) == CHOOSE k \in 0..Len(s) : /\ \A i \in 1..k : s[i] = 0
                                       /\ k < Len(s) => s[k + 1] > 0

InWindow(s) == SubSeq(s, Expired(s) + 1, Len(s))
Slid(s) == [i \in DOMAIN s |-> IF s[i] > 0 THEN s[i] - 1 ELSE 0]
Units(cost) == [i \in 1..cost |-> Window]

WindowSlides ==
    /\ hits' = [b \in DOMAIN hits |-> Slid(hits[b])]
    /\ letThrough' = [b \in Buckets |-> InWindow(Slid(letThrough[b]))]

-----------------------------------------------------------------------------
LastOf(b) == IF hits[b] = <<>> THEN 0 ELSE Last(hits[b])
OutOfWindow == {b \in DOMAIN hits : LastOf(b) = 0}

\* Fewest hits, whether in the window or not; then the oldest last one.
LeastUsed(S) ==
    LET fewest == {b \in S : \A c \in S : Len(hits[b]) <= Len(hits[c])}
    IN  {b \in fewest : \A c \in fewest : LastOf(b) <= LastOf(c)}

\* A fault: a full map is emptied, as it was before.
EvictedAll(b) ==
    IF b \in DOMAIN hits \/ Cardinality(DOMAIN hits) < MaxBuckets THEN {{}} ELSE {DOMAIN hits}

\* What `evict` may delete before bucket b is created.
Evicted(b) ==
    LET current == DOMAIN hits \ OutOfWindow
    IN  IF b \in DOMAIN hits \/ Cardinality(DOMAIN hits) < MaxBuckets THEN {{}}
        ELSE IF Cardinality(current) < MaxBuckets THEN {OutOfWindow}
        ELSE {OutOfWindow \cup {victim} : victim \in LeastUsed(current)}

\* A fault: a batch is let through whole when its first message is.
FitsInPart(s, cost) == Len(s) < Limit

Fits(s, cost) == Len(s) + cost <= Limit

\* A bucket in its window may be forgotten when no other has fewer hits.
MayForget(b) == \A c \in DOMAIN hits : Len(hits[b]) <= Len(hits[c])

CheckRate(b, cost) ==
    \E gone \in Evicted(b) :
        LET kept    == IF b \in DOMAIN hits THEN InWindow(hits[b]) ELSE <<>>
            fits    == Fits(kept, cost)
            forgets == {c \in gone : MayForget(c)}
        IN  /\ hits' = [c \in (DOMAIN hits \ gone) \cup {b} |->
                          IF c # b THEN hits[c] ELSE IF fits THEN kept \o Units(cost) ELSE kept]
            /\ letThrough' = [c \in Buckets |->
                              IF c = b /\ fits THEN letThrough[b] \o Units(cost)
                              ELSE IF c \in forgets THEN <<>> ELSE letThrough[c]]

\* The server restarts: every window is forgotten.
WindowsForgotten ==
    /\ hits' = [b \in {} |-> <<>>]
    /\ letThrough' = [b \in Buckets |-> <<>>]

RatesNext ==
    \/ WindowSlides \/ WindowsForgotten
    \/ \E b \in Buckets, cost \in 1..MaxCost : CheckRate(b, cost)

RatesSpec == RatesInit /\ [][RatesNext]_rateVars

-----------------------------------------------------------------------------
(***************************************************************************)
(* Properties.                                                             *)
(***************************************************************************)

\* Every variable keeps its type, and the map stays under its cap.
RatesTypeOK ==
    /\ DOMAIN hits \subseteq Buckets /\ Cardinality(DOMAIN hits) <= MaxBuckets
    /\ \A b \in DOMAIN hits : Range(hits[b]) \subseteq 0..Window
    /\ \A b \in Buckets : Range(letThrough[b]) \subseteq 1..Window

(***************************************************************************)
(* No window of a minute lets more through than the limit, batches         *)
(* counted by message, also when other buckets flood the map: only a       *)
(* bucket that nobody undercut may have been forgotten (check, evict).     *)
(***************************************************************************)
AllowanceHolds == \A b \in Buckets : Len(letThrough[b]) <= Limit

=============================================================================
