------------------------------ MODULE Breaker -------------------------------
(***************************************************************************)
(* The circuit breaker of the calls to the language models and to OpenSPG  *)
(* (packages/shared/src/llm/breaker.ts): one row of the breakers table,    *)
(* shared by the panel, its children and the MCP server.                   *)
(*                                                                         *)
(* Deciding on a call, recording its success and recording its failure are *)
(* one transaction each; calls of several processes overlap in any way.    *)
(* Times are relative: what is left until retry_after, and until the       *)
(* deadline a probe was given.  A row that does not exist yet is admitted  *)
(* as a closed one without failures, which the admission inserts.          *)
(***************************************************************************)
EXTENDS Integers, FiniteSets

CONSTANTS
    Callers,     \* calls that may be under way together
    Threshold,   \* consecutive failures that open the breaker
    Base,        \* baseCooldownMs: the first cooldown, and a probe's deadline
    Longest,     \* maxCooldownMs
    Cap          \* bound: failures are counted up to it

Least(m, n) == IF m < n THEN m ELSE n

Doublings(f) == Least(30, IF f > Threshold THEN f - Threshold ELSE 0)

\* cooldownMs
Cooldown(f) == Least(Longest, Base * 2 ^ Doublings(f))

ASSUME BreakerAssumption ==
    /\ Threshold \in Nat \ {0}
    /\ Base \in Nat \ {0}
    /\ Longest \in Nat /\ Longest >= Base
    /\ Cap \in Nat /\ Cap >= Threshold /\ Cooldown(Cap) = Longest

\* What the proofs use of the powers of two.
ASSUME PowersAssumption ==
    /\ \A n \in 0..30 : 2 ^ n \in Nat \ {0}
    /\ \A n \in 0..29 : 2 ^ (n + 1) = 2 * 2 ^ n

VARIABLES
    state, failures,   \* the row: closed, open or half_open; failure_count
    wait,              \* until retry_after
    calling,           \* calls under way
    left,              \* until the deadline of a call admitted as a probe
    backoff            \* history: the last cooldown since the breaker closed

breakerVars == <<state, failures, wait, calling, left, backoff>>

BreakerInit ==
    /\ state = "closed"
    /\ failures = 0
    /\ wait = 0
    /\ calling = {}
    /\ left = [c \in Callers |-> 0]
    /\ backoff = 0

-----------------------------------------------------------------------------
(***************************************************************************)
(* Admitting a call.                                                       *)
(***************************************************************************)

\* The fast path, and the row that is closed when it is read again.
AdmitClosed(c) ==
    /\ c \notin calling
    /\ state = "closed"
    /\ calling' = calling \cup {c}
    /\ UNCHANGED <<state, failures, wait, left, backoff>>

\* A fault: a probe keeps others out for good.
WhenOpen == state = "open" /\ wait = 0

\* retry_after has passed, of the cooldown or of the probe before.
MayProbe == state # "closed" /\ wait = 0

\* A fault: the probe has no deadline of its own.
NoDeadline == wait

ProbeDeadline == Base

\* open or half_open becomes half_open, for this one probe.
AdmitProbe(c) ==
    /\ c \notin calling
    /\ MayProbe
    /\ state' = "half_open"
    /\ wait' = ProbeDeadline
    /\ calling' = calling \cup {c}
    /\ left' = [left EXCEPT ![c] = Base]
    /\ UNCHANGED <<failures, backoff>>

-----------------------------------------------------------------------------
(***************************************************************************)
(* Recording how it ended.                                                 *)
(***************************************************************************)
CloseRow ==
    /\ state' = "closed"
    /\ failures' = 0
    /\ wait' = 0
    /\ backoff' = 0

Returns(c) ==
    /\ c \in calling
    /\ calling' = calling \ {c}
    /\ left' = [left EXCEPT ![c] = 0]

\* recordSuccess: any call's, whenever it was admitted.
Succeeds(c) == Returns(c) /\ CloseRow

Counted == Least(Cap, failures + 1)

\* A fault: an opening starts the count again.
OpenRowAfresh ==
    /\ state' = "open"
    /\ failures' = Threshold
    /\ wait' = Cooldown(Counted)
    /\ backoff' = Cooldown(Counted)

OpenRow ==
    /\ state' = "open"
    /\ failures' = Counted
    /\ wait' = Cooldown(Counted)
    /\ backoff' = Cooldown(Counted)

\* A failure below the threshold, or a late one of a call admitted before
\* the breaker opened.
OnlyCounts == state = "open" \/ (state = "closed" /\ Counted < Threshold)

\* recordFailure
Fails(c) ==
    /\ Returns(c)
    /\ IF OnlyCounts
       THEN failures' = Counted /\ UNCHANGED <<state, wait, backoff>>
       ELSE OpenRow

\* The process dies during the call.
Dies(c) ==
    /\ Returns(c)
    /\ UNCHANGED <<state, failures, wait, backoff>>

-----------------------------------------------------------------------------
\* resetBreaker, the operator's button.
Reset ==
    /\ CloseRow
    /\ UNCHANGED <<calling, left>>

Less(n) == IF n > 0 THEN n - 1 ELSE 0

\* Time passes.
Tick ==
    /\ wait > 0 \/ \E c \in Callers : left[c] > 0
    /\ wait' = Less(wait)
    /\ left' = [c \in Callers |-> Less(left[c])]
    /\ UNCHANGED <<state, failures, calling, backoff>>

Admit(c) == AdmitClosed(c) \/ AdmitProbe(c)
Ends(c)  == Succeeds(c) \/ Fails(c) \/ Dies(c)

BreakerNext == (\E c \in Callers : Admit(c) \/ Ends(c)) \/ Reset \/ Tick

BreakerSpec == BreakerInit /\ [][BreakerNext]_breakerVars

\* Time passes, and every call has a timeout.
BreakerFairness ==
    /\ WF_breakerVars(Tick)
    /\ \A c \in Callers : WF_breakerVars(Ends(c))

-----------------------------------------------------------------------------
(***************************************************************************)
(* Properties.                                                             *)
(***************************************************************************)

\* Every variable keeps its type.
BreakerTypeOK ==
    /\ state \in {"closed", "open", "half_open"}
    /\ failures \in 0..Cap
    /\ wait \in Nat /\ backoff \in Nat
    /\ calling \subseteq Callers
    /\ left \in [Callers -> 0..Base]

(***************************************************************************)
(* One probe at a time: of the calls admitted as probes at most one is     *)
(* within its deadline, also when late answers of older calls and the      *)
(* operator close the breaker and failures open it again meanwhile         *)
(* ("przepuszcza JEDNĄ sondę", breaker.ts:12).                             *)
(***************************************************************************)
OneProbeAtATime ==
    \A c, d \in Callers : left[c] > 0 /\ left[d] > 0 => c = d

(***************************************************************************)
(* Each opening since the breaker was last closed waits at least twice as  *)
(* long as the one before, up to maxCooldownMs (cooldownMs).  Late         *)
(* failures, which count while it is open, may make it longer.             *)
(***************************************************************************)
BackoffDoubles ==
    [][state = "half_open" /\ state' = "open"
          => wait' >= Least(Longest, 2 * backoff)]_breakerVars

(***************************************************************************)
(* It never stays open for good ("żadnego wiecznego open", breaker.ts:14): *)
(* again and again it is closed or has a probe within its deadline, also   *)
(* when the process of a probe dies.                                       *)
(***************************************************************************)
NeverStuck == []<>(state = "closed" \/ \E c \in Callers : left[c] > 0)

(***************************************************************************)
(* The inductive invariant behind the first two: unless the breaker is     *)
(* closed, retry_after is not before the deadline of any probe, the        *)
(* threshold has been reached, and the last cooldown was no longer than    *)
(* the one the failures counted now would give.                            *)
(***************************************************************************)
BreakerInv ==
    /\ BreakerTypeOK
    /\ OneProbeAtATime
    /\ \A c \in Callers : left[c] > 0 => c \in calling
    /\ state # "closed" =>
        /\ failures >= Threshold
        /\ \A c \in Callers : left[c] <= wait
        /\ backoff <= Cooldown(failures)

=============================================================================
