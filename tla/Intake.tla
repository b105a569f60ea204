------------------------------- MODULE Intake -------------------------------
(***************************************************************************)
(* From a submission to a draft: the intakes table and its worker          *)
(* (panel-api: services/intakes.ts, pipeline/intake-worker.ts,             *)
(* routes/content.ts).                                                     *)
(*                                                                         *)
(* One tick of the worker sweeps the rows that were left in the middle,    *)
(* then runs up to Concurrency intakes at a time through fetch, extraction,*)
(* cleaning and analysis, until the queue is empty.  A run is an async     *)
(* function: it writes a status after each await.  The deadline of         *)
(* processWithDeadline does not stop a run, it only stops waiting for it;  *)
(* the run goes on behind the worker's back (live = FALSE).                *)
(*                                                                         *)
(* The routes and the worker share one JavaScript process: code between    *)
(* two awaits is one action.  A content stands for the blob path, which is *)
(* the sha256 of the content.                                              *)
(***************************************************************************)
EXTENDS Integers, FiniteSets

CONSTANTS
    Intakes,       \* intake ids, numbered in the order of created_at
    Contents,      \* what is submitted
    SizeOf,        \* size_bytes of a content
    NoBlob,        \* blob_path is NULL: a URL that was not fetched yet
    Concurrency,   \* INTAKE_CONCURRENCY (2 in the code)
    MaxAttempts,   \* INTAKE_MAX_ATTEMPTS (3 in the code)
    Faults,        \* what may go wrong: a subset of AllFaults
    MaxRestarts    \* bound: restarts of the process

(***************************************************************************)
(* "throws": a stage may throw; "slow": a stage may outlast the deadline;  *)
(* "after_draft": createDraft commits, and what follows it throws or is    *)
(* cut off by the death of the process.                                    *)
(***************************************************************************)
AllFaults == {"throws", "slow", "after_draft"}

ASSUME IntakesAssumption == Intakes \subseteq Nat \ {0} /\ IsFiniteSet(Intakes)
ASSUME ContentsAssumption == SizeOf \in [Contents -> Nat \ {0}] /\ NoBlob \notin Contents
ASSUME WorkerAssumption ==
    /\ Concurrency \in Nat \ {0} /\ MaxAttempts \in Nat /\ MaxRestarts \in Nat
    /\ Faults \subseteq AllFaults

VARIABLES
    status, attempts, blob,  \* the intakes table
    aged,                    \* rows whose updated_at is older than two deadlines
    drafts,                  \* how many drafts were made from an intake
    runs,                    \* processIntake calls that have not ended
    restarts,
    disturbed                \* history: intakes a fault of AllFaults \ {"throws"} hit

rowVars == <<status, attempts, blob, aged>>
vars == <<rowVars, drafts, runs, restarts, disturbed>>

\* A fault: the sweep takes a drafted row for an interrupted one.
MidstageOrDrafted == {"extracted", "cleaned", "analyzed", "drafted"}

Midstage == {"extracted", "cleaned", "analyzed"}

Statuses == {"absent", "received", "drafted", "failed"} \cup Midstage
Stages   == {"fetch", "extract", "clean", "analyze"}

Live == {r \in runs : r.live}
Inflight(R) == {r.id : r \in {q \in R : q.live}}

Init ==
    /\ status = [i \in Intakes |-> "absent"]
    /\ attempts = [i \in Intakes |-> 0]
    /\ blob = [i \in Intakes |-> NoBlob]
    /\ aged = {}
    /\ drafts = [i \in Intakes |-> 0]
    /\ runs = {}
    /\ restarts = 0
    /\ disturbed = {}

\* updateIntake: every write renews updated_at.
Write(i, s) ==
    /\ status' = [status EXCEPT ![i] = s]
    /\ aged' = aged \ {i}

-----------------------------------------------------------------------------
(***************************************************************************)
(* The routes.                                                             *)
(***************************************************************************)
NextIntake(i) ==
    /\ status[i] = "absent"
    /\ \A j \in Intakes : j < i => status[j] # "absent"

Useful(i) == ~(status[i] = "failed" /\ attempts[i] >= MaxAttempts)

\* findIntakeByBlobPath: the newest intake of the content, if it is useful.
Deduplicated(c) ==
    \E i \in Intakes :
        /\ blob[i] = c
        /\ \A j \in Intakes : blob[j] = c => j <= i
        /\ Useful(i)

\* insertIntake, with a file or a text: only the blob path identifies it.
Submit(i, c) ==
    /\ NextIntake(i)
    /\ ~Deduplicated(c)
    /\ Write(i, "received")
    /\ blob' = [blob EXCEPT ![i] = c]
    /\ UNCHANGED <<attempts, drafts, runs, restarts, disturbed>>

\* A URL has no blob before the worker fetches it, so nothing is compared.
SubmitUrl(i) ==
    /\ NextIntake(i)
    /\ Write(i, "received")
    /\ UNCHANGED <<attempts, blob, drafts, runs, restarts, disturbed>>

RetryIntake(i) ==
    /\ status[i] = "failed"
    /\ attempts[i] < MaxAttempts
    /\ Write(i, "received")
    /\ attempts' = [attempts EXCEPT ![i] = @ + 1]
    /\ UNCHANGED <<blob, drafts, runs, restarts, disturbed>>

Routes == \E i \in Intakes :
    (\E c \in Contents : Submit(i, c)) \/ SubmitUrl(i) \/ RetryIntake(i)

-----------------------------------------------------------------------------
(***************************************************************************)
(* The queue.                                                              *)
(***************************************************************************)

\* ORDER BY (size_bytes IS NOT NULL), size_bytes, created_at.
Size(i) == IF blob[i] = NoBlob THEN 0 ELSE SizeOf[blob[i]]
Before(i, j) == Size(i) < Size(j) \/ (Size(i) = Size(j) /\ i < j)

\* A fault: the queue does not leave out the intakes in flight.
QueueOfAll(R) == {i \in Intakes : status'[i] = "received"}

Queue(R) == {i \in Intakes : status'[i] = "received" /\ i \notin Inflight(R)}

Free(R) == Concurrency - Cardinality(Inflight(R))

\* The while loop of the tick: nextReceivedIntake until the pool is full.
Takes(picked, R) ==
    /\ \/ Cardinality(picked) = Free(R)
       \/ Cardinality(picked) < Free(R) /\ picked = Queue(R)
    /\ \A i \in picked, j \in Queue(R) \ picked : Before(i, j)

\* A run of an attempt; twin tells it from a live run of the same row.
NewRun(i, R) == [id |-> i, try |-> attempts'[i], twin |-> i \in Inflight(R), live |-> TRUE,
                 stage |-> IF blob[i] = NoBlob THEN "fetch" ELSE "extract"]

\* R are the runs left; the worker fills its pool.
Refill(R) ==
    \E picked \in SUBSET Queue(R) :
        /\ Takes(picked, R)
        /\ runs' = R \cup {NewRun(i, R) : i \in picked}

\* A fault: the sweep requeues a row whatever its attempts.
NeverExhausted(i) == FALSE

Exhausted(i) == attempts[i] + 1 > MaxAttempts

\* A fault: what a restart interrupted is not looked for.
NothingIsStale(i) == FALSE

Stale(i) == i \in aged

\* requeueStaleIntakes, then the pool; ticks do not overlap.
Tick ==
    /\ Live = {}
    /\ status' = [i \in Intakes |-> IF ~Stale(i) THEN status[i]
                                    ELSE IF Exhausted(i) THEN "failed" ELSE "received"]
    /\ attempts' = [i \in Intakes |-> IF Stale(i) /\ ~Exhausted(i)
                                      THEN attempts[i] + 1 ELSE attempts[i]]
    /\ aged' = {i \in aged : ~Stale(i)}
    /\ Refill(runs)
    /\ UNCHANGED <<blob, drafts, restarts, disturbed>>

\* Twenty minutes without a write.
Age(i) ==
    /\ status[i] \in Midstage
    /\ i \notin Inflight(runs)
    /\ aged' = aged \cup {i}
    /\ UNCHANGED <<status, attempts, blob, drafts, runs, restarts, disturbed>>

-----------------------------------------------------------------------------
(***************************************************************************)
(* A run of processIntake, live or past its deadline.                      *)
(***************************************************************************)
Goes(r, stage) == runs' = (runs \ {r}) \cup {[r EXCEPT !.stage = stage]}

\* The end of a live run lets the tick go on; nobody waits for the others.
Ends(r) == IF r.live THEN Refill(runs \ {r}) ELSE runs' = runs \ {r}

\* updateIntakeFetch.
FetchUrl(r) ==
    /\ r.stage = "fetch"
    /\ \E c \in Contents : blob' = [blob EXCEPT ![r.id] = c]
    /\ Write(r.id, status[r.id])
    /\ Goes(r, "extract")
    /\ UNCHANGED <<attempts, drafts, restarts, disturbed>>

Extracted(r) ==
    /\ r.stage = "extract"
    /\ Write(r.id, "extracted")
    /\ Goes(r, "clean")
    /\ UNCHANGED <<attempts, blob, drafts, restarts, disturbed>>

Cleaned(r) ==
    /\ r.stage = "clean"
    /\ Write(r.id, "cleaned")
    /\ Goes(r, "analyze")
    /\ UNCHANGED <<attempts, blob, drafts, restarts, disturbed>>

\* A fault: the row is not marked `drafted`.
LeavesAnalyzed(i) == Write(i, "analyzed")

MarkDrafted(i) == Write(i, "drafted")

(***************************************************************************)
(* `analyzed` is written, read back by the guard of D7-05, and the draft   *)
(* created, without an await in between: the guard never sees another      *)
(* value.                                                                  *)
(***************************************************************************)
Drafted(r) ==
    /\ r.stage = "analyze"
    /\ drafts' = [drafts EXCEPT ![r.id] = @ + 1]
    /\ MarkDrafted(r.id)
    /\ UNCHANGED <<attempts, blob, restarts, disturbed>>
    /\ Ends(r)

\* runOne's catch: only a live run reaches it.
Throws(r) ==
    /\ "throws" \in Faults
    /\ IF r.live THEN Write(r.id, "failed") ELSE UNCHANGED <<status, aged>>
    /\ UNCHANGED <<attempts, blob, drafts, restarts, disturbed>>
    /\ Ends(r)

\* supersedeDraft or saveDraftSourceMeta throws, the draft is there.
ThrowsAfterDraft(r) ==
    /\ "after_draft" \in Faults
    /\ r.stage = "analyze"
    /\ drafts' = [drafts EXCEPT ![r.id] = @ + 1]
    /\ Write(r.id, IF r.live THEN "failed" ELSE "analyzed")
    /\ disturbed' = disturbed \cup {r.id}
    /\ UNCHANGED <<attempts, blob, restarts>>
    /\ Ends(r)

\* The timeout wins the race: the intake fails, its run goes on.
Deadline(r) ==
    /\ "slow" \in Faults
    /\ r.live
    /\ Write(r.id, "failed")
    /\ disturbed' = disturbed \cup {r.id}
    /\ UNCHANGED <<attempts, blob, drafts, restarts>>
    /\ Refill((runs \ {r}) \cup {[r EXCEPT !.live = FALSE]})

Advance(r) == FetchUrl(r) \/ Extracted(r) \/ Cleaned(r) \/ Drafted(r)

RunStep == \E r \in runs :
    Advance(r) \/ Throws(r) \/ ThrowsAfterDraft(r) \/ Deadline(r)

\* The process dies between two writes.
Restart ==
    /\ restarts < MaxRestarts
    /\ runs # {}
    /\ runs' = {}
    /\ restarts' = restarts + 1
    /\ UNCHANGED <<rowVars, drafts, disturbed>>

\* It dies between createDraft and `drafted`.
DiesAfterDraft ==
    /\ "after_draft" \in Faults
    /\ restarts < MaxRestarts
    /\ \E r \in runs :
        /\ r.stage = "analyze"
        /\ drafts' = [drafts EXCEPT ![r.id] = @ + 1]
        /\ Write(r.id, "analyzed")
        /\ disturbed' = disturbed \cup {r.id}
    /\ runs' = {}
    /\ restarts' = restarts + 1
    /\ UNCHANGED <<attempts, blob>>

-----------------------------------------------------------------------------
Next ==
    \/ Routes
    \/ Tick
    \/ \E i \in Intakes : Age(i)
    \/ RunStep
    \/ Restart
    \/ DiesAfterDraft

Spec == Init /\ [][Next]_vars

\* A live run goes on or is given up; time passes; the timer ticks.
LiveStep(i) == \E r \in Live : r.id = i /\ (Advance(r) \/ Throws(r) \/ Deadline(r))

FairSpec ==
    /\ Spec
    /\ WF_vars(Tick)
    /\ \A i \in Intakes : WF_vars(Age(i)) /\ WF_vars(LiveStep(i))

-----------------------------------------------------------------------------
(***************************************************************************)
(* Properties.                                                             *)
(***************************************************************************)
Run == [id : Intakes, try : Nat, twin : BOOLEAN, live : BOOLEAN, stage : Stages]

\* Every variable keeps its type; attempts stay within their limit.
TypeOK ==
    /\ status \in [Intakes -> Statuses]
    /\ attempts \in [Intakes -> 0..MaxAttempts]
    /\ blob \in [Intakes -> Contents \cup {NoBlob}]
    /\ aged \subseteq {i \in Intakes : status[i] \in Midstage}
    /\ drafts \in [Intakes -> Nat]
    /\ runs \subseteq Run
    /\ restarts \in Nat
    /\ disturbed \subseteq Intakes

(***************************************************************************)
(* A row is run by one at a time: whatever is retried, swept or late, the  *)
(* worker never waits for two runs of one intake, which would overwrite    *)
(* each other's stages and draft it twice (tickIntakeWorker).              *)
(***************************************************************************)
OneOwner == \A q, r \in Live : q.id = r.id => q = r

(***************************************************************************)
(* Two drafts of one intake have only two causes: a run that outlived its  *)
(* deadline, or one that stopped between createDraft and `drafted`.        *)
(* Failures, retries, restarts and sweeps make none (D7-05, D10-03).       *)
(***************************************************************************)
OneDraftPerIntake == \A i \in Intakes \ disturbed : drafts[i] <= 1

(***************************************************************************)
(* Neither the sweep nor a retry nor another run takes a drafted intake    *)
(* back to the queue, unless one of its runs was late or cut off.          *)
(***************************************************************************)
DraftedIsFinal ==
    [][\A i \in Intakes \ disturbed :
          status[i] = "drafted" => status'[i] = "drafted"]_vars

\* The status a run has written last, when no fault disturbed its row.
Reached(stage) ==
    CASE stage \in {"fetch", "extract"} -> "received"
      [] stage = "clean" -> "extracted"
      [] stage = "analyze" -> "cleaned"

(***************************************************************************)
(* The inductive invariant behind OneOwner, OneDraftPerIntake and          *)
(* DraftedIsFinal: a late run has disturbed its row; the row of another    *)
(* run is where the run left it; a row with a draft is `drafted`.          *)
(***************************************************************************)
OwnerInv ==
    /\ TypeOK
    /\ OneOwner
    /\ \A r \in runs : r.live \/ r.id \in disturbed
    /\ \A r \in runs : r.id \notin disturbed => status[r.id] = Reached(r.stage)
    /\ \A i \in Intakes \ disturbed :
          drafts[i] = 0 \/ (drafts[i] = 1 /\ status[i] = "drafted")

(***************************************************************************)
(* What is submitted is drafted or fails: no row stays in the queue or in  *)
(* the middle, whatever fails, is late, or dies a bounded number of times  *)
(* (requeueStaleIntakes, services/intakes.ts:256-266).                     *)
(***************************************************************************)
IntakeSettles ==
    \A i \in Intakes :
        status[i] \in {"received"} \cup Midstage ~> status[i] \in {"drafted", "failed"}

(***************************************************************************)
(* The worker makes no second draft of an intake ("drugi draft o tej samej *)
(* tresci bylby duplikatem. Sprawdzamy stan tuz przed zapisem",            *)
(* intake-worker.ts:264-266).                                              *)
(***************************************************************************)
NoSecondDraft == \A i \in Intakes : drafts[i] <= 1

=============================================================================
