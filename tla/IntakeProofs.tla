---------------------------- MODULE IntakeProofs ----------------------------
(***************************************************************************)
(* Theorems about Intake, for every set of intakes and contents, every     *)
(* pool size and every number of attempts and restarts.  OwnerInv is       *)
(* inductive; the rest follows from it.                                    *)
(***************************************************************************)
EXTENDS Intake, TLAPS

\* What a pool refill leaves: the runs given, and fresh ones for rows in the queue.
LEMMA Refilled ==
    ASSUME NEW R, Refill(R)
    PROVE  /\ R \subseteq runs'
           /\ \A r \in runs' \ R :
                \E i \in Intakes : /\ r = NewRun(i, R)
                                   /\ status'[i] = "received"
                                   /\ i \notin Inflight(R)
  BY DEF Refill, Queue

\* A refill keeps what OwnerInv says of the runs, if it held of those left.
LEMMA RefillKeepsRuns ==
    ASSUME NEW R, Refill(R), TypeOK,
           R \subseteq Run,
           attempts' \in [Intakes -> 0..MaxAttempts],
           \A q, r \in R : q.live /\ r.live /\ q.id = r.id => q = r,
           \A r \in R : r.live \/ r.id \in disturbed',
           \A r \in R : r.id \notin disturbed' => status'[r.id] = Reached(r.stage)
    PROVE  /\ runs' \subseteq Run
           /\ OneOwner'
           /\ \A r \in runs' : r.live \/ r.id \in disturbed'
           /\ \A r \in runs' : r.id \notin disturbed' => status'[r.id] = Reached(r.stage)
  <1>1. \A r \in runs' \ R : \E i \in Intakes :
            r = NewRun(i, R) /\ status'[i] = "received" /\ i \notin Inflight(R)
    BY Refilled
  <1>2. \A i \in Intakes : /\ NewRun(i, R) \in Run
                           /\ NewRun(i, R).id = i /\ NewRun(i, R).live
                           /\ Reached(NewRun(i, R).stage) = "received"
    BY WorkerAssumption DEF NewRun, Run, Stages, Reached
  <1>3. \A r \in R : r.live => r.id \in Inflight(R)
    BY DEF Inflight
  <1>4. runs' \subseteq Run
    BY <1>1, <1>2
  <1>5. OneOwner'
    <2> SUFFICES ASSUME NEW q \in runs', NEW r \in runs', q.live, r.live, q.id = r.id
                 PROVE  q = r
      BY DEF OneOwner, Live
    <2> QED BY <1>1, <1>2, <1>3
  <1>6. \A r \in runs' : r.live \/ r.id \in disturbed'
    BY <1>1, <1>2
  <1>7. \A r \in runs' : r.id \notin disturbed' => status'[r.id] = Reached(r.stage)
    BY <1>1, <1>2
  <1> QED BY <1>4, <1>5, <1>6, <1>7

LEMMA OwnerInit == Init => OwnerInv
  <1> SUFFICES ASSUME Init PROVE OwnerInv
    OBVIOUS
  <1> QED BY WorkerAssumption
          DEF Init, OwnerInv, TypeOK, OneOwner, Live, Statuses, Midstage

-----------------------------------------------------------------------------
(***************************************************************************)
(* One lemma per action.                                                   *)
(***************************************************************************)

\* What OwnerInv says of the rows and of their drafts.
DraftsKept == \A i \in Intakes \ disturbed :
                 drafts[i] = 0 \/ (drafts[i] = 1 /\ status[i] = "drafted")

\* No run is in a row that is absent, failed or drafted, unless it was disturbed.
LEMMA RunsAreInTheMiddle ==
    ASSUME OwnerInv, NEW r \in runs, r.id \notin disturbed
    PROVE  /\ r.id \in Intakes /\ r.live
           /\ status[r.id] \in {"received", "extracted", "cleaned"}
           /\ drafts[r.id] = 0
  BY DEF OwnerInv, TypeOK, Run, Stages, Reached

LEMMA SubmitKeeps ==
    ASSUME OwnerInv, NEW i \in Intakes, SubmitUrl(i) \/ \E c \in Contents : Submit(i, c)
    PROVE  OwnerInv'
  <1>1. /\ NextIntake(i) /\ Write(i, "received")
        /\ blob' \in [Intakes -> Contents \cup {NoBlob}]
        /\ UNCHANGED <<attempts, drafts, runs, restarts, disturbed>>
    BY DEF OwnerInv, TypeOK, SubmitUrl, Submit
  <1>2. TypeOK'
    BY <1>1 DEF OwnerInv, TypeOK, Write, NextIntake, Statuses, Midstage
  <1>3. \A r \in runs : r.id \notin disturbed => r.id # i
    BY <1>1, RunsAreInTheMiddle DEF NextIntake
  <1>4. \A r \in runs : r.id \notin disturbed => status'[r.id] = Reached(r.stage)
    BY <1>1, <1>3, RunsAreInTheMiddle DEF OwnerInv, TypeOK, Write
  <1>5. DraftsKept'
    BY <1>1 DEF OwnerInv, TypeOK, DraftsKept, Write, NextIntake
  <1> QED BY <1>1, <1>2, <1>4, <1>5 DEF OwnerInv, OneOwner, Live, DraftsKept

LEMMA RetryKeeps ==
    ASSUME OwnerInv, NEW i \in Intakes, RetryIntake(i)
    PROVE  OwnerInv'
  <1>1. TypeOK'
    BY WorkerAssumption
    DEF OwnerInv, TypeOK, RetryIntake, Write, Statuses, Midstage
  <1>2. \A r \in runs : r.id \notin disturbed => r.id # i
    BY RunsAreInTheMiddle DEF RetryIntake
  <1>3. \A r \in runs : r.id \notin disturbed => status'[r.id] = Reached(r.stage)
    BY <1>2, RunsAreInTheMiddle DEF OwnerInv, TypeOK, RetryIntake, Write
  <1>4. DraftsKept'
    BY DEF OwnerInv, TypeOK, RetryIntake, DraftsKept, Write
  <1> QED BY <1>1, <1>3, <1>4 DEF RetryIntake, OwnerInv, OneOwner, Live, DraftsKept

LEMMA TickKeeps ==
    ASSUME OwnerInv, Tick
    PROVE  OwnerInv'
  <1>1. attempts' \in [Intakes -> 0..MaxAttempts]
    BY WorkerAssumption DEF OwnerInv, TypeOK, Tick, Exhausted
  <1>2. \A r \in runs : r.id \in disturbed /\ ~r.live
    BY DEF OwnerInv, Tick, Live
  <1>3. /\ runs' \subseteq Run
        /\ OneOwner'
        /\ \A r \in runs' : r.live \/ r.id \in disturbed'
        /\ \A r \in runs' : r.id \notin disturbed' => status'[r.id] = Reached(r.stage)
    BY <1>1, <1>2, RefillKeepsRuns DEF OwnerInv, TypeOK, Tick
  <1>4. TypeOK'
    BY <1>1, <1>3 DEF OwnerInv, TypeOK, Tick, Stale, Statuses, Midstage
  <1>5. DraftsKept'
    BY DEF OwnerInv, TypeOK, DraftsKept, Tick, Stale, Midstage
  <1> QED BY <1>3, <1>4, <1>5 DEF OwnerInv, DraftsKept

LEMMA AgeKeeps ==
    ASSUME OwnerInv, NEW i \in Intakes, Age(i)
    PROVE  OwnerInv'
  BY DEF OwnerInv, TypeOK, OneOwner, Live, Age

\* A run that goes on to its next stage.
LEMMA StageKeeps ==
    ASSUME OwnerInv, NEW r \in runs, FetchUrl(r) \/ Extracted(r) \/ Cleaned(r)
    PROVE  OwnerInv'
  <1> DEFINE to == CASE r.stage = "fetch" -> "extract"
                     [] r.stage = "extract" -> "clean"
                     [] r.stage = "clean" -> "analyze"
             next == [r EXCEPT !.stage = to]
  <1>1. r \in Run /\ r.id \in Intakes /\ to \in Stages
    BY DEF OwnerInv, TypeOK, Run, Stages, FetchUrl, Extracted, Cleaned
  <1>2. next \in Run /\ next.id = r.id /\ next.live = r.live /\ next.stage = to
    BY <1>1 DEF Run
  <1>3. /\ runs' = (runs \ {r}) \cup {next}
        /\ UNCHANGED <<attempts, drafts, restarts, disturbed>>
        /\ blob' \in [Intakes -> Contents \cup {NoBlob}]
    BY <1>1 DEF OwnerInv, TypeOK, FetchUrl, Extracted, Cleaned, Goes
  <1> HIDE DEF next
  <1>4. /\ status' \in [Intakes -> Statuses]
        /\ aged' \subseteq {i \in Intakes : status'[i] \in Midstage}
        /\ \A i \in Intakes : i # r.id => status'[i] = status[i]
    BY <1>1 DEF OwnerInv, TypeOK, FetchUrl, Extracted, Cleaned, Write, Statuses, Midstage
  <1>5. r.id \notin disturbed => status'[r.id] = Reached(to)
    BY <1>1, RunsAreInTheMiddle
    DEF OwnerInv, TypeOK, FetchUrl, Extracted, Cleaned, Write, Reached
  <1>6. TypeOK'
    BY <1>2, <1>3, <1>4 DEF OwnerInv, TypeOK
  <1>7. OneOwner'
    <2> SUFFICES ASSUME NEW p \in runs', NEW q \in runs', p.live, q.live, p.id = q.id
                 PROVE  p = q
      BY DEF OneOwner, Live
    <2>1. \A s, t \in runs : s.live /\ t.live /\ s.id = t.id => s = t
      BY DEF OwnerInv, OneOwner, Live
    <2> QED BY <1>2, <1>3, <2>1
  <1>8. \A q \in runs' : q.live \/ q.id \in disturbed'
    BY <1>2, <1>3 DEF OwnerInv
  <1>9. \A q \in runs : q.id \notin disturbed /\ q # r => q.id # r.id
    BY RunsAreInTheMiddle DEF OwnerInv, OneOwner, Live
  <1>10. \A q \in runs' : q.id \notin disturbed' => status'[q.id] = Reached(q.stage)
    BY <1>2, <1>3, <1>4, <1>5, <1>9, RunsAreInTheMiddle DEF OwnerInv
  <1>11. DraftsKept'
    BY <1>3, <1>4, RunsAreInTheMiddle DEF OwnerInv, DraftsKept, TypeOK, Extracted, FetchUrl, Cleaned
  <1> QED BY <1>6, <1>7, <1>8, <1>10, <1>11 DEF OwnerInv, DraftsKept

\* The other rows of a run that ends keep their places.
LEMMA OthersKeep ==
    ASSUME OwnerInv, NEW r \in runs, NEW s, Write(r.id, s), NEW q \in runs, q # r,
           q.id \notin disturbed, r.live \/ q.id # r.id
    PROVE  status'[q.id] = Reached(q.stage)
  <1>1. q.live /\ status[q.id] = Reached(q.stage) /\ q.id \in Intakes
    BY RunsAreInTheMiddle DEF OwnerInv
  <1>2. q.id # r.id
    BY <1>1 DEF OwnerInv, OneOwner, Live
  <1> QED BY <1>1, <1>2 DEF OwnerInv, TypeOK, Write

\* A live run ends, or goes on behind the worker's back, and the pool is refilled.
LEMMA EndKeepsRuns ==
    ASSUME OwnerInv, NEW r \in runs, r.live, NEW s, Write(r.id, s),
           NEW R \in SUBSET Run, Refill(R),
           \A q \in R : \/ q \in runs /\ q # r
                        \/ q.id = r.id /\ ~q.live /\ q.id \in disturbed',
           UNCHANGED attempts, disturbed \subseteq disturbed'
    PROVE  /\ runs' \subseteq Run
           /\ OneOwner'
           /\ \A q \in runs' : q.live \/ q.id \in disturbed'
           /\ \A q \in runs' : q.id \notin disturbed' => status'[q.id] = Reached(q.stage)
  <1>1. attempts' \in [Intakes -> 0..MaxAttempts] /\ TypeOK
    BY DEF OwnerInv, TypeOK
  <1>2. \A p, q \in R : p.live /\ q.live /\ p.id = q.id => p = q
    BY DEF OwnerInv, OneOwner, Live
  <1>3. \A q \in R : q.live \/ q.id \in disturbed'
    BY DEF OwnerInv
  <1>4. \A q \in R : q.id \notin disturbed' => status'[q.id] = Reached(q.stage)
    BY OthersKeep
  <1> QED BY <1>1, <1>2, <1>3, <1>4, RefillKeepsRuns

\* A run past its deadline ends: its row was disturbed before.
LEMMA LateEndKeepsRuns ==
    ASSUME OwnerInv, NEW r \in runs, ~r.live, runs' = runs \ {r},
           \A i \in Intakes : i # r.id => status'[i] = status[i],
           disturbed \subseteq disturbed'
    PROVE  /\ runs' \subseteq Run
           /\ OneOwner'
           /\ \A q \in runs' : q.live \/ q.id \in disturbed'
           /\ \A q \in runs' : q.id \notin disturbed' => status'[q.id] = Reached(q.stage)
  <1>1. r.id \in disturbed
    BY DEF OwnerInv
  <1>2. \A q \in runs' : q.id \notin disturbed' => status'[q.id] = Reached(q.stage)
    BY <1>1, RunsAreInTheMiddle DEF OwnerInv
  <1> QED BY <1>2 DEF OwnerInv, TypeOK, OneOwner, Live

LEMMA DraftedKeeps ==
    ASSUME OwnerInv, NEW r \in runs, Drafted(r)
    PROVE  OwnerInv'
  <1>1. r \in Run /\ r.id \in Intakes
    BY DEF OwnerInv, TypeOK, Run
  <1>2. TypeOK' \/ ~(runs' \subseteq Run)
    BY <1>1 DEF OwnerInv, TypeOK, Drafted, MarkDrafted, Write, Statuses, Midstage
  <1>3. DraftsKept'
    BY <1>1, RunsAreInTheMiddle
    DEF OwnerInv, TypeOK, DraftsKept, Drafted, MarkDrafted, Write
  <1>4. /\ runs' \subseteq Run
        /\ OneOwner'
        /\ \A q \in runs' : q.live \/ q.id \in disturbed'
        /\ \A q \in runs' : q.id \notin disturbed' => status'[q.id] = Reached(q.stage)
    <2>1. CASE r.live
      <3>1. /\ Refill(runs \ {r}) /\ UNCHANGED attempts /\ disturbed \subseteq disturbed'
            /\ \E st : Write(r.id, st)
        BY <2>1 DEF Drafted, MarkDrafted, Ends
      <3>2. runs \ {r} \in SUBSET Run
        BY DEF OwnerInv, TypeOK
      <3> QED BY <2>1, <3>1, <3>2, EndKeepsRuns
    <2>2. CASE ~r.live
      BY <2>2, LateEndKeepsRuns DEF Drafted, MarkDrafted, Ends, Write, OwnerInv, TypeOK
    <2> QED BY <2>1, <2>2
  <1> QED BY <1>2, <1>3, <1>4 DEF OwnerInv, DraftsKept

LEMMA ThrowsKeeps ==
    ASSUME OwnerInv, NEW r \in runs, Throws(r)
    PROVE  OwnerInv'
  <1>1. r \in Run /\ r.id \in Intakes
    BY DEF OwnerInv, TypeOK, Run
  <1>2. TypeOK' \/ ~(runs' \subseteq Run)
    BY <1>1 DEF OwnerInv, TypeOK, Throws, Write, Statuses, Midstage
  <1>3. DraftsKept'
    BY <1>1, RunsAreInTheMiddle DEF OwnerInv, TypeOK, DraftsKept, Throws, Write
  <1>4. /\ runs' \subseteq Run
        /\ OneOwner'
        /\ \A q \in runs' : q.live \/ q.id \in disturbed'
        /\ \A q \in runs' : q.id \notin disturbed' => status'[q.id] = Reached(q.stage)
    <2>1. CASE r.live
      <3>1. /\ Refill(runs \ {r}) /\ UNCHANGED attempts /\ disturbed \subseteq disturbed'
            /\ \E st : Write(r.id, st)
        BY <2>1 DEF Throws, Ends
      <3>2. runs \ {r} \in SUBSET Run
        BY DEF OwnerInv, TypeOK
      <3> QED BY <2>1, <3>1, <3>2, EndKeepsRuns
    <2>2. CASE ~r.live
      BY <2>2, LateEndKeepsRuns DEF Throws, Ends
    <2> QED BY <2>1, <2>2
  <1> QED BY <1>2, <1>3, <1>4 DEF OwnerInv, DraftsKept

LEMMA ThrowsAfterDraftKeeps ==
    ASSUME OwnerInv, NEW r \in runs, ThrowsAfterDraft(r)
    PROVE  OwnerInv'
  <1>1. r \in Run /\ r.id \in Intakes
    BY DEF OwnerInv, TypeOK, Run
  <1>2. TypeOK' \/ ~(runs' \subseteq Run)
    BY <1>1 DEF OwnerInv, TypeOK, ThrowsAfterDraft, Write, Statuses, Midstage
  <1>3. DraftsKept'
    BY <1>1 DEF OwnerInv, TypeOK, DraftsKept, ThrowsAfterDraft, Write
  <1>4. /\ runs' \subseteq Run
        /\ OneOwner'
        /\ \A q \in runs' : q.live \/ q.id \in disturbed'
        /\ \A q \in runs' : q.id \notin disturbed' => status'[q.id] = Reached(q.stage)
    <2>1. CASE r.live
      <3>1. /\ Refill(runs \ {r}) /\ UNCHANGED attempts /\ disturbed \subseteq disturbed'
            /\ \E st : Write(r.id, st)
        BY <2>1 DEF ThrowsAfterDraft, Ends
      <3>2. runs \ {r} \in SUBSET Run
        BY DEF OwnerInv, TypeOK
      <3> QED BY <2>1, <3>1, <3>2, EndKeepsRuns
    <2>2. CASE ~r.live
      BY <2>2, LateEndKeepsRuns DEF ThrowsAfterDraft, Ends, Write, OwnerInv, TypeOK
    <2> QED BY <2>1, <2>2
  <1> QED BY <1>2, <1>3, <1>4 DEF OwnerInv, DraftsKept

LEMMA DeadlineKeeps ==
    ASSUME OwnerInv, NEW r \in runs, Deadline(r)
    PROVE  OwnerInv'
  <1> DEFINE late == [r EXCEPT !.live = FALSE]
  <1>1. r \in Run /\ r.id \in Intakes
    BY DEF OwnerInv, TypeOK, Run
  <1>2. late \in Run /\ late.id = r.id /\ ~late.live
    BY <1>1 DEF Run
  <1>3. TypeOK' \/ ~(runs' \subseteq Run)
    BY <1>1 DEF OwnerInv, TypeOK, Deadline, Write, Statuses, Midstage
  <1>4. DraftsKept'
    BY <1>1 DEF OwnerInv, TypeOK, DraftsKept, Deadline, Write
  <1>5. /\ Refill((runs \ {r}) \cup {late}) /\ UNCHANGED attempts
        /\ disturbed' = disturbed \cup {r.id} /\ r.live /\ Write(r.id, "failed")
        /\ (runs \ {r}) \cup {late} \in SUBSET Run
    BY <1>2 DEF Deadline, OwnerInv, TypeOK
  <1> HIDE DEF late
  <1>6. /\ runs' \subseteq Run
        /\ OneOwner'
        /\ \A q \in runs' : q.live \/ q.id \in disturbed'
        /\ \A q \in runs' : q.id \notin disturbed' => status'[q.id] = Reached(q.stage)
    BY <1>2, <1>5, EndKeepsRuns
  <1> QED BY <1>3, <1>4, <1>6 DEF OwnerInv, DraftsKept

LEMMA DeathKeeps ==
    ASSUME OwnerInv, Restart \/ DiesAfterDraft
    PROVE  OwnerInv'
  <1>1. CASE Restart
    BY <1>1, WorkerAssumption DEF OwnerInv, TypeOK, OneOwner, Live, Restart, rowVars
  <1>2. CASE DiesAfterDraft
    <2>1. PICK r \in runs : /\ drafts' = [drafts EXCEPT ![r.id] = @ + 1]
                            /\ Write(r.id, "analyzed")
                            /\ disturbed' = disturbed \cup {r.id}
      BY <1>2 DEF DiesAfterDraft
    <2>2. r.id \in Intakes
      BY DEF OwnerInv, TypeOK, Run
    <2>3. TypeOK'
      BY <1>2, <2>1, <2>2 DEF OwnerInv, TypeOK, DiesAfterDraft, Write, Statuses, Midstage
    <2>4. DraftsKept'
      BY <2>1, <2>2 DEF OwnerInv, TypeOK, DraftsKept, Write
    <2> QED BY <1>2, <2>3, <2>4 DEF OwnerInv, OneOwner, Live, DiesAfterDraft, DraftsKept
  <1> QED BY <1>1, <1>2

LEMMA OwnerNext ==
    ASSUME OwnerInv, [Next]_vars
    PROVE  OwnerInv'
  <1>1. CASE UNCHANGED vars
    BY <1>1 DEF OwnerInv, TypeOK, OneOwner, Live, vars, rowVars
  <1>2. CASE Routes
    BY <1>2, SubmitKeeps, RetryKeeps DEF Routes
  <1>3. CASE Tick
    BY <1>3, TickKeeps
  <1>4. CASE \E i \in Intakes : Age(i)
    BY <1>4, AgeKeeps
  <1>5. CASE RunStep
    BY <1>5, StageKeeps, DraftedKeeps, ThrowsKeeps, ThrowsAfterDraftKeeps, DeadlineKeeps
    DEF RunStep, Advance
  <1>6. CASE Restart \/ DiesAfterDraft
    BY <1>6, DeathKeeps
  <1> QED BY <1>1, <1>2, <1>3, <1>4, <1>5, <1>6 DEF Next

-----------------------------------------------------------------------------
(***************************************************************************)
(* The inductive invariant holds in every state of the worker.             *)
(***************************************************************************)
THEOREM OwnerInvariant == Spec => []OwnerInv
  <1>1. Init => OwnerInv
    BY OwnerInit
  <1>2. OwnerInv /\ [Next]_vars => OwnerInv'
    BY OwnerNext
  <1> QED BY <1>1, <1>2, PTL DEF Spec

(***************************************************************************)
(* The rows and the runs keep their types, and no intake is attempted more *)
(* often than INTAKE_MAX_ATTEMPTS allows.                                  *)
(***************************************************************************)
THEOREM IntakeTypeCorrect == Spec => []TypeOK
  <1>1. OwnerInv => TypeOK
    BY DEF OwnerInv
  <1> QED BY <1>1, OwnerInvariant, PTL

(***************************************************************************)
(* The worker never waits for two runs of one intake.                      *)
(***************************************************************************)
THEOREM OneRunAtATime == Spec => []OneOwner
  <1>1. OwnerInv => OneOwner
    BY DEF OwnerInv
  <1> QED BY <1>1, OwnerInvariant, PTL

(***************************************************************************)
(* An intake is drafted once, unless a run of it was late or was cut off   *)
(* after createDraft (D7-05).                                              *)
(***************************************************************************)
THEOREM DraftedOnce == Spec => []OneDraftPerIntake
  <1>1. OwnerInv => OneDraftPerIntake
    BY DEF OwnerInv, TypeOK, OneDraftPerIntake
  <1> QED BY <1>1, OwnerInvariant, PTL

(***************************************************************************)
(* A drafted intake stays drafted: the sweep takes only rows that stopped  *)
(* midway, a retry only failed ones, and the only run of an undisturbed    *)
(* row is the one that is not past it.                                     *)
(***************************************************************************)
THEOREM DraftedStays == Spec => DraftedIsFinal
  <1> DEFINE A == \A i \in Intakes \ disturbed :
                     status[i] = "drafted" => status'[i] = "drafted"
  <1>1. ASSUME OwnerInv, [Next]_vars PROVE A
    <2> SUFFICES ASSUME NEW i \in Intakes, i \notin disturbed, status[i] = "drafted"
                 PROVE  status'[i] = "drafted"
      OBVIOUS
    <2>1. \A r \in runs : r.id # i
      BY <1>1, RunsAreInTheMiddle
    <2>2. status \in [Intakes -> Statuses] /\ i \notin aged /\ runs \subseteq Run
      BY <1>1 DEF OwnerInv, TypeOK, Midstage
    <2>3. CASE UNCHANGED vars
      BY <2>3 DEF vars, rowVars
    <2>4. CASE Routes
      BY <2>2, <2>4 DEF Routes, Submit, SubmitUrl, RetryIntake, NextIntake, Write
    <2>5. CASE Tick
      BY <2>2, <2>5 DEF Tick, Stale
    <2>6. CASE \E j \in Intakes : Age(j)
      BY <2>6 DEF Age
    <2>7. CASE RunStep
      <3>1. PICK r \in runs : \/ Advance(r) \/ Throws(r)
                              \/ ThrowsAfterDraft(r) \/ Deadline(r)
        BY <2>7 DEF RunStep
      <3>2. (\E s : Write(r.id, s)) \/ UNCHANGED status
        BY <3>1 DEF Advance, FetchUrl, Extracted, Cleaned, Drafted, MarkDrafted, Throws,
                    ThrowsAfterDraft, Deadline
      <3> QED BY <2>1, <2>2, <3>2 DEF Write
    <2>8. CASE Restart
      BY <2>8 DEF Restart, rowVars
    <2>9. CASE DiesAfterDraft
      BY <2>1, <2>2, <2>9 DEF DiesAfterDraft, Write
    <2> QED BY <1>1, <2>3, <2>4, <2>5, <2>6, <2>7, <2>8, <2>9 DEF Next
  <1>2. OwnerInv /\ [Next]_vars => [A]_vars
    BY <1>1
  <1> QED BY <1>2, OwnerInvariant, PTL DEF Spec, DraftedIsFinal

=============================================================================
