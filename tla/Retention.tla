----------------------------- MODULE Retention ------------------------------
(***************************************************************************)
(* The originals of the intakes and the retention that deletes them        *)
(* (panel-api: services/retention.ts, services/intakes.ts,                 *)
(* routes/content.ts, pipeline/intake-worker.ts).                          *)
(*                                                                         *)
(* An original lies under its sha256, so intakes of one content share one  *)
(* file: an upload is compared with the newest intake of the file, a URL   *)
(* is not compared at all.  A retention run is synchronous; the panel may  *)
(* die in it, and an unlink may fail.  Ages are in days.  What the stages  *)
(* of an intake do is in module Intake; here only who needs the file.      *)
(***************************************************************************)
EXTENDS Integers, FiniteSets

CONSTANTS
    Rows,          \* intake ids, numbered in the order of created_at
    Originals,     \* contents, each the name of its file
    NoFile,        \* blob_path is NULL
    MaxTries,      \* INTAKE_MAX_ATTEMPTS
    FailedDays, DraftedDays, RowDays,   \* the policy
    MaxAge         \* bound: ages are not told apart beyond it

ASSUME RetentionAssumption ==
    /\ Rows \subseteq Nat /\ NoFile \notin Originals /\ MaxTries \in Nat
    /\ MaxAge \in Nat /\ {FailedDays, DraftedDays, RowDays} \subseteq 1..MaxAge

VARIABLES
    row,        \* the intakes table
    files,      \* the files under uploads/
    torn,       \* history: files a death of the panel parted from their row
    runDone     \* history: the last step was a retention run that ended

retentionVars == <<row, files, torn, runDone>>

Absent == [status |-> "absent", url |-> FALSE, blob |-> NoFile, tries |-> 0, age |-> 0]

RetentionInit ==
    /\ row = [i \in Rows |-> Absent]
    /\ files = {} /\ torn = {}
    /\ runDone = FALSE

Terminal == {"drafted", "failed"}
AtWork   == {"received", "midstage"}

Naming(c) == {i \in Rows : row[i].blob = c}

NextRow(i) ==
    /\ row[i].status = "absent"
    /\ \A j \in Rows : j < i => row[j].status # "absent"

Writes(i, r) ==
    /\ row' = [row EXCEPT ![i] = [r EXCEPT !.age = 0]]
    /\ runDone' = FALSE

Keeps == UNCHANGED <<files, torn>>

-----------------------------------------------------------------------------
(***************************************************************************)
(* Intakes.                                                                *)
(***************************************************************************)

\* findIntakeByBlobPath: the newest intake of the file, if it is not dead.
FindsUseful(c) ==
    \E i \in Naming(c) :
        /\ \A j \in Naming(c) : j <= i
        /\ ~(row[i].status = "failed" /\ row[i].tries >= MaxTries)

SaveBlob(c) ==
    /\ files' = files \cup {c}
    /\ torn' = torn \ {c}

\* POST /content with a file or a text: saveBlob, then insertIntake.
Upload(i, c) ==
    /\ NextRow(i)
    /\ SaveBlob(c)
    /\ IF FindsUseful(c)
       THEN UNCHANGED row /\ runDone' = FALSE
       ELSE Writes(i, [Absent EXCEPT !.status = "received", !.blob = c])

\* The panel dies between the two.
UploadDies(c) ==
    /\ files' = files \cup {c}
    /\ torn' = IF Naming(c) = {} THEN torn \cup {c} ELSE torn \ {c}
    /\ runDone' = FALSE
    /\ UNCHANGED row

\* POST /content with a URL.
GiveUrl(i) ==
    /\ NextRow(i)
    /\ Writes(i, [Absent EXCEPT !.status = "received", !.url = TRUE])
    /\ Keeps

\* processIntake, the fetch: saveBlob, updateIntakeFetch.
Fetch(i, c) ==
    /\ row[i].status = "received" /\ row[i].url /\ row[i].blob = NoFile
    /\ Writes(i, [row[i] EXCEPT !.blob = c])
    /\ SaveBlob(c)

\* processIntake, extraction: the file is read, and is not needed after.
Extract(i) ==
    /\ row[i].status = "received" /\ row[i].blob \in files
    /\ Writes(i, [row[i] EXCEPT !.status = "midstage"])
    /\ Keeps

Draft(i) ==
    /\ row[i].status = "midstage"
    /\ Writes(i, [row[i] EXCEPT !.status = "drafted"])
    /\ Keeps

\* A stage throws: also the read of a file that is not there.
Fail(i) ==
    /\ row[i].status \in AtWork
    /\ Writes(i, [row[i] EXCEPT !.status = "failed"])
    /\ Keeps

\* retryIntake, and requeueStaleIntakes after a restart
Requeue(i) ==
    /\ row[i].status \in {"failed", "midstage"} /\ row[i].tries < MaxTries
    /\ Writes(i, [row[i] EXCEPT !.status = "received", !.tries = @ + 1])
    /\ Keeps

\* Only rows nobody works on grow old: the worker is awake.
DayPasses ==
    /\ \A i \in Rows : row[i].status \notin AtWork
    /\ \E i \in Rows : row[i].status \in Terminal /\ row[i].age < MaxAge
    /\ row' = [i \in Rows |-> IF row[i].status \in Terminal /\ row[i].age < MaxAge
                              THEN [row[i] EXCEPT !.age = @ + 1] ELSE row[i]]
    /\ runDone' = FALSE
    /\ Keeps

-----------------------------------------------------------------------------
(***************************************************************************)
(* runRetention.                                                           *)
(***************************************************************************)

Outlived(i) ==
    \/ row[i].status = "failed"  /\ row[i].age >= FailedDays
    \/ row[i].status = "drafted" /\ row[i].age >= DraftedDays

\* A fault: nobody asks whether another intake names the file.
PurgeableAnyway == {i \in Rows : Outlived(i) /\ row[i].blob # NoFile}

\* purgeIntakeBlobs, for both statuses
Purgeable == {i \in Rows : Outlived(i) /\ row[i].blob # NoFile /\ Naming(row[i].blob) = {i}}

BlobsOf(P) == {row[i].blob : i \in P}

Cleared(P) == [i \in Rows |-> IF i \in P THEN [row[i] EXCEPT !.blob = NoFile] ELSE row[i]]

\* A fault: a row goes without a look at its file.
ForgettableAnyway(r) == {i \in Rows : r[i].status \in Terminal /\ r[i].age >= RowDays}

\* purgeRows: rows whose file is gone
Forgettable(r) ==
    {i \in Rows : r[i].status \in Terminal /\ r[i].age >= RowDays /\ r[i].blob = NoFile}

\* An unlink that throws leaves the file and the row for the next run.
RunRetention(failing) ==
    /\ failing \subseteq Purgeable
    /\ LET purged == Purgeable \ failing
       IN  /\ files' = files \ BlobsOf(purged)
           /\ row' = [i \in Rows |-> IF i \in Forgettable(Cleared(purged))
                                     THEN [Absent EXCEPT !.status = "deleted"]
                                     ELSE Cleared(purged)[i]]
    /\ runDone' = (failing = {})
    /\ UNCHANGED torn

\* The panel dies between the unlink of i's file and the update of its row.
RetentionDies(done, i) ==
    /\ done \subseteq Purgeable /\ i \in Purgeable \ done
    /\ files' = files \ BlobsOf(done \cup {i})
    /\ torn' = torn \cup {row[i].blob}
    /\ row' = Cleared(done)
    /\ runDone' = FALSE

RetentionNext ==
    \/ \E i \in Rows : \/ GiveUrl(i) \/ Extract(i) \/ Draft(i) \/ Fail(i) \/ Requeue(i)
                       \/ \E c \in Originals : Upload(i, c) \/ Fetch(i, c)
    \/ DayPasses
    \/ \E c \in Originals : UploadDies(c)
    \/ \E failing \in SUBSET Rows : RunRetention(failing)
    \/ \E done \in SUBSET Rows, i \in Rows : RetentionDies(done, i)

RetentionSpec == RetentionInit /\ [][RetentionNext]_retentionVars

-----------------------------------------------------------------------------
(***************************************************************************)
(* Properties.                                                             *)
(***************************************************************************)

\* Every variable keeps its type.
RetentionTypeOK ==
    /\ \A i \in Rows : /\ row[i].status \in {"absent", "deleted"} \cup AtWork \cup Terminal
                       /\ row[i].blob \in Originals \cup {NoFile}
                       /\ row[i].tries \in 0..MaxTries /\ row[i].age \in 0..MaxAge
    /\ files \subseteq Originals /\ torn \subseteq Originals

(***************************************************************************)
(* The file an intake names is there for whoever still has to read it, and *)
(* for its retry, until the intake itself is purged: purging one intake    *)
(* never takes the file of another that shares it.  Only a run that died   *)
(* between the unlink and the update leaves a name without a file, until   *)
(* the same content is saved again.                                        *)
(***************************************************************************)
NamedFilesExist ==
    \A i \in Rows : row[i].blob \in files \cup torn \cup {NoFile}

(***************************************************************************)
(* Every file is named by an intake ("inaczej zostawilibyśmy plik-sierotę  *)
(* bez żadnego wskaźnika", purgeRows): no order of uploads, fetches,       *)
(* purges and failed unlinks leaves a file nothing will delete; only the   *)
(* death of the panel between saveBlob and insertIntake does.              *)
(***************************************************************************)
EveryFileIsNamed == \A c \in files \ torn : Naming(c) # {}

(***************************************************************************)
(* After a run whose unlinks succeed no original outlives the terms of all *)
(* the intakes that name it ("succeededIntakeBlobsDays 30 oryginały UDANYCH*)
(* intake'ów", retention.ts:28).                                           *)
(***************************************************************************)
OriginalsGoInTime ==
    runDone => \A i \in Rows :
        Outlived(i) /\ row[i].blob # NoFile => \E j \in Naming(row[i].blob) : ~Outlived(j)

=============================================================================
