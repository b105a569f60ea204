--------------------------- MODULE ServicesProofs ---------------------------
(***************************************************************************)
(* What is kept, for any files, terms and days: retention spares the files *)
(* rows name and leaves none that no row names, and every month keeps a    *)
(* snapshot. With what AccessProofs and KnowledgeProofs show, the types of *)
(* all the services.                                                       *)
(***************************************************************************)
EXTENDS MCServices, AccessProofs, KnowledgeProofs

(***************************************************************************)
(* The originals.  A row that is not there names no file; a file is named, *)
(* and a name has its file, but for what a death of the panel parted.      *)
(***************************************************************************)
WorkRow == [status : AtWork \cup Terminal, url : BOOLEAN, blob : Originals \cup {NoFile},
            tries : Int, age : Int]

\* Any row, there or not.
IntakeRow == [status : {"absent", "deleted"} \cup AtWork \cup Terminal, url : BOOLEAN,
              blob : Originals \cup {NoFile}, tries : Int, age : Int]

\* The inductive invariant of the files.
FilesInv ==
    /\ row \in [Rows -> IntakeRow]
    /\ \A i \in Rows : row[i].status \in {"absent", "deleted"} => row[i].blob = NoFile
    /\ files \subseteq Originals
    /\ NamedFilesExist /\ EveryFileIsNamed

\* There is neither row nor file at the start.
LEMMA FilesInitially == RetentionInit => FilesInv
BY DEF RetentionInit, FilesInv, NamedFilesExist, EveryFileIsNamed, Absent, IntakeRow,
    AtWork, Terminal

\* The row that is not there.
LEMMA AbsentIsRow == Absent \in IntakeRow /\ Absent.blob = NoFile
BY DEF Absent, IntakeRow

\* What the routes and a retry write into a row.
LEMMA UrlRow ==
    ASSUME NEW a \in IntakeRow
    PROVE  LET r == [a EXCEPT !.status = "received", !.url = TRUE]
           IN  r \in WorkRow /\ r.blob = a.blob
<1> DEFINE r == [a EXCEPT !.status = "received", !.url = TRUE]
<1>1. ASSUME NEW u \in BOOLEAN PROVE [a EXCEPT !.status = "received", !.url = u] \in WorkRow
  BY DEF IntakeRow, WorkRow, AtWork
<1>2. r \in WorkRow
  BY <1>1
<1>3. r.blob = a.blob
  BY DEF IntakeRow
<1> QED
  BY <1>2, <1>3

\* A file is uploaded or fetched.
LEMMA UploadRow ==
    ASSUME NEW a \in IntakeRow, NEW c \in Originals
    PROVE  LET r == [a EXCEPT !.status = "received", !.blob = c]
           IN  r \in WorkRow /\ r.blob = c
BY DEF IntakeRow, WorkRow, AtWork

\* An intake is tried again.
LEMMA RetriedRow ==
    ASSUME NEW a \in IntakeRow
    PROVE  LET r == [a EXCEPT !.status = "received", !.tries = @ + 1]
           IN  r \in WorkRow /\ r.blob = a.blob
<1>1. a.tries + 1 \in Int
  BY DEF IntakeRow
<1> QED
  BY <1>1 DEF IntakeRow, WorkRow, AtWork

\* One row is written, and does not change its file.
LEMMA RowOfIntake ==
    ASSUME FilesInv, NEW i \in Rows, NEW r, Writes(i, r),
           r \in WorkRow
    PROVE  /\ row' \in [Rows -> IntakeRow]
           /\ \A j \in Rows : row'[j].status \in {"absent", "deleted"} => row'[j].blob = NoFile
           /\ \A j \in Rows : row'[j].blob = IF j = i THEN r.blob ELSE row[j].blob
BY DEF FilesInv, Writes, WorkRow, IntakeRow, AtWork, Terminal

\* A step of the worker, or a retry: no file comes or goes.
LEMMA WorkKeeps ==
    ASSUME FilesInv, NEW i \in Rows, GiveUrl(i) \/ Extract(i) \/ Draft(i) \/ Fail(i) \/ Requeue(i)
    PROVE  FilesInv'
<1>1. \E r \in WorkRow : Writes(i, r) /\ r.blob = row[i].blob
  <2>1. CASE GiveUrl(i)
    <3> DEFINE r == [Absent EXCEPT !.status = "received", !.url = TRUE]
    <3>1. r \in WorkRow /\ r.blob = Absent.blob
      BY AbsentIsRow, UrlRow
    <3>2. Writes(i, r) /\ row[i].blob = Absent.blob
      BY <2>1, AbsentIsRow DEF GiveUrl, NextRow, FilesInv
    <3> HIDE DEF r
    <3> QED
      BY <3>1, <3>2
  <2>2. \A s \in AtWork \cup Terminal :
          row[i].status \in AtWork \cup Terminal =>
            LET r == [row[i] EXCEPT !.status = s] IN r \in WorkRow /\ r.blob = row[i].blob
    BY DEF FilesInv, WorkRow, IntakeRow
  <2>3. CASE Requeue(i)
    <3> DEFINE r == [row[i] EXCEPT !.status = "received", !.tries = @ + 1]
    <3>1. row[i] \in IntakeRow /\ row[i].tries + 1 \in Int
      BY DEF FilesInv, IntakeRow
    <3>2. r \in WorkRow /\ r.blob = row[i].blob
      BY <3>1, RetriedRow
    <3>3. Writes(i, r)
      BY <2>3 DEF Requeue
    <3> HIDE DEF r
    <3> QED
      BY <3>2, <3>3
  <2> QED
    BY <2>1, <2>2, <2>3 DEF Extract, Draft, Fail, AtWork, Terminal
<1>2. UNCHANGED <<files, torn>>
  BY DEF GiveUrl, Extract, Draft, Fail, Requeue, Keeps
<1>3. \A j \in Rows : row'[j].blob = row[j].blob
  BY <1>1, RowOfIntake
<1> QED
  BY <1>1, <1>2, <1>3, RowOfIntake DEF FilesInv, NamedFilesExist, EveryFileIsNamed, Naming

\* A file is saved, and named by a row that named none, or by another.
LEMMA SaveKeeps ==
    ASSUME FilesInv, NEW i \in Rows, NEW c \in Originals, Upload(i, c) \/ Fetch(i, c) \/ UploadDies(c)
    PROVE  FilesInv'
<1>1. CASE UploadDies(c)
  BY <1>1 DEF UploadDies, FilesInv, NamedFilesExist, EveryFileIsNamed, Naming
<1>2. CASE UNCHANGED row /\ SaveBlob(c) /\ FindsUseful(c)
  BY <1>2 DEF SaveBlob, FindsUseful, FilesInv, NamedFilesExist, EveryFileIsNamed, Naming
<1>3. ASSUME NEW r \in WorkRow,
             Writes(i, r), r.blob = c, SaveBlob(c), row[i].blob = NoFile
      PROVE  FilesInv'
  <2>1. \A j \in Rows : row'[j].blob = IF j = i THEN c ELSE row[j].blob
    BY <1>3, RowOfIntake
  <2>2. NamedFilesExist'
    BY <1>3, <2>1 DEF SaveBlob, FilesInv, NamedFilesExist
  <2>3. EveryFileIsNamed'
    <3> SUFFICES ASSUME NEW d \in files', d \notin torn' PROVE \E j \in Rows : row'[j].blob = d
      BY DEF EveryFileIsNamed, Naming
    <3>1. CASE d = c
      BY <2>1, <3>1
    <3>2. CASE d # c
      <4>1. d \in files /\ d \notin torn
        BY <1>3, <3>2 DEF SaveBlob
      <4>2. PICK j \in Rows : row[j].blob = d
        BY <4>1 DEF FilesInv, EveryFileIsNamed, Naming
      <4> QED
        BY <1>3, <2>1, <4>1, <4>2, RetentionAssumption DEF FilesInv
    <3> QED
      BY <3>1, <3>2
  <2>4. files' \subseteq Originals
    BY <1>3 DEF SaveBlob, FilesInv
  <2> QED
    BY <1>3, <2>2, <2>3, <2>4, RowOfIntake DEF FilesInv
<1>4. CASE Upload(i, c)
  <2> DEFINE r == [Absent EXCEPT !.status = "received", !.blob = c]
  <2>1. row[i].blob = NoFile
    BY <1>4 DEF Upload, NextRow, FilesInv
  <2>2. r \in WorkRow /\ r.blob = c
    BY AbsentIsRow, UploadRow
  <2>3. SaveBlob(c) /\ ((FindsUseful(c) /\ UNCHANGED row) \/ Writes(i, r))
    BY <1>4 DEF Upload
  <2> HIDE DEF r
  <2> QED
    BY <1>2, <1>3, <2>1, <2>2, <2>3
<1>5. CASE Fetch(i, c)
  <2> DEFINE r == [row[i] EXCEPT !.blob = c]
  <2>1. r \in WorkRow /\ r.blob = c
    BY <1>5 DEF Fetch, FilesInv, WorkRow, IntakeRow, AtWork
  <2>2. row[i].blob = NoFile /\ SaveBlob(c) /\ Writes(i, r)
    BY <1>5 DEF Fetch
  <2> HIDE DEF r
  <2> QED
    BY <1>3, <2>1, <2>2
<1> QED
  BY <1>1, <1>4, <1>5

\* Rows that alone name their files lose them, and the files go.
LEMMA PurgeKeeps ==
    ASSUME FilesInv, NEW gone \in SUBSET Purgeable
    PROVE  /\ Cleared(gone) \in [Rows -> IntakeRow]
           /\ \A i \in Rows : Cleared(gone)[i].status = row[i].status
           /\ \A i \in Rows : Cleared(gone)[i].blob = IF i \in gone THEN NoFile ELSE row[i].blob
           /\ \A i \in Rows \ gone : row[i].blob \notin BlobsOf(gone)
BY DEF FilesInv, IntakeRow, Purgeable, Naming, Cleared, BlobsOf

\* A retention run, with whatever unlinks fail.
LEMMA RunKeeps ==
    ASSUME FilesInv, NEW failing \in SUBSET Rows, RunRetention(failing)
    PROVE  FilesInv'
<1> DEFINE gone == Purgeable \ failing
<1>1. gone \in SUBSET Purgeable
  OBVIOUS
<1>2. /\ files' = files \ BlobsOf(gone) /\ torn' = torn
      /\ row' = [i \in Rows |-> IF i \in Forgettable(Cleared(gone))
                                THEN [Absent EXCEPT !.status = "deleted"] ELSE Cleared(gone)[i]]
  BY DEF RunRetention
<1> HIDE DEF gone
<1>3. \A i \in Rows :
        \/ row'[i] = Cleared(gone)[i]
        \/ /\ row'[i] = [status |-> "deleted", url |-> FALSE, blob |-> NoFile, tries |-> 0, age |-> 0]
           /\ Cleared(gone)[i].blob = NoFile
  BY <1>2 DEF Forgettable, Absent
<1>4. [status |-> "deleted", url |-> FALSE, blob |-> NoFile, tries |-> 0, age |-> 0] \in IntakeRow
  BY DEF IntakeRow
<1>5. row' \in [Rows -> IntakeRow]
  BY <1>1, <1>2, <1>3, <1>4, PurgeKeeps
<1>6. \A i \in Rows : row'[i].blob = IF i \in gone THEN NoFile ELSE row[i].blob
  BY <1>1, <1>3, PurgeKeeps
<1>7. \A i \in Rows : row'[i].status \in {"absent", "deleted"} => row'[i].blob = NoFile
  BY <1>1, <1>3, PurgeKeeps DEF FilesInv
<1>8. NamedFilesExist'
  BY <1>1, <1>2, <1>6, PurgeKeeps DEF FilesInv, NamedFilesExist
<1>9. EveryFileIsNamed'
  BY <1>1, <1>2, <1>6 DEF FilesInv, EveryFileIsNamed, Naming, BlobsOf
<1> QED
  BY <1>2, <1>5, <1>7, <1>8, <1>9 DEF FilesInv

\* The panel dies in a retention run.
LEMMA DeathKeeps ==
    ASSUME FilesInv, NEW done \in SUBSET Rows, NEW i \in Rows, RetentionDies(done, i)
    PROVE  FilesInv'
<1>1. /\ done \in SUBSET Purgeable /\ done \cup {i} \in SUBSET Purgeable
      /\ files' = files \ BlobsOf(done \cup {i}) /\ torn' = torn \cup {row[i].blob}
      /\ row' = Cleared(done)
  BY DEF RetentionDies
<1>2. NamedFilesExist'
  BY <1>1, PurgeKeeps DEF FilesInv, NamedFilesExist
<1>3. EveryFileIsNamed'
  BY <1>1, PurgeKeeps DEF FilesInv, EveryFileIsNamed, Naming, BlobsOf
<1> QED
  BY <1>1, <1>2, <1>3, PurgeKeeps DEF FilesInv

\* Every step of intakes and retention.
LEMMA FilesStep == FilesInv /\ [RetentionNext]_retentionVars => FilesInv'
<1> SUFFICES ASSUME FilesInv, [RetentionNext]_retentionVars PROVE FilesInv'
  OBVIOUS
<1>1. CASE DayPasses
  <2>1. UNCHANGED <<files, torn>> /\ \A i \in Rows : row'[i] = row[i] \/ row'[i] = [row[i] EXCEPT !.age = @ + 1]
    BY <1>1 DEF DayPasses, Keeps
  <2>2. \A i \in Rows : row'[i].blob = row[i].blob /\ row'[i].status = row[i].status
    BY <2>1 DEF FilesInv, IntakeRow
  <2>3. row' \in [Rows -> IntakeRow]
    BY <1>1 DEF DayPasses, FilesInv, IntakeRow
  <2> QED
    BY <2>1, <2>2, <2>3 DEF FilesInv, NamedFilesExist, EveryFileIsNamed, Naming
<1>2. CASE UNCHANGED retentionVars
  BY <1>2 DEF retentionVars, FilesInv, NamedFilesExist, EveryFileIsNamed, Naming
<1>3. CASE \E c \in Originals : UploadDies(c)
  BY <1>3 DEF UploadDies, FilesInv, NamedFilesExist, EveryFileIsNamed, Naming
<1> QED
  BY <1>1, <1>2, <1>3, WorkKeeps, SaveKeeps, RunKeeps, DeathKeeps DEF RetentionNext

(***************************************************************************)
(* No purge takes the file of an intake that still names it, for any       *)
(* number of intakes that come to share originals (purgeIntakeBlobs).      *)
(***************************************************************************)
THEOREM PurgesSpare == RetentionSpec => []NamedFilesExist
<1>1. FilesInv => NamedFilesExist
  BY DEF FilesInv
<1> QED
  BY <1>1, FilesInitially, FilesStep, PTL DEF RetentionSpec

(***************************************************************************)
(* No row goes before its file, so every file keeps a row that leads the   *)
(* retention to it (purgeRows).                                            *)
(***************************************************************************)
THEOREM NoOrphans == RetentionSpec => []EveryFileIsNamed
<1>1. FilesInv => EveryFileIsNamed
  BY DEF FilesInv
<1> QED
  BY <1>1, FilesInitially, FilesStep, PTL DEF RetentionSpec

-----------------------------------------------------------------------------
\* Tries and ages stay within their bounds, and only originals are torn off.
AgesPart ==
    /\ \A i \in Rows : row[i].tries \in 0..MaxTries /\ row[i].age \in 0..MaxAge
    /\ torn \subseteq Originals

\* Nothing was tried at the start.
LEMMA AgesInitially == RetentionInit => AgesPart
<1>1. 0 \in 0..MaxTries /\ 0 \in 0..MaxAge
  BY RetentionAssumption
<1> QED
  BY <1>1 DEF RetentionInit, AgesPart, Absent

\* What is written of a row is young, and counts no try too many.
LEMMA WrittenAge ==
    ASSUME FilesInv, AgesPart, NEW i \in Rows, NEW r \in WorkRow, Writes(i, r),
           r.tries \in 0..MaxTries, torn' \subseteq Originals
    PROVE  AgesPart'
<1>1. row' = [row EXCEPT ![i] = [r EXCEPT !.age = 0]] /\ row \in [Rows -> IntakeRow]
  BY DEF Writes, FilesInv
<1>2. [r EXCEPT !.age = 0].age = 0 /\ [r EXCEPT !.age = 0].tries = r.tries
  BY DEF WorkRow
<1>3. 0 \in 0..MaxAge
  BY RetentionAssumption
<1> QED
  BY <1>1, <1>2, <1>3 DEF AgesPart

\* A clearing keeps tries and ages.
LEMMA ClearedAge ==
    ASSUME FilesInv, AgesPart, NEW gone \in SUBSET Rows
    PROVE  \A i \in Rows : /\ Cleared(gone)[i].tries \in 0..MaxTries
                           /\ Cleared(gone)[i].age \in 0..MaxAge
<1> TAKE i \in Rows
<1>1. row[i] \in IntakeRow
  BY DEF FilesInv
<1>2. [row[i] EXCEPT !.blob = NoFile].tries = row[i].tries
      /\ [row[i] EXCEPT !.blob = NoFile].age = row[i].age
  BY <1>1 DEF IntakeRow
<1> QED
  BY <1>2 DEF Cleared, AgesPart

\* Every step keeps them.
LEMMA AgesStay ==
    ASSUME FilesInv, AgesPart, [RetentionNext]_retentionVars
    PROVE  AgesPart'
<1>0. Absent.tries = 0 /\ 0 \in 0..MaxTries /\ 0 \in 0..MaxAge
  BY RetentionAssumption DEF Absent
<1>1. \A i \in Rows : /\ row[i] \in IntakeRow
                      /\ row[i].tries \in 0..MaxTries /\ row[i].age \in 0..MaxAge
  BY DEF FilesInv, AgesPart
<1>2. torn \subseteq Originals
  BY DEF AgesPart
<1>3. ASSUME NEW i \in Rows, GiveUrl(i) \/ Extract(i) \/ Draft(i) \/ Fail(i) \/ Requeue(i)
      PROVE  AgesPart'
  <2>1. torn' \subseteq Originals
    BY <1>2, <1>3 DEF GiveUrl, Extract, Draft, Fail, Requeue, Keeps
  <2>2. CASE GiveUrl(i)
    <3> DEFINE r == [Absent EXCEPT !.status = "received", !.url = TRUE]
    <3>1. r \in WorkRow /\ r.tries = 0
      BY AbsentIsRow, UrlRow DEF Absent
    <3>2. Writes(i, r)
      BY <2>2 DEF GiveUrl
    <3> HIDE DEF r
    <3> QED
      BY <1>0, <2>1, <3>1, <3>2, WrittenAge
  <2>3. CASE Requeue(i)
    <3> DEFINE r == [row[i] EXCEPT !.status = "received", !.tries = @ + 1]
    <3>1. row[i].tries < MaxTries /\ Writes(i, r)
      BY <2>3 DEF Requeue
    <3>2. r \in WorkRow
      BY <1>1, RetriedRow
    <3>3. r.tries = row[i].tries + 1
      BY <1>1 DEF IntakeRow
    <3>4. r.tries \in 0..MaxTries
      BY <1>1, <3>1, <3>3, RetentionAssumption
    <3> HIDE DEF r
    <3> QED
      BY <2>1, <3>1, <3>2, <3>4, WrittenAge
  <2>4. CASE Extract(i) \/ Draft(i) \/ Fail(i)
    <3>1. PICK s \in AtWork \cup Terminal : Writes(i, [row[i] EXCEPT !.status = s])
      BY <2>4 DEF Extract, Draft, Fail, AtWork, Terminal
    <3> DEFINE r == [row[i] EXCEPT !.status = s]
    <3>2. r \in WorkRow \/ row[i].status \notin AtWork \cup Terminal
      BY <1>1 DEF IntakeRow, WorkRow
    <3>3. row[i].status \in AtWork \cup Terminal
      BY <2>4 DEF Extract, Draft, Fail, AtWork, Terminal
    <3>4. r.tries = row[i].tries
      BY <1>1 DEF IntakeRow
    <3>5. Writes(i, r)
      BY <3>1
    <3> HIDE DEF r
    <3> QED
      BY <1>1, <2>1, <3>2, <3>3, <3>4, <3>5, WrittenAge
  <2> QED
    BY <1>3, <2>2, <2>3, <2>4
<1>4. ASSUME NEW i \in Rows, NEW c \in Originals, Upload(i, c) \/ Fetch(i, c)
      PROVE  AgesPart'
  <2>1. torn' \subseteq Originals
    BY <1>2, <1>4 DEF Upload, Fetch, SaveBlob
  <2>2. CASE UNCHANGED row
    BY <2>1, <2>2 DEF AgesPart
  <2>3. CASE Upload(i, c) /\ ~FindsUseful(c)
    <3> DEFINE r == [Absent EXCEPT !.status = "received", !.blob = c]
    <3>1. r \in WorkRow /\ r.tries = 0
      BY AbsentIsRow, UploadRow DEF Absent
    <3>2. Writes(i, r)
      BY <2>3 DEF Upload
    <3> HIDE DEF r
    <3> QED
      BY <1>0, <2>1, <3>1, <3>2, WrittenAge
  <2>4. CASE Fetch(i, c)
    <3> DEFINE r == [row[i] EXCEPT !.blob = c]
    <3>1. r \in WorkRow /\ r.tries = row[i].tries
      BY <1>1, <2>4 DEF Fetch, WorkRow, IntakeRow, AtWork
    <3>2. Writes(i, r)
      BY <2>4 DEF Fetch
    <3> HIDE DEF r
    <3> QED
      BY <1>1, <2>1, <3>1, <3>2, WrittenAge
  <2> QED
    BY <1>4, <2>2, <2>3, <2>4 DEF Upload
<1>5. CASE DayPasses
  <2>1. torn' = torn
    BY <1>5 DEF DayPasses, Keeps
  <2>2. ASSUME NEW i \in Rows
        PROVE  row'[i].tries \in 0..MaxTries /\ row'[i].age \in 0..MaxAge
    <3>1. \/ row'[i] = row[i]
          \/ row[i].age < MaxAge /\ row'[i] = [row[i] EXCEPT !.age = @ + 1]
      BY <1>5 DEF DayPasses
    <3>2. /\ [row[i] EXCEPT !.age = @ + 1].age = row[i].age + 1
          /\ [row[i] EXCEPT !.age = @ + 1].tries = row[i].tries
      BY <1>1 DEF IntakeRow
    <3>3. row[i].age < MaxAge => row[i].age + 1 \in 0..MaxAge
      BY <1>1, RetentionAssumption
    <3> QED
      BY <1>1, <3>1, <3>2, <3>3
  <2> QED
    BY <1>2, <2>1, <2>2 DEF AgesPart
<1>6. ASSUME NEW c \in Originals, UploadDies(c)
      PROVE  AgesPart'
  <2>1. torn' \subseteq Originals /\ row' = row
    BY <1>2, <1>6 DEF UploadDies
  <2> QED
    BY <2>1 DEF AgesPart
<1>7. ASSUME NEW failing \in SUBSET Rows, RunRetention(failing)
      PROVE  AgesPart'
  <2> DEFINE gone == Purgeable \ failing
  <2>1. gone \in SUBSET Rows
    BY DEF Purgeable
  <2>2. torn' = torn /\ \A i \in Rows :
            row'[i] = Cleared(gone)[i] \/ row'[i] = [Absent EXCEPT !.status = "deleted"]
    BY <1>7 DEF RunRetention
  <2>3. [Absent EXCEPT !.status = "deleted"].tries = 0
        /\ [Absent EXCEPT !.status = "deleted"].age = 0
    BY DEF Absent
  <2> HIDE DEF gone
  <2>4. \A i \in Rows : row'[i].tries \in 0..MaxTries /\ row'[i].age \in 0..MaxAge
    BY <1>0, <2>1, <2>2, <2>3, ClearedAge
  <2> QED
    BY <1>2, <2>2, <2>4 DEF AgesPart
<1>8. ASSUME NEW done \in SUBSET Rows, NEW i \in Rows, RetentionDies(done, i)
      PROVE  AgesPart'
  <2>1. row' = Cleared(done) /\ torn' = torn \cup {row[i].blob} /\ row[i].blob # NoFile
    BY <1>8 DEF RetentionDies, Purgeable
  <2>2. row[i].blob \in Originals
    BY <1>1, <2>1 DEF IntakeRow
  <2> QED
    BY <1>2, <2>1, <2>2, ClearedAge DEF AgesPart
<1>9. CASE UNCHANGED retentionVars
  BY <1>9 DEF retentionVars, AgesPart
<1> QED
  BY <1>3, <1>4, <1>5, <1>6, <1>7, <1>8, <1>9 DEF RetentionNext

\* So the rows and files have their types.
LEMMA FileTypes == FilesInv /\ AgesPart => RetentionTypeOK
BY DEF FilesInv, AgesPart, RetentionTypeOK, IntakeRow

-----------------------------------------------------------------------------
(***************************************************************************)
(* The snapshots.                                                          *)
(***************************************************************************)
Today == {d \in snapshots : d.day = today}

\* Directories are named by their time, those of today by their number, and
\* the run under way has one that is not complete.
NamesInv ==
    /\ IsFiniteSet(snapshots)
    /\ \A d \in snapshots : d.day <= today
    /\ \A d, e \in snapshots : d.day = e.day /\ d.n = e.n => d = e
    /\ \A d \in Today : d.n <= MadeToday
    /\ making \subseteq [of : Snapshot, cold : BOOLEAN, stage : {"gather", "prune"}]
    /\ making # {} => \E r : making = {r}
    /\ \A r \in making : r.stage = "gather" => r.of \in snapshots /\ ~r.of.complete

\* The first complete snapshot of a month is remembered, and one is there.
MonthsInv ==
    /\ \A m \in Months : proven[m] <= today \/ proven[m] = LastDay + 1
    /\ \A d \in snapshots : d.complete =>
          \A m \in Months : MonthOf(d.day) = m => proven[m] <= d.day
    /\ EveryMonthKeepsOne

\* The inductive invariant of the snapshots.
SnapshotsInv == BackupTypeOK /\ NamesInv /\ MonthsInv

\* The sizes of the sets of at most one run.
LEMMA OneAtMost == Cardinality({}) <= 1 /\ \A x : Cardinality({x}) <= 1
<1>1. Cardinality({}) = 0 /\ \A x : Cardinality({x}) = 1
  BY FS_EmptySet, FS_Singleton
<1> QED
  BY <1>1

\* There is no snapshot at the start.
LEMMA SnapshotsInitially == BackupInit => SnapshotsInv
<1> SUFFICES ASSUME BackupInit
             PROVE  SnapshotsInv
  OBVIOUS
<1>1. IsFiniteSet({}) /\ Cardinality({}) = 0
  BY FS_EmptySet
<1>2. LastDay \in Nat /\ LastDay + 1 \in 0..(LastDay + 1)
  BY BackupAssumption
<1>3. BackupTypeOK
  <2>1. Cardinality(making) <= 1
    BY OneAtMost DEF BackupInit
  <2>2. proven \in [Months -> 0..(LastDay + 1)]
    BY <1>2 DEF BackupInit
  <2>3. today \in 0..LastDay
    BY <1>2 DEF BackupInit
  <2> QED
    BY <2>1, <2>2, <2>3 DEF BackupInit, BackupTypeOK
<1>4. NamesInv
  BY <1>1 DEF BackupInit, NamesInv, Today
<1>5. MonthsInv
  BY <1>2, BackupAssumption DEF BackupInit, MonthsInv, EveryMonthKeepsOne
<1> QED
  BY <1>3, <1>4, <1>5 DEF SnapshotsInv

\* Distinct names have an order, and so a first one.
LEMMA FirstIs ==
    ASSUME NEW D \in SUBSET Snapshot, D # {},
           \A d, e \in D : d.day = e.day /\ d.n = e.n => d = e
    PROVE  \E d \in D : d \in First(D)
<1>1. \A d \in D : d.day \in Nat /\ d.n \in Nat
  BY BackupAssumption DEF Snapshot
<1> DEFINE days == {d.day : d \in D}
<1>2. days \in SUBSET Nat /\ days # {}
  BY <1>1
<1>3. PICK day \in days : \A x \in days : day <= x
  <2> HIDE DEF days
  <2> QED
    BY <1>2, LeastNatural
<1> DEFINE ns == {d.n : d \in {x \in D : x.day = day}}
<1>4. ns \in SUBSET Nat /\ ns # {}
  BY <1>1, <1>3
<1>5. PICK n \in ns : \A x \in ns : n <= x
  <2> HIDE DEF ns
  <2> QED
    BY <1>4, LeastNatural
<1>6. PICK d \in D : d.day = day /\ d.n = n
  BY <1>5
<1>7. ASSUME NEW e \in D \ {d}
      PROVE  Earlier(d, e)
  <2>1. e.day \in days /\ (e.day = day => e.n \in ns)
    OBVIOUS
  <2>2. day <= e.day /\ (e.day = day => n <= e.n)
    BY <1>3, <1>5, <2>1
  <2>3. e.day = day => e.n # n
    BY <1>6, <1>7
  <2> QED
    BY <1>1, <1>6, <2>2, <2>3 DEF Earlier
<1> QED
  BY <1>7 DEF First

\* The month's copy is complete, and is the month's.
LEMMA CopyIs ==
    ASSUME SnapshotsInv, NEW m \in Months, \E d \in snapshots : MonthOf(d.day) = m /\ d.complete
    PROVE  \E d \in MonthlyCopy(m) : d \in snapshots /\ MonthOf(d.day) = m /\ d.complete
<1> DEFINE cold == {d \in CompleteOfMonth(m) : d.cold}
<1>1. /\ snapshots \subseteq Snapshot
      /\ \A d, e \in snapshots : d.day = e.day /\ d.n = e.n => d = e
  BY DEF SnapshotsInv, BackupTypeOK, NamesInv
<1>2. CompleteOfMonth(m) \subseteq snapshots /\ CompleteOfMonth(m) # {}
  BY DEF CompleteOfMonth
<1>3. CASE cold # {}
  <2>1. \E d \in cold : d \in First(cold)
    BY <1>1, <1>2, <1>3, FirstIs
  <2> QED
    BY <1>3, <2>1 DEF MonthlyCopy, CompleteOfMonth
<1>4. CASE cold = {}
  <2>1. \E d \in CompleteOfMonth(m) : d \in First(CompleteOfMonth(m))
    BY <1>1, <1>2, FirstIs
  <2> QED
    BY <1>4, <2>1 DEF MonthlyCopy, CompleteOfMonth
<1> QED
  BY <1>3, <1>4

\* What a pruning leaves of a month whose first success is young enough.
LEMMA CopyStays ==
    ASSUME SnapshotsInv, NEW m \in Months, today - proven[m] \in 0..MonthlyKeepDays
    PROVE  \E d \in snapshots : MonthOf(d.day) = m /\ d.complete /\ Stays(d)
<1>1. \E d \in snapshots : MonthOf(d.day) = m /\ d.complete
  BY DEF SnapshotsInv, MonthsInv, EveryMonthKeepsOne
<1>2. PICK d \in MonthlyCopy(m) : d \in snapshots /\ MonthOf(d.day) = m /\ d.complete
  BY <1>1, CopyIs
<1>3. proven[m] <= d.day
  BY <1>2 DEF SnapshotsInv, MonthsInv
<1>4. /\ proven[m] \in Nat /\ d.day \in Nat /\ today \in Nat /\ MonthlyKeepDays \in Nat
  BY <1>2, BackupAssumption DEF SnapshotsInv, BackupTypeOK, Snapshot
<1>5. Age(d) <= MonthlyKeepDays
  BY <1>3, <1>4 DEF Age
<1> QED
  BY <1>2, <1>5 DEF Stays

-----------------------------------------------------------------------------
\* A pruning takes none of today's, and leaves every month its copy.
LEMMA PruningKeeps ==
    ASSUME SnapshotsInv, NEW gone \in SUBSET {d \in snapshots : ~Stays(d)},
           snapshots' = snapshots \ gone, making' = {}, UNCHANGED <<today, marker, proven>>
    PROVE  SnapshotsInv'
<1>1. IsFiniteSet(snapshots') /\ snapshots' \subseteq snapshots
  BY FS_Subset DEF SnapshotsInv, NamesInv
<1>2. BackupTypeOK'
  BY <1>1, FS_EmptySet DEF SnapshotsInv, BackupTypeOK
<1>3. Today' = Today
  <2>1. ASSUME NEW d \in Today
        PROVE  Stays(d)
    <3>1. d.day = today /\ today \in Nat /\ RetentionDays \in Nat
      BY BackupAssumption DEF Today, SnapshotsInv, BackupTypeOK
    <3> QED
      BY <3>1 DEF Stays, Age
  <2> QED
    BY <2>1 DEF Today
<1>4. MadeToday' = MadeToday
  <2>1. MadeToday = Cardinality(Today) /\ MadeToday' = Cardinality(Today')
    BY DEF MadeToday, Today
  <2> QED
    BY <1>3, <2>1
<1>5. NamesInv'
  BY <1>1, <1>3, <1>4 DEF SnapshotsInv, NamesInv
<1>6. MonthsInv'
  <2>1. EveryMonthKeepsOne'
    <3> SUFFICES ASSUME NEW m \in Months, today - proven[m] \in 0..MonthlyKeepDays
                 PROVE  \E d \in snapshots' : MonthOf(d.day) = m /\ d.complete
      BY DEF EveryMonthKeepsOne
    <3> QED
      BY CopyStays
  <2> QED
    BY <1>1, <2>1 DEF SnapshotsInv, MonthsInv
<1> QED
  BY <1>2, <1>5, <1>6 DEF SnapshotsInv

\* A run makes its directory, unless another one is under way.
LEMMA RunKeepsSnapshots ==
    ASSUME SnapshotsInv, NEW cold \in BOOLEAN, Run(cold), UNCHANGED <<today, proven>>,
           marker' \in BOOLEAN
    PROVE  SnapshotsInv'
<1> DEFINE new == NewDirectory
<1>1. /\ new.day = today /\ new.n = MadeToday + 1 /\ ~new.complete
      /\ new = [day |-> today, n |-> MadeToday + 1, complete |-> FALSE, cold |-> FALSE]
  BY DEF NewDirectory
<1>2. /\ snapshots' = snapshots \cup {new} /\ MadeToday < RunsOfDay
      /\ making' = IF making = {} THEN {[of |-> new, cold |-> cold, stage |-> "gather"]}
                   ELSE making
  BY DEF Run
<1>3. IsFiniteSet(Today) /\ MadeToday = Cardinality(Today) /\ MadeToday \in Nat
  <2>1. IsFiniteSet(Today)
    BY FS_Subset DEF SnapshotsInv, NamesInv, Today
  <2> QED
    BY <2>1, FS_CardinalityType DEF MadeToday, Today
<1>4. today \in Nat /\ today \in 0..LastDay /\ RunsOfDay \in Nat /\ snapshots \subseteq Snapshot
  BY BackupAssumption DEF SnapshotsInv, BackupTypeOK
<1>5. new \in Snapshot
  <2>1. MadeToday + 1 \in 1..RunsOfDay
    BY <1>2, <1>3, <1>4
  <2> QED
    BY <1>1, <1>4, <2>1 DEF Snapshot
<1> HIDE DEF new
<1>6. new \notin snapshots /\ \A d \in snapshots : ~(d.day = new.day /\ d.n = new.n)
  <2>1. ASSUME NEW d \in snapshots, d.day = today
        PROVE  d.n # MadeToday + 1
    <3>1. d.n <= MadeToday /\ d.n \in Nat
      BY <1>4, <2>1 DEF SnapshotsInv, NamesInv, Today, Snapshot
    <3> QED
      BY <1>3, <3>1
  <2> QED
    BY <1>1, <2>1
<1>7. Today' = Today \cup {new} /\ new \notin Today
  BY <1>1, <1>2, <1>6 DEF Today
<1>8. MadeToday' = MadeToday + 1
  <2>1. MadeToday' = Cardinality(Today')
    BY DEF MadeToday, Today
  <2> QED
    BY <1>3, <1>7, <2>1, FS_AddElement
<1>10. BackupTypeOK'
  <2>1. Cardinality(making') <= 1
    BY <1>2, OneAtMost DEF SnapshotsInv, BackupTypeOK
  <2>2. \A r \in making' : r.of \in Snapshot /\ r.stage \in {"gather", "prune"}
    BY <1>2, <1>5 DEF SnapshotsInv, BackupTypeOK
  <2>3. snapshots' \subseteq Snapshot
    BY <1>2, <1>4, <1>5
  <2> QED
    BY <2>1, <2>2, <2>3 DEF SnapshotsInv, BackupTypeOK
<1>11. NamesInv'
  <2>1. IsFiniteSet(snapshots')
    BY <1>2, FS_AddElement DEF SnapshotsInv, NamesInv
  <2>2. \A d \in snapshots' : d.day <= today
    BY <1>1, <1>2, <1>4 DEF SnapshotsInv, NamesInv
  <2>3. \A d, e \in snapshots' : d.day = e.day /\ d.n = e.n => d = e
    BY <1>2, <1>6 DEF SnapshotsInv, NamesInv
  <2>4. \A d \in Today' : d.n <= MadeToday + 1
    <3> TAKE d \in Today'
    <3>1. CASE d = new
      BY <1>1, <1>3, <3>1
    <3>2. CASE d \in Today
      <4>1. d.n <= MadeToday /\ d.n \in Nat
        BY <1>4, <3>2 DEF SnapshotsInv, NamesInv, Today, Snapshot
      <4> QED
        BY <1>3, <4>1
    <3> QED
      BY <1>7, <3>1, <3>2
  <2>5. making' # {} => \E r : making' = {r}
    BY <1>2 DEF SnapshotsInv, NamesInv
  <2>6. \A r \in making' : r.stage = "gather" => r.of \in snapshots' /\ ~r.of.complete
    BY <1>1, <1>2 DEF SnapshotsInv, NamesInv
  <2>7. making' \subseteq [of : Snapshot, cold : BOOLEAN, stage : {"gather", "prune"}]
    BY <1>2, <1>5 DEF SnapshotsInv, NamesInv
  <2> QED
    BY <1>8, <2>1, <2>2, <2>3, <2>4, <2>5, <2>6, <2>7 DEF NamesInv
<1>12. MonthsInv'
  <2>1. EveryMonthKeepsOne'
    BY <1>2 DEF SnapshotsInv, MonthsInv, EveryMonthKeepsOne
  <2> QED
    BY <1>1, <1>2, <2>1 DEF SnapshotsInv, MonthsInv
<1> QED
  BY <1>10, <1>11, <1>12 DEF SnapshotsInv

\* The manifest takes the place of an incomplete directory of that name.
LEMMA ManifestKeeps ==
    ASSUME SnapshotsInv, NEW r \in making, NEW ok \in BOOLEAN, Manifest(r, ok)
    PROVE  SnapshotsInv'
<1> DEFINE old == r.of
           new == [r.of EXCEPT !.complete = ok, !.cold = r.cold]
<1>1. /\ r.stage = "gather" /\ UNCHANGED <<today, marker>>
      /\ snapshots' = (snapshots \ {old}) \cup {new}
      /\ making' = {[r EXCEPT !.stage = "prune"]}
      /\ proven' = [proven EXCEPT ![MonthOf(old.day)] =
                       IF ok /\ old.day < @ THEN old.day ELSE @]
  BY DEF Manifest
<1>2. old \in Snapshot /\ old \in snapshots /\ ~old.complete /\ r.cold \in BOOLEAN
      /\ r \in [of : Snapshot, cold : BOOLEAN, stage : {"gather", "prune"}]
  BY <1>1 DEF SnapshotsInv, BackupTypeOK, NamesInv
<1>3. /\ new \in Snapshot /\ new.day = old.day /\ new.n = old.n /\ new.complete = ok
      /\ new.day \in 0..LastDay
  BY <1>2 DEF Snapshot
<1>4. snapshots \subseteq Snapshot /\ IsFiniteSet(snapshots)
      /\ proven \in [Months -> 0..(LastDay + 1)] /\ LastDay \in Nat
      /\ today \in 0..LastDay /\ old.day <= today /\ making = {r}
  BY <1>2, BackupAssumption DEF SnapshotsInv, BackupTypeOK, NamesInv
<1> HIDE DEF old, new
<1>5. \A d \in snapshots : d.day = new.day /\ d.n = new.n => d = old
  BY <1>2, <1>3 DEF SnapshotsInv, NamesInv
<1>6. new \notin snapshots \ {old}
  BY <1>5
<1>7. proven' \in [Months -> 0..(LastDay + 1)]
      /\ \A m \in Months :
            proven'[m] = IF m = MonthOf(old.day) /\ ok /\ old.day < proven[m] THEN old.day
                         ELSE proven[m]
  <2>1. old.day \in 0..(LastDay + 1)
    BY <1>3, <1>4
  <2> QED
    BY <1>1, <1>4, <2>1
<1>8. BackupTypeOK'
  <2>1. Cardinality(making') <= 1
    BY <1>1, OneAtMost
  <2>2. \A x \in making' : x.of \in Snapshot /\ x.stage \in {"gather", "prune"}
    BY <1>1, <1>2
  <2>3. snapshots' \subseteq Snapshot
    BY <1>1, <1>3, <1>4
  <2> QED
    BY <1>1, <1>7, <2>1, <2>2, <2>3 DEF SnapshotsInv, BackupTypeOK
<1>9. MadeToday' = MadeToday
  <2>1. MadeToday = Cardinality(Today) /\ MadeToday' = Cardinality(Today')
    BY DEF MadeToday, Today
  <2>2. CASE old.day = today
    <3>1. old \in Today /\ Today' = (Today \ {old}) \cup {new} /\ new \notin Today \ {old}
      BY <1>1, <1>2, <1>3, <1>6, <2>2 DEF Today
    <3>2. IsFiniteSet(Today) /\ Cardinality(Today) \in Nat
      BY <1>4, FS_Subset, FS_CardinalityType DEF Today
    <3>3. IsFiniteSet(Today \ {old}) /\ Cardinality(Today \ {old}) = Cardinality(Today) - 1
      BY <3>1, <3>2, FS_RemoveElement
    <3>4. Cardinality(Today') = Cardinality(Today \ {old}) + 1
      BY <3>1, <3>3, FS_AddElement
    <3> QED
      BY <2>1, <3>2, <3>3, <3>4
  <2>3. CASE old.day # today
    <3>1. Today' = Today
      BY <1>1, <1>3, <2>3 DEF Today
    <3> QED
      BY <2>1, <3>1
  <2> QED
    BY <2>2, <2>3
<1>10. NamesInv'
  <2>1. IsFiniteSet(snapshots')
    <3>1. IsFiniteSet(snapshots \ {old})
      BY <1>4, FS_Subset
    <3> QED
      BY <1>1, <3>1, FS_AddElement
  <2>2. \A d \in snapshots' : d.day <= today
    BY <1>1, <1>3, <1>4 DEF SnapshotsInv, NamesInv
  <2>3. \A d, e \in snapshots' : d.day = e.day /\ d.n = e.n => d = e
    BY <1>1, <1>5 DEF SnapshotsInv, NamesInv
  <2>4. \A d \in Today' : d.n <= MadeToday
    BY <1>1, <1>2, <1>3 DEF SnapshotsInv, NamesInv, Today
  <2>5. /\ making' \subseteq [of : Snapshot, cold : BOOLEAN, stage : {"gather", "prune"}]
        /\ \A x \in making' : x.stage = "prune"
    BY <1>1, <1>2
  <2> QED
    BY <1>1, <1>9, <2>1, <2>2, <2>3, <2>4, <2>5 DEF NamesInv
<1>11. \A m \in Months : proven'[m] <= today \/ proven'[m] = LastDay + 1
  BY <1>4, <1>7 DEF SnapshotsInv, MonthsInv
<1>12. ASSUME NEW d \in snapshots', d.complete, NEW m \in Months, MonthOf(d.day) = m
       PROVE  proven'[m] <= d.day
  <2>1. proven[m] \in Nat /\ old.day \in Nat /\ d.day \in Nat
    BY <1>1, <1>3, <1>4 DEF Snapshot
  <2>2. CASE d = new
    <3>1. ok /\ m = MonthOf(old.day) /\ d.day = old.day
      BY <1>3, <1>12, <2>2
    <3> QED
      BY <1>7, <2>1, <3>1
  <2>3. CASE d \in snapshots
    <3>1. proven[m] <= d.day
      BY <1>12, <2>3 DEF SnapshotsInv, MonthsInv
    <3>2. proven'[m] <= proven[m]
      BY <1>7, <2>1
    <3>3. proven'[m] \in Nat
      BY <1>7, <2>1
    <3> QED
      BY <2>1, <3>1, <3>2, <3>3
  <2> QED
    BY <1>1, <2>2, <2>3
<1>13. EveryMonthKeepsOne'
  <2> SUFFICES ASSUME NEW m \in Months, today - proven'[m] \in 0..MonthlyKeepDays
               PROVE  \E d \in snapshots' : MonthOf(d.day) = m /\ d.complete
    BY <1>1 DEF EveryMonthKeepsOne
  <2>1. CASE m = MonthOf(old.day) /\ ok
    BY <1>1, <1>3, <2>1
  <2>2. CASE ~(m = MonthOf(old.day) /\ ok)
    <3>1. proven'[m] = proven[m]
      BY <1>7, <2>2
    <3>2. PICK d \in snapshots : MonthOf(d.day) = m /\ d.complete
      BY <3>1 DEF SnapshotsInv, MonthsInv, EveryMonthKeepsOne
    <3> QED
      BY <1>1, <1>2, <3>2
  <2> QED
    BY <2>1, <2>2
<1>14. MonthsInv'
  BY <1>1, <1>11, <1>12, <1>13 DEF MonthsInv
<1> QED
  BY <1>8, <1>10, <1>14 DEF SnapshotsInv

\* A day ends.
LEMMA DayKeeps == SnapshotsInv /\ DayEnds => SnapshotsInv'
<1> SUFFICES ASSUME SnapshotsInv, DayEnds
             PROVE  SnapshotsInv'
  OBVIOUS
<1>1. /\ today < LastDay /\ today' = today + 1
      /\ UNCHANGED <<snapshots, making, marker, proven>>
  BY DEF DayEnds
<1>2. LastDay \in Nat /\ today \in 0..LastDay /\ today' \in 0..LastDay /\ MonthlyKeepDays \in Nat
  BY <1>1, BackupAssumption DEF SnapshotsInv, BackupTypeOK
<1>3. BackupTypeOK'
  BY <1>1, <1>2 DEF SnapshotsInv, BackupTypeOK
<1>4. \A d \in snapshots : d.day \in Nat /\ d.day <= today
  BY BackupAssumption DEF SnapshotsInv, BackupTypeOK, NamesInv, Snapshot
<1>5. Today' = {}
  BY <1>1, <1>2, <1>4 DEF Today
<1>6. NamesInv'
  <2>1. \A d \in snapshots : d.day <= today'
    BY <1>1, <1>2, <1>4
  <2> QED
    BY <1>1, <1>5, <2>1 DEF SnapshotsInv, NamesInv
<1>7. \A m \in Months : /\ proven[m] \in Nat
                        /\ proven[m] <= today \/ proven[m] = LastDay + 1
  BY <1>2 DEF SnapshotsInv, BackupTypeOK, MonthsInv
<1>8. EveryMonthKeepsOne'
  <2> SUFFICES ASSUME NEW m \in Months, today' - proven[m] \in 0..MonthlyKeepDays
               PROVE  \E d \in snapshots : MonthOf(d.day) = m /\ d.complete
    BY <1>1 DEF EveryMonthKeepsOne
  <2>1. today - proven[m] \in 0..MonthlyKeepDays
    BY <1>1, <1>2, <1>7
  <2> QED
    BY <2>1 DEF SnapshotsInv, MonthsInv, EveryMonthKeepsOne
<1>9. MonthsInv'
  <2>1. \A m \in Months : proven[m] <= today' \/ proven[m] = LastDay + 1
    BY <1>1, <1>2, <1>7
  <2> QED
    BY <1>1, <1>8, <2>1 DEF SnapshotsInv, MonthsInv
<1> QED
  BY <1>3, <1>6, <1>9 DEF SnapshotsInv

\* Only the request marker changes.
LEMMA MarkerKeeps ==
    ASSUME SnapshotsInv, UNCHANGED <<today, snapshots, making, proven>>, marker' \in BOOLEAN
    PROVE  SnapshotsInv'
BY DEF SnapshotsInv, BackupTypeOK, NamesInv, MonthsInv, EveryMonthKeepsOne, Today, MadeToday

\* Every step of the backups.
LEMMA BackupStep == SnapshotsInv /\ [BackupNext]_backupVars => SnapshotsInv'
<1> SUFFICES ASSUME SnapshotsInv, [BackupNext]_backupVars
             PROVE  SnapshotsInv'
  OBVIOUS
<1>0. marker \in BOOLEAN
  BY DEF SnapshotsInv, BackupTypeOK
<1>1. ASSUME NEW cold \in BOOLEAN, TimerRun(cold)
      PROVE  SnapshotsInv'
  BY <1>0, <1>1, RunKeepsSnapshots DEF TimerRun
<1>2. ASSUME NEW r \in making, NEW ok \in BOOLEAN, Manifest(r, ok)
      PROVE  SnapshotsInv'
  BY <1>2, ManifestKeeps
<1>3. CASE Prune
  <2> DEFINE gone == {d \in snapshots : ~Stays(d)}
  <2>1. snapshots' = snapshots \ gone
    BY <1>3 DEF Prune
  <2> QED
    BY <1>3, <2>1, PruningKeeps DEF Prune
<1>4. CASE RunDies
  BY <1>4, PruningKeeps DEF RunDies
<1>5. CASE DayEnds
  BY <1>5, DayKeeps
<1>6. CASE RequestBackupRun
  BY <1>6, MarkerKeeps DEF RequestBackupRun
<1>7. CASE HandleRequest
  <2>1. marker' \in BOOLEAN /\ UNCHANGED <<today, proven>>
    BY <1>7 DEF HandleRequest
  <2>2. CASE Run(FALSE)
    BY <2>1, <2>2, RunKeepsSnapshots
  <2>3. CASE UNCHANGED <<snapshots, making>>
    BY <2>1, <2>3, MarkerKeeps
  <2> QED
    BY <1>7, <2>2, <2>3 DEF HandleRequest
<1>8. CASE UNCHANGED backupVars
  BY <1>0, <1>8, MarkerKeeps DEF backupVars
<1> QED
  BY <1>1, <1>2, <1>3, <1>4, <1>5, <1>6, <1>7, <1>8 DEF BackupNext

(***************************************************************************)
(* A month in which a backup succeeded keeps a complete snapshot for       *)
(* MonthlyKeepDays, whatever runs of it fail, die or lose the lock and     *)
(* whatever prunings come between (backup.sh, the monthly copy of the      *)
(* pruning).                                                               *)
(***************************************************************************)
THEOREM MonthsKeepOne == BackupSpec => []EveryMonthKeepsOne
<1>1. BackupSpec => []SnapshotsInv
  BY SnapshotsInitially, BackupStep, PTL DEF BackupSpec
<1>2. SnapshotsInv => EveryMonthKeepsOne
  BY DEF SnapshotsInv, MonthsInv
<1> QED
  BY <1>1, <1>2, PTL

-----------------------------------------------------------------------------
(***************************************************************************)
(* The parts together: a step of one is a step or a stutter of each.       *)
(***************************************************************************)
ServicesInv ==
    /\ AnswerInv /\ ContentPart /\ RoomPart
    /\ LedgerInv
    /\ FilesInv /\ AgesPart
    /\ AccountInv /\ AccountBounds
    /\ CacheInv
    /\ HitsInv
    /\ SnapshotsInv

\* They hold at the start.
LEMMA ServicesInitially == ServicesInit => ServicesInv
BY AnswersInitially, ContentInitially, LedgerInitially, FilesInitially, AgesInitially,
   AccountsInitially, BoundsInitially, CacheInitially, RatesInitially, SnapshotsInitially
   DEF ServicesInit, ServicesInv

\* Each part takes its own step, or none.
LEMMA PartsStep ==
    ASSUME [ServicesNext]_<<part, precedenceVars, chunkerVars, answerVars, gapVars,
                            retentionVars, accountVars, mcpVars, rateVars, backupVars>>
    PROVE  /\ [AnswerNext]_answerVars /\ [GapsNext]_gapVars
           /\ [RetentionNext]_retentionVars /\ [AccountsNext]_accountVars
           /\ [McpNext]_mcpVars /\ [RatesNext]_rateVars /\ [BackupNext]_backupVars
BY DEF ServicesNext

\* So every step keeps all of them.
LEMMA ServicesStep ==
    ASSUME ServicesInv,
           [ServicesNext]_<<part, precedenceVars, chunkerVars, answerVars, gapVars,
                            retentionVars, accountVars, mcpVars, rateVars, backupVars>>
    PROVE  ServicesInv'
<1>1. (AnswerInv /\ ContentPart /\ RoomPart)'
  BY PartsStep, AnswerStep, ContentStays, RoomStays DEF ServicesInv
<1>2. LedgerInv'
  BY PartsStep, LedgerStep DEF ServicesInv
<1>3. (FilesInv /\ AgesPart)'
  BY PartsStep, FilesStep, AgesStay DEF ServicesInv
<1>4. (AccountInv /\ AccountBounds)'
  BY PartsStep, AccountStep, BoundsStep DEF ServicesInv
<1>5. CacheInv'
  BY PartsStep, McpStep DEF ServicesInv
<1>6. HitsInv'
  BY PartsStep, RatesStep DEF ServicesInv
<1>7. SnapshotsInv'
  BY PartsStep, BackupStep DEF ServicesInv
<1> QED
  BY <1>1, <1>2, <1>3, <1>4, <1>5, <1>6, <1>7 DEF ServicesInv

(***************************************************************************)
(* The services keep their types and their limits: no more versions are    *)
(* kept than there is room for (AnswerCache's maxEntries), no intake is    *)
(* tried more often than INTAKE_MAX_ATTEMPTS, no day has more snapshots    *)
(* than its runs, and the caches of the MCP server hold no more than they  *)
(* were made for.                                                          *)
(***************************************************************************)
THEOREM ServicesTypes == ServicesSpec => []ServicesTypeOK
<1>1. ServicesInv => ServicesTypeOK
  <2> SUFFICES ASSUME ServicesInv
               PROVE  ServicesTypeOK
    OBVIOUS
  <2>1. AnswerTypeOK /\ GapsTypeOK
    BY AnswerTypes, GapTypes DEF ServicesInv
  <2>2. RetentionTypeOK
    BY FileTypes DEF ServicesInv
  <2>3. AccountsTypeOK /\ RatesTypeOK
    BY AccountTypes, RateTypes DEF ServicesInv
  <2>4. McpTypeOK /\ BackupTypeOK
    BY DEF ServicesInv, CacheInv, SnapshotsInv
  <2> QED
    BY <2>1, <2>2, <2>3, <2>4 DEF ServicesTypeOK
<1>2. ServicesSpec => []ServicesInv
  BY ServicesInitially, ServicesStep, PTL DEF ServicesSpec
<1> QED
  BY <1>1, <1>2, PTL

=============================================================================
