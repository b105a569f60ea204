--------------------------- MODULE KbBuildProofs ----------------------------
(***************************************************************************)
(* Theorems about KbBuild, for every finite set of drafts, every identity, *)
(* tag and precedence relation, every page size and every set of faults.   *)
(* First what the precedence rule promises, the types, and the mirror:     *)
(* with dirty = 0 the full-text mirror is what the promoted drafts say, in *)
(* every base, whatever is promoted or withdrawn while builds run, fail or *)
(* die; MirrorInv is inductive.  Then what the build guarantees towards    *)
(* the graph and the Inbox.  Nothing gets into the graph without the       *)
(* registry knowing it.  As long as the promoted drafts fit in one page, a *)
(* build withdraws a draft only in favour of its replacement.  And         *)
(* whatever OpenSPG loses, fails or reorders: a confirmed tombstone was    *)
(* delivered, a clean base's rows have been loaded, and a forced build     *)
(* leaves its rows in the graph; GraphInv is inductive.                    *)
(***************************************************************************)
EXTENDS KbBuildInvariants, FiniteSetTheorems, SequenceTheorems, TLAPS

(***************************************************************************)
(* What the precedence rule promises for every set of drafts.              *)
(***************************************************************************)

(***************************************************************************)
(* The rule settles in one round: what it keeps of a list without          *)
(* repetitions is superseded by nothing else it keeps.  A second build     *)
(* with no change in between therefore withdraws nothing                   *)
(* (build-kb.ts:234-236).                                                  *)
(***************************************************************************)
THEOREM PrecedenceSettles ==
    ASSUME NEW S \in SUBSET Drafts, NEW repeated, NEW times
    PROVE  LET keptOnes == S \ Superseded(S, repeated, times)
           IN  Superseded(keptOnes, {}, times) = {}
<1> DEFINE keptOnes == S \ Superseded(S, repeated, times)
<1>1. ExplicitVictims(keptOnes) = {}
  <2>1. ExplicitVictims(keptOnes) \subseteq ExplicitVictims(S)
    BY DEF ExplicitVictims
  <2>2. ExplicitVictims(keptOnes) \cap ExplicitVictims(S) = {}
    BY DEF ExplicitVictims, Superseded
  <2>. QED  BY <2>1, <2>2
<1>2. SourceVictims(keptOnes, {}, times) = {}
  <2>. SUFFICES ASSUME NEW d \in keptOnes, NEW e \in keptOnes,
                       RefOf[d] # NoRef, RefOf[e] = RefOf[d], Newer(e, d, times)
                PROVE  FALSE
    BY <1>1 DEF SourceVictims
  <2>1. d \in S \ ExplicitVictims(S) /\ e \in S \ ExplicitVictims(S)
    BY DEF Superseded
  <2>2. d \in SourceVictims(S, repeated, times)
    BY <2>1 DEF SourceVictims
  <2>. QED  BY <2>2 DEF Superseded
<1>. QED  BY <1>1, <1>2 DEF Superseded

LEMMA SupersededIsListed ==
    ASSUME NEW S, NEW repeated, NEW times
    PROVE  Superseded(S, repeated, times) \subseteq S
BY DEF Superseded, ExplicitVictims, SourceVictims

(***************************************************************************)
(* In a list without repetitions every superseded draft lost to another    *)
(* listed one: one that names it, or a newer one of its source.            *)
(***************************************************************************)
THEOREM SupersededHasReplacement ==
    ASSUME NEW S \in SUBSET Drafts, NEW times,
           NEW d \in Superseded(S, {}, times)
    PROVE  \E e \in S :
              \/ e # d /\ SupersedesOf[e] = d
              \/ RefOf[d] # NoRef /\ RefOf[e] = RefOf[d] /\ Newer(e, d, times)
<1>1. CASE d \in ExplicitVictims(S)
  BY <1>1 DEF ExplicitVictims
<1>2. CASE d \in SourceVictims(S, {}, times)
  BY <1>2 DEF SourceVictims
<1>. QED  BY <1>1, <1>2 DEF Superseded

-----------------------------------------------------------------------------
(***************************************************************************)
(* The operators of the model.                                             *)
(***************************************************************************)

LEMMA SubsetsOfDrafts ==
    ASSUME NEW S \in SUBSET Drafts
    PROVE  IsFiniteSet(S) /\ Cardinality(S) \in Nat
           /\ Cardinality(S) <= Cardinality(Drafts)
BY DraftsAssumption, FS_Subset, FS_CardinalityType

LEMMA DocsOfType == \A S \in SUBSET Drafts : DocsOf(S) \subseteq Docs
BY DocAssumption DEF DocsOf

LEMMA PromotedType == Promoted \subseteq Drafts
BY DEF Promoted

LEMMA TargetRowsType ==
    ASSUME NEW S \in SUBSET Drafts
    PROVE  TargetRows(S) \in [Ids -> Row]
<1>1. \A topic : TopicRow(S, topic) \in Row
  <2>. SUFFICES ASSUME NEW topic PROVE TopicRow(S, topic) \in Row
    OBVIOUS
  <2>1. {d \in S : topic \in TopicsOf[d]} \in SUBSET Drafts
    OBVIOUS
  <2>. QED  BY <2>1, SubsetsOfDrafts DEF TopicRow, Row
<1>2. \A doc : DocumentRow(S, doc) \in Row
  <2>. SUFFICES ASSUME NEW doc PROVE DocumentRow(S, doc) \in Row
    OBVIOUS
  <2>1. CASE doc \in DocsOf(S)
    <3>1. PICK e \in S : DocOf[e] = doc
      BY <2>1 DEF DocsOf
    <3>2. (CHOOSE d \in S : DocOf[d] = doc) \in S
      BY <3>1
    <3>. QED  BY <2>1, <3>2, DraftsAssumption DEF DocumentRow, Row
  <2>. QED  BY <2>1 DEF DocumentRow, Row
<1>3. \A doc : ChunkRow(S, doc) \in Row
  BY DEF ChunkRow, Row
<1>4. \A id \in Ids : id[1] \in {"topic.csv", "reference_document.csv", "chunk.csv"}
  BY DEF Ids
<1>. QED  BY <1>1, <1>2, <1>3, <1>4 DEF TargetRows

LEMMA ContentType ==
    ASSUME rows \in [Ids -> Row], NEW f
    PROVE  Content(f) \in [Ids -> Row]
BY DEF Content, Row

LEMMA FileNameType == fileNo \in 1..3 => FileName \in Files
BY DEF FileName, Files

LEMMA NoRowsType == NoRows \in [Ids -> Row]
BY DEF NoRows, Row

\* The new ids of SyncGraphIds are rows, whatever the registry held.
LEMMA KeptType ==
    ASSUME fetched \subseteq Drafts
    PROVE  KeptNow \subseteq Drafts /\ SupersededNow \subseteq Drafts
BY SupersededIsListed DEF KeptNow, SupersededNow

-----------------------------------------------------------------------------
(***************************************************************************)
(* Types.                                                                  *)
(***************************************************************************)

LEMMA TypeInit == Init => TypeOK
<1>. SUFFICES ASSUME Init PROVE TypeOK
  OBVIOUS
<1>1. InboxType /\ FlagType
  BY DEF Init, InboxType, FlagType
<1>2. StoreType
  BY DEF Init, StoreType
<1>3. OpenspgType
  BY NoRowsType DEF Init, OpenspgType
<1>4. PagesType /\ ExportType
  BY NoRowsType DEF Init, PagesType, ExportType
<1>5. PlaceType
  BY DEF Init, PlaceType, Paging, Loading, Exported
<1>6. force \in BOOLEAN
  BY Zenon DEF Init
<1>. QED  BY <1>1, <1>2, <1>3, <1>4, <1>5, <1>6 DEF TypeOK

\* Parts of the state that a step leaves alone keep their types.
LEMMA TypeFrame ==
    /\ InboxType /\ UNCHANGED inboxVars => InboxType'
    /\ FlagType /\ UNCHANGED flagVars => FlagType'
    /\ StoreType /\ UNCHANGED <<reg, mirrorVars, recordVars>> => StoreType'
    /\ OpenspgType /\ UNCHANGED openspgVars => OpenspgType'
    /\ PagesType /\ UNCHANGED pageVars => PagesType'
    /\ ExportType /\ UNCHANGED exportVars => ExportType'
    /\ PlaceType /\ UNCHANGED <<pc, snap, fileVars, jobs>> => PlaceType'
    /\ force \in BOOLEAN /\ UNCHANGED force => (force \in BOOLEAN)'
<1>1. InboxType /\ UNCHANGED inboxVars => InboxType'
  BY DEF InboxType, inboxVars
<1>2. FlagType /\ UNCHANGED flagVars => FlagType'
  BY DEF FlagType, flagVars
<1>3. StoreType /\ UNCHANGED <<reg, mirrorVars, recordVars>> => StoreType'
  BY DEF StoreType, mirrorVars, recordVars
<1>4. OpenspgType /\ UNCHANGED openspgVars => OpenspgType'
  BY DEF OpenspgType, openspgVars
<1>5. PagesType /\ UNCHANGED pageVars => PagesType'
  BY DEF PagesType, pageVars
<1>6. ExportType /\ UNCHANGED exportVars => ExportType'
  BY DEF ExportType, exportVars
<1>7. PlaceType /\ UNCHANGED <<pc, snap, fileVars, jobs>> => PlaceType'
  BY DEF PlaceType, fileVars
<1>. QED  BY <1>1, <1>2, <1>3, <1>4, <1>5, <1>6, <1>7

LEMMA TypeInbox == TypeOK /\ Inbox => TypeOK'
<1>. SUFFICES ASSUME TypeOK, NEW d \in Drafts,
                     \/ CreateDraft(d) \/ SupersedeDraft(d) \/ LoseSupersede(d)
                     \/ PromoteDraft(d) \/ RejectDraft(d) \/ WithdrawDraft(d)
              PROVE  TypeOK'
  BY DEF Inbox
<1>0. UNCHANGED outsideInbox
  BY DEF CreateDraft, SupersedeDraft, LoseSupersede, PromoteDraft, RejectDraft, WithdrawDraft
<1>1. /\ StoreType' /\ OpenspgType' /\ PagesType' /\ ExportType' /\ PlaceType'
      /\ (force \in BOOLEAN)'
  BY <1>0, TypeFrame DEF TypeOK, outsideInbox, openspgVars
<1>2. CASE CreateDraft(d)
  BY <1>1, <1>2, TypeFrame DEF TypeOK, InboxType, CreateDraft
<1>3. CASE SupersedeDraft(d)
  BY <1>1, <1>3, TypeFrame DEF TypeOK, InboxType, FlagType, SupersedeDraft, MarkDirty, flagVars
<1>4. CASE LoseSupersede(d)
  BY <1>1, <1>4, TypeFrame DEF TypeOK, InboxType, LoseSupersede
<1>5. CASE PromoteDraft(d)
  <2>1. {e \in Drafts : promotedAt[e] > 0} \in SUBSET Drafts
    OBVIOUS
  <2>2. 1 + Cardinality({e \in Drafts : promotedAt[e] > 0}) \in Nat
    BY <2>1, SubsetsOfDrafts
  <2>. QED  BY <1>1, <1>5, <2>2 DEF TypeOK, InboxType, FlagType, PromoteDraft, MarkDirty
<1>6. CASE RejectDraft(d)
  BY <1>1, <1>6, TypeFrame DEF TypeOK, InboxType, RejectDraft
<1>7. CASE WithdrawDraft(d)
  BY <1>1, <1>7 DEF TypeOK, InboxType, FlagType, WithdrawDraft, MarkDirty
<1>. QED  BY <1>2, <1>3, <1>4, <1>5, <1>6, <1>7

LEMMA TypeForget ==
    ForgetBuild => PagesType' /\ ExportType' /\ PlaceType' /\ (force \in BOOLEAN)'
<1>. SUFFICES ASSUME ForgetBuild
              PROVE  PagesType' /\ ExportType' /\ PlaceType' /\ (force \in BOOLEAN)'
  OBVIOUS
<1>1. PagesType'
  BY DEF ForgetBuild, PagesType
<1>2. ExportType'
  BY NoRowsType DEF ForgetBuild, ExportType, NoRows
<1>3. PlaceType'
  BY DEF ForgetBuild, PlaceType, Paging, Loading, Exported
<1>4. (force \in BOOLEAN)'
  BY Zenon DEF ForgetBuild
<1>. QED  BY <1>1, <1>2, <1>3, <1>4

\* Assigning past the end of a sequence changes nothing.
LEMMA EntryUpdate ==
    ASSUME NEW S, NEW seq \in Seq(S), NEW i, NEW e, i \in 1..Len(seq) => e \in S
    PROVE  /\ [seq EXCEPT ![i] = e] \in Seq(S)
           /\ DOMAIN [seq EXCEPT ![i] = e] = DOMAIN seq
<1>1. CASE i \in 1..Len(seq)
  BY <1>1, ExceptSeq
<1>2. CASE i \notin 1..Len(seq)
  <2>1. DOMAIN seq = 1..Len(seq) /\ seq = [k \in DOMAIN seq |-> seq[k]]
    OBVIOUS
  <2>2. [seq EXCEPT ![i] = e] = [k \in DOMAIN seq |-> IF k = i THEN e ELSE seq[k]]
    BY <2>1
  <2>3. \A k \in DOMAIN seq : (IF k = i THEN e ELSE seq[k]) = seq[k]
    BY <1>2, <2>1
  <2>4. [seq EXCEPT ![i] = e] = seq
    BY <2>1, <2>2, <2>3, Zenon
  <2>. QED  BY <2>4
<1>. QED  BY <1>1, <1>2

LEMMA StatusUpdate ==
    ASSUME NEW S, NEW seq \in Seq(S), NEW i, NEW value,
           \A e \in S : [e EXCEPT !.status = value] \in S
    PROVE  /\ [seq EXCEPT ![i].status = value] \in Seq(S)
           /\ DOMAIN [seq EXCEPT ![i].status = value] = DOMAIN seq
<1>. DEFINE e == [seq[i] EXCEPT !.status = value]
<1>1. i \in 1..Len(seq) => e \in S
  BY ElementOfSeq
<1>2. [seq EXCEPT ![i].status = value] = [seq EXCEPT ![i] = e]
  OBVIOUS
<1>. HIDE DEF e
<1>. QED  BY <1>1, <1>2, EntryUpdate

LEMMA TypeCloseRun ==
    ASSUME NEW result \in {"running", "success", "error"},
           exportRuns \in Seq({"running", "success", "error"}), CloseRun(result)
    PROVE  exportRuns' \in Seq({"running", "success", "error"})
BY EntryUpdate DEF CloseRun

\* An entry of OpenSPG's job list.
Job == [file : Files, url : Nat, rows : [Ids -> Row], status : JobStatus]

LEMMA JobType ==
    ASSUME OpenspgType, NEW j \in DOMAIN jobs
    PROVE  jobs[j] \in Job
<1>1. jobs \in Seq(Job) /\ j \in 1..Len(jobs)
  BY DEF OpenspgType, Job
<1>. QED  BY <1>1, ElementOfSeq

LEMMA TypeNextFile ==
    PlaceType /\ pc \in Loading /\ NextFile /\ snap' = snap => PlaceType'
<1>. SUFFICES ASSUME PlaceType, pc \in Loading, NextFile, snap' = snap
              PROVE  PlaceType'
  OBVIOUS
<1>1. LastFile <=> fileNo = 3
  BY DEF LastFile, EXPORT_FILE_ORDER
<1>2. fileNo \in 1..3
  BY DEF PlaceType
<1>3. CASE fileNo = 3
  BY <1>1, <1>3 DEF PlaceType, NextFile, Paging, Loading, Exported
<1>4. CASE fileNo # 3
  <2>1. pc' = "file" /\ fileNo' \in 1..3 /\ url' = 0 /\ job' = 0
    BY <1>1, <1>2, <1>4 DEF NextFile
  <2>. QED  BY <2>1 DEF PlaceType, Paging, Loading, Exported
<1>. QED  BY <1>3, <1>4

LEMMA TypeStart ==
    ASSUME TypeOK, NEW f \in ForceChoices, StartBuild(f)
    PROVE  TypeOK'
<1>1. InboxType' /\ FlagType' /\ StoreType' /\ OpenspgType' /\ PagesType' /\ ExportType'
  BY TypeFrame DEF TypeOK, StartBuild, outsideBuild
<1>2. PlaceType'
  BY DEF TypeOK, StartBuild, PlaceType, fileVars, Paging, Loading, Exported
<1>3. (force \in BOOLEAN)'
  BY BuilderAssumption, Zenon DEF StartBuild
<1>. QED  BY <1>1, <1>2, <1>3 DEF TypeOK

LEMMA TypeExport == TypeOK /\ Export => TypeOK'
<1>. SUFFICES ASSUME TypeOK, Export PROVE TypeOK'
  OBVIOUS
<1>. USE TypeFrame DEF TypeOK
<1>1. CASE SnapshotDirty
  <2>1. StoreType'
    BY <1>1 DEF SnapshotDirty, StoreType, mirrorVars
  <2>2. PlaceType'
    BY <1>1 DEF SnapshotDirty, PlaceType, FlagType, fileVars, Paging, Loading, Exported
  <2>. QED  BY <1>1, <2>1, <2>2 DEF SnapshotDirty
<1>2. CASE CountPromoted
  <2>1. PagesType'
    BY <1>2, PromotedType, SubsetsOfDrafts DEF CountPromoted, PagesType
  <2>2. PlaceType'
    BY <1>2 DEF CountPromoted, PlaceType, fileVars, outsideBuild, openspgVars,
                Paging, Loading, Exported
  <2>. QED  BY <1>2, <2>1, <2>2 DEF CountPromoted, outsideBuild
<1>3. CASE SelectPage
  <2>1. PagesType'
    <3>1. PICK page \in SUBSET Promoted :
            /\ fetched' = fetched \cup page
            /\ twice' = twice \cup (fetched \cap page)
            /\ outLen' = outLen + Cardinality(page)
            /\ offset' = AtMost(offset + PageSize, Cardinality(Drafts))
      BY <1>3 DEF SelectPage
    <3>2. page \in SUBSET Drafts
      BY <3>1, PromotedType
    <3>3. Cardinality(page) \in Nat /\ Cardinality(Drafts) \in Nat
      BY <3>2, SubsetsOfDrafts
    <3>4. total' \in Nat /\ offset' \in Nat /\ outLen' \in Nat
      BY <1>3, <3>1, <3>3, PageAssumption DEF SelectPage, PagesType, AtMost
    <3>. QED  BY <3>1, <3>2, <3>4 DEF PagesType
  <2>2. PlaceType'
    BY <1>3 DEF SelectPage, PlaceType, fileVars, outsideBuild, openspgVars,
                Paging, Loading, Exported
  <2>. QED  BY <1>3, <2>1, <2>2 DEF SelectPage, outsideBuild
<1>4. CASE AbortOnDuplicates
  <2>1. StoreType'
    BY <1>4, TypeCloseRun DEF AbortOnDuplicates, StoreType, mirrorVars
  <2>. QED  BY <1>4, <2>1, TypeForget DEF AbortOnDuplicates
<1>5. CASE SyncGraphIds
  <2>1. KeptNow \in SUBSET Drafts /\ SupersededNow \subseteq Drafts
    BY KeptType DEF PagesType
  <2>2. TargetRows(KeptNow) \in [Ids -> Row]
    BY <2>1, TargetRowsType
  <2>3. reg' \in [Ids -> {"none", "live", "pending", "confirmed"}]
    BY <1>5 DEF SyncGraphIds, StoreType
  <2>4. rows' \in [Ids -> Row]
    BY <1>5, <2>2 DEF SyncGraphIds, TombstoneRow, Row
  <2>5. StoreType'
    BY <1>5, <2>3 DEF SyncGraphIds, StoreType, mirrorVars, recordVars
  <2>6. ExportType'
    BY <1>5, <2>1, <2>4, DocsOfType DEF SyncGraphIds, ExportType
  <2>7. PagesType'
    BY <1>5 DEF SyncGraphIds, PagesType
  <2>8. PlaceType'
    BY <1>5 DEF SyncGraphIds, PlaceType, fileVars, openspgVars, Paging, Loading, Exported
  <2>. QED  BY <1>5, <2>5, <2>6, <2>7, <2>8 DEF SyncGraphIds
<1>6. CASE \E doc \in Docs : ReplaceForDocument(doc)
  <2>. PICK doc \in Docs : ReplaceForDocument(doc)
    BY <1>6
  <2>1. StoreType' /\ ExportType'
    BY DEF ReplaceForDocument, StoreType, ExportType, recordVars
  <2>2. PlaceType'
    BY DEF ReplaceForDocument, PlaceType, fileVars, openspgVars
  <2>. QED  BY <2>1, <2>2 DEF ReplaceForDocument
<1>7. CASE SweepMirror
  <2>1. StoreType'
    BY <1>7 DEF SweepMirror, Swept, StoreType, recordVars
  <2>2. PlaceType'
    BY <1>7 DEF SweepMirror, Swept, PlaceType, fileVars, openspgVars, Paging, Loading, Exported
  <2>. QED  BY <1>7, <2>1, <2>2 DEF SweepMirror, Swept
<1>8. CASE FinishExport
  <2>1. DocsOf(kept) \subseteq Docs
    BY DocsOfType DEF ExportType
  <2>2. StoreType'
    BY <1>8, <2>1, TypeCloseRun DEF FinishExport, StoreType
  <2>3. PlaceType'
    BY <1>8 DEF FinishExport, PlaceType, openspgVars, Paging, Loading, Exported
  <2>. QED  BY <1>8, <2>2, <2>3 DEF FinishExport
<1>. QED  BY <1>1, <1>2, <1>3, <1>4, <1>5, <1>6, <1>7, <1>8 DEF Export

LEMMA TypeLoad == TypeOK /\ LoadFiles => TypeOK'
<1>. SUFFICES ASSUME TypeOK, LoadFiles PROVE TypeOK'
  OBVIOUS
<1>. USE TypeFrame DEF TypeOK
<1>0. pc \in Loading => FileName \in Files /\ Sha \in [Ids -> Row]
  BY FileNameType, ContentType DEF PlaceType, ExportType, Sha
<1>1. CASE SkipEmptyFile
  <2>1. PlaceType'
    BY <1>1, TypeNextFile DEF SkipEmptyFile, Loading
  <2>. QED  BY <1>1, <2>1 DEF SkipEmptyFile, outsideBuild
<1>2. CASE UploadFromCache
  <2>1. PlaceType'
    BY <1>2 DEF UploadFromCache, Uploaded, PlaceType, StoreType, outsideBuild, openspgVars,
                Paging, Loading, Exported
  <2>. QED  BY <1>2, <2>1 DEF UploadFromCache, outsideBuild
<1>3. CASE UploadFile
  <2>1. Run \in Nat
    BY DEF Run, StoreType
  <2>2. FileName \in Files /\ Sha \in [Ids -> Row]
    BY <1>0, <1>3 DEF UploadFile, Loading
  <2>3. StoreType'
    BY <1>3, <2>1, <2>2 DEF UploadFile, StoreType, mirrorVars
  <2>4. PlaceType'
    BY <1>3, <2>1 DEF UploadFile, PlaceType, openspgVars, Paging, Loading, Exported
  <2>. QED  BY <1>3, <2>3, <2>4 DEF UploadFile
<1>4. CASE SkipFinished
  <2>1. PlaceType'
    BY <1>4, TypeNextFile DEF SkipFinished, Loading
  <2>. QED  BY <1>4, <2>1 DEF SkipFinished, outsideBuild
<1>5. CASE ReuseJob
  <2>1. PlaceType'
    BY <1>5 DEF ReuseJob, Reusable, PlaceType, OpenspgType, outsideBuild, openspgVars,
                Paging, Loading, Exported
  <2>. QED  BY <1>5, <2>1 DEF ReuseJob, outsideBuild
<1>6. CASE SubmitCsvUpsertJob
  <2>1. FileName \in Files /\ Sha \in [Ids -> Row]
    BY <1>0, <1>6 DEF SubmitCsvUpsertJob, Loading
  <2>2. [file |-> FileName, url |-> url, rows |-> Sha, status |-> "RUNNING"]
          \in [file : Files, url : Nat, rows : [Ids -> Row], status : JobStatus]
    BY <2>1 DEF PlaceType, JobStatus
  <2>3. OpenspgType'
    BY <1>6, <2>2 DEF SubmitCsvUpsertJob, OpenspgType
  <2>4. PlaceType'
    BY <1>6 DEF SubmitCsvUpsertJob, PlaceType, OpenspgType, Paging, Loading, Exported
  <2>. QED  BY <1>6, <2>3, <2>4 DEF SubmitCsvUpsertJob
<1>7. CASE RecordBuildJob
  <2>1. FileName \in Files /\ Sha \in [Ids -> Row]
    BY <1>0, <1>7 DEF RecordBuildJob, Loading
  <2>2. [file |-> FileName, sha |-> Sha, status |-> "INIT"]
          \in [file : Files, sha : [Ids -> Row], status : {"INIT"} \cup JobStatus]
    BY <2>1
  <2>3. StoreType'
    BY <1>7, <2>2 DEF RecordBuildJob, StoreType, mirrorVars
  <2>4. PlaceType'
    BY <1>7 DEF RecordBuildJob, PlaceType, fileVars, openspgVars, Paging, Loading, Exported
  <2>. QED  BY <1>7, <2>3, <2>4 DEF RecordBuildJob
<1>8. CASE JobEnds
  <2>1. jobs[job].status \in JobStatus
    BY <1>8, JobType DEF JobEnds, PlaceType, Job
  <2>. DEFINE Record == [file : Files, sha : [Ids -> Row], status : {"INIT"} \cup JobStatus]
  <2>5. \A e \in Record : [e EXCEPT !.status = jobs[job].status] \in Record
    BY <2>1
  <2>6. buildJobs' \in Seq(Record)
    <3>1. buildJobs \in Seq(Record)
      BY DEF StoreType
    <3>. HIDE DEF Record
    <3>. QED  BY <1>8, <2>5, <3>1, StatusUpdate DEF JobEnds
  <2>2. StoreType'
    BY <1>8, <2>6 DEF JobEnds, StoreType, mirrorVars
  <2>3. CASE Finished(jobs[job].status)
    <3>1. PlaceType'
      BY <1>8, <2>3, TypeNextFile DEF JobEnds, Loading
    <3>. QED  BY <1>8, <2>2, <2>3, <3>1 DEF JobEnds
  <2>4. CASE ~Finished(jobs[job].status)
    BY <1>8, <2>2, <2>4, TypeForget DEF JobEnds
  <2>. QED  BY <2>3, <2>4
<1>9. CASE JobTimesOut
  BY <1>9, TypeForget DEF JobTimesOut, outsideBuild
<1>. QED  BY <1>1, <1>2, <1>3, <1>4, <1>5, <1>6, <1>7, <1>8, <1>9 DEF LoadFiles

LEMMA TypeSettle == TypeOK /\ Settle => TypeOK'
<1>. SUFFICES ASSUME TypeOK, Settle PROVE TypeOK'
  OBVIOUS
<1>. USE TypeFrame DEF TypeOK
<1>1. CASE ConfirmTombstones
  <2>1. StoreType'
    BY <1>1 DEF ConfirmTombstones, StoreType, mirrorVars, recordVars
  <2>2. PlaceType'
    BY <1>1 DEF ConfirmTombstones, PlaceType, fileVars, openspgVars, Paging, Loading, Exported
  <2>. QED  BY <1>1, <2>1, <2>2 DEF ConfirmTombstones
<1>2. CASE \E d \in Drafts : WithdrawSupersededDraft(d)
  <2>. PICK d \in Drafts : WithdrawSupersededDraft(d)
    BY <1>2
  <2>1. InboxType' /\ ExportType'
    BY DEF WithdrawSupersededDraft, InboxType, ExportType
  <2>2. PlaceType'
    BY DEF WithdrawSupersededDraft, PlaceType, fileVars, openspgVars
  <2>. QED  BY <2>1, <2>2 DEF WithdrawSupersededDraft
<1>3. CASE SettleDirtyAfterBuild
  <2>1. FlagType'
    BY <1>3 DEF SettleDirtyAfterBuild, FlagType, PlaceType
  <2>. QED  BY <1>3, <2>1, TypeForget DEF SettleDirtyAfterBuild
<1>. QED  BY <1>1, <1>2, <1>3 DEF Settle

LEMMA TypeAbort == TypeOK /\ AbortBuild => TypeOK'
<1>. SUFFICES ASSUME TypeOK, AbortBuild PROVE TypeOK'
  OBVIOUS
<1>1. exportRuns' \in Seq({"running", "success", "error"})
  BY TypeCloseRun DEF AbortBuild, ClosesRun, TypeOK, StoreType
<1>2. StoreType'
  BY <1>1 DEF AbortBuild, TypeOK, StoreType, mirrorVars
<1>. QED  BY <1>2, TypeForget, TypeFrame DEF AbortBuild, TypeOK

LEMMA TypeOpenSpg == TypeOK /\ OpenSpg => TypeOK'
<1>. SUFFICES ASSUME TypeOK, OpenSpg PROVE TypeOK'
  OBVIOUS
<1>1. UNCHANGED outsideOpenspg
  BY DEF OpenSpg, BuilderFinishes, BuilderFails, PurgeNodes
<1>2. /\ InboxType' /\ FlagType' /\ StoreType' /\ PagesType' /\ ExportType'
      /\ (force \in BOOLEAN)'
  BY <1>1, TypeFrame DEF TypeOK, outsideOpenspg
<1>3. OpenspgType' /\ DOMAIN jobs' = DOMAIN jobs
  <2>1. CASE \E j \in DOMAIN jobs : BuilderFinishes(j) \/ BuilderFails(j)
    <3>. PICK j \in DOMAIN jobs : BuilderFinishes(j) \/ BuilderFails(j)
      BY <2>1
    <3>1. PICK done \in SUBSET RowsOf(j) : Upsert(j, done)
      BY DEF BuilderFinishes, BuilderFails, RowsOf
    <3>2. PICK result \in JobStatus : jobs' = [jobs EXCEPT ![j].status = result]
      BY DEF BuilderFinishes, BuilderFails, JobStatus
    <3>3. jobs[j].rows \in [Ids -> Row]
      BY JobType DEF TypeOK, Job
    <3>4. graph' \in [Ids -> Row]
      <4>1. graph \in [Ids -> Row]
        BY DEF TypeOK, OpenspgType
      <4>. QED  BY <3>1, <3>3, <4>1 DEF Upsert
    <3>5. jobs' \in Seq(Job) /\ DOMAIN jobs' = DOMAIN jobs
      <4>1. jobs \in Seq(Job)
        BY DEF TypeOK, OpenspgType, Job
      <4>2. \A e \in Job : [e EXCEPT !.status = result] \in Job
        BY DEF Job
      <4>. QED  BY <3>2, <4>1, <4>2, StatusUpdate
    <3>. QED  BY <3>4, <3>5 DEF OpenspgType, Job
  <2>2. CASE PurgeNodes
    BY <2>2 DEF PurgeNodes, TypeOK, OpenspgType, Row
  <2>. QED  BY <2>1, <2>2 DEF OpenSpg
<1>4. PlaceType'
  BY <1>1, <1>3 DEF TypeOK, PlaceType, outsideOpenspg, fileVars
<1>. QED  BY <1>2, <1>3, <1>4 DEF TypeOK

LEMMA TypeStep == TypeOK /\ [Next]_vars => TypeOK'
<1>. SUFFICES ASSUME TypeOK, [Next]_vars PROVE TypeOK'
  OBVIOUS
<1>1. CASE Inbox
  BY <1>1, TypeInbox
<1>2. CASE \E f \in ForceChoices : StartBuild(f)
  BY <1>2, TypeStart
<1>3. CASE BuildStep
  BY <1>3, TypeExport, TypeLoad, TypeSettle DEF BuildStep
<1>4. CASE AbortBuild
  BY <1>4, TypeAbort
<1>5. CASE OpenSpg
  BY <1>5, TypeOpenSpg
<1>6. CASE UNCHANGED vars
  BY <1>6, TypeFrame DEF TypeOK, vars, openspgVars
<1>. QED  BY <1>1, <1>2, <1>3, <1>4, <1>5, <1>6 DEF Next

(***************************************************************************)
(* Every reachable state is well typed, and the build's place fits what it *)
(* remembers: a file in the file loop, a job where it waits for one        *)
(* (build-kb.ts:121-228).                                                  *)
(***************************************************************************)
THEOREM TypeCorrect == Spec => []TypeOK
BY TypeInit, TypeStep, PTL DEF Spec

-----------------------------------------------------------------------------
Parts == VersionPart /\ PagesPart /\ PlanPart /\ MirrorPart /\ CleanPart

-----------------------------------------------------------------------------
(***************************************************************************)
(* Paging.                                                                 *)
(***************************************************************************)

\* Two prefixes of one order with the same length are equal.
LEMMA NewestUnique ==
    ASSUME NEW P \in SUBSET Drafts, NEW A, NEW B, NewestOf(A, P), NewestOf(B, P),
           Cardinality(A) = Cardinality(B)
    PROVE  A = B
<1>1. A \in SUBSET Drafts /\ B \in SUBSET Drafts
  BY DEF NewestOf
<1>2. IsFiniteSet(A) /\ IsFiniteSet(B)
  BY <1>1, SubsetsOfDrafts
<1>3. CASE A \subseteq B
  BY <1>2, <1>3, FS_Subset
<1>4. CASE B \subseteq A
  BY <1>2, <1>4, FS_Subset
<1>5. CASE ~(A \subseteq B) /\ ~(B \subseteq A)
  <2>1. PICK x \in A : x \notin B
    BY <1>5
  <2>2. PICK y \in B : y \notin A
    BY <1>5
  <2>3. x > y /\ y > x
    BY <2>1, <2>2 DEF NewestOf
  <2>4. x \in Nat /\ y \in Nat
    BY <1>1, DraftsAssumption
  <2>. QED  BY <2>3, <2>4
<1>. QED  BY <1>3, <1>4, <1>5

\* With nothing changed since the snapshot, a page continues the ones before.
LEMMA NextPage ==
    ASSUME TypeOK, PagesPart, Unchanged, pc = "page",
           NEW newer \in SUBSET Promoted, NEW page \in SUBSET (Promoted \ newer),
           IsPage(newer, page)
    PROVE  /\ newer = fetched
           /\ NewestOf(fetched \cup page, Promoted)
           /\ Cardinality(fetched \cup page) = Cardinality(fetched) + Cardinality(page)
           /\ Cardinality(fetched \cup page)
                 = AtMost(AtMost(offset + PageSize, Cardinality(Drafts)), Cardinality(Promoted))
           /\ LastPage(page) => fetched \cup page = Promoted
<1>. DEFINE n == Cardinality(Promoted)
<1>1. Promoted \in SUBSET Drafts
  BY PromotedType
<1>2. n \in Nat /\ n <= Cardinality(Drafts) /\ Cardinality(Drafts) \in Nat
  BY <1>1, SubsetsOfDrafts
<1>3. /\ NewestOf(fetched, Promoted) /\ Cardinality(fetched) = AtMost(offset, n)
      /\ outLen = Cardinality(fetched) /\ total = n
  BY DEF PagesPart
<1>4. newer = fetched
  <2>1. NewestOf(newer, Promoted) /\ Cardinality(newer) = AtMost(offset, n)
    BY DEF IsPage, NewestOf
  <2>. QED  BY <1>1, <1>3, <2>1, NewestUnique
<1>5. Cardinality(page) = AtMost(PageSize, n - Cardinality(fetched))
  BY <1>4 DEF IsPage
<1>6. NewestOf(fetched \cup page, Promoted)
  <2>1. \A x \in page, y \in Promoted \ (fetched \cup page) : x > y
    BY <1>4 DEF IsPage
  <2>. QED  BY <1>3, <1>4, <2>1 DEF NewestOf
<1>7. Cardinality(fetched \cup page) = Cardinality(fetched) + Cardinality(page)
  <2>1. fetched \in SUBSET Drafts /\ page \in SUBSET Drafts /\ fetched \cap page = {}
    BY <1>1, <1>4 DEF NewestOf
  <2>2. IsFiniteSet(fetched) /\ IsFiniteSet(page)
    BY <2>1, SubsetsOfDrafts
  <2>3. Cardinality(fetched \cap page) = 0
    BY <2>1, FS_EmptySet
  <2>4. Cardinality(fetched) \in Nat /\ Cardinality(page) \in Nat
    BY <2>2, FS_CardinalityType
  <2>5. Cardinality(fetched \cup page)
           = Cardinality(fetched) + Cardinality(page) - Cardinality(fetched \cap page)
    BY <2>2, FS_Union
  <2>. QED  BY <2>3, <2>4, <2>5
<1>8. Cardinality(fetched \cup page)
         = AtMost(AtMost(offset + PageSize, Cardinality(Drafts)), n)
  <2>1. offset \in Nat
    BY DEF TypeOK, PagesType
  <2>. HIDE DEF n
  <2>. QED  BY <1>2, <1>3, <1>5, <1>7, <2>1, PageAssumption DEF AtMost
<1>9. ASSUME LastPage(page) PROVE fetched \cup page = Promoted
  <2>1. Cardinality(fetched) \in Nat /\ Cardinality(fetched) <= n
    BY <1>2, <1>3 DEF AtMost, TypeOK, PagesType
  <2>2. Cardinality(fetched \cup page) = n
    <3>1. CASE page = {}
      <4>1. Cardinality(page) = 0
        BY <3>1, FS_EmptySet
      <4>. HIDE DEF n
      <4>. QED  BY <1>2, <1>5, <1>7, <2>1, <4>1, PageAssumption DEF AtMost
    <3>2. CASE outLen + Cardinality(page) >= total
      <4>. HIDE DEF n
      <4>. QED  BY <1>2, <1>3, <1>5, <1>7, <2>1, <3>2, PageAssumption DEF AtMost
    <3>. QED  BY <1>9, <3>1, <3>2 DEF LastPage
  <2>3. IsFiniteSet(Promoted)
    BY <1>1, SubsetsOfDrafts
  <2>. QED  BY <1>6, <2>2, <2>3, FS_Subset DEF NewestOf
<1>. QED  BY <1>4, <1>6, <1>7, <1>8, <1>9

-----------------------------------------------------------------------------
(***************************************************************************)
(* Steps that leave most of the invariant's state alone.                   *)
(***************************************************************************)
boardVars == <<inboxVars, flagVars, mirrorVars>>
memoryVars == <<snap, pageVars, exportVars>>

\* The build keeps its place, or moves on among the files.
LEMMA PartsFrame ==
    ASSUME Parts, UNCHANGED <<boardVars, memoryVars>>,
           pc' = pc \/ (pc \in Exported /\ pc' \in Exported)
    PROVE  Parts'
<1>. USE DEF boardVars, memoryVars, inboxVars, flagVars, mirrorVars, pageVars, exportVars
<1>1. Promoted' = Promoted /\ (Unchanged' <=> Unchanged)
  BY DEF Promoted, Unchanged
<1>2. (Started' <=> Started) /\ (Planned' <=> Planned)
  BY DEF Started, Planned, Exported, Loading
<1>3. VersionPart'
  BY <1>1, <1>2 DEF Parts, VersionPart
<1>4. PagesPart'
  BY <1>1 DEF Parts, PagesPart, Exported, Loading, NewestOf
<1>5. PlanPart'
  BY <1>1, <1>2 DEF Parts, PlanPart, Superseded, SourceVictims, Newer, ExplicitVictims
<1>6. MirrorPart'
  BY DEF Parts, MirrorPart, Exported, Loading, DocsOf
<1>7. CleanPart'
  BY <1>1 DEF Parts, CleanPart, Superseded, SourceVictims, Newer, ExplicitVictims
<1>. QED  BY <1>3, <1>4, <1>5, <1>6, <1>7 DEF Parts

\* The build ends: only the flag's version and a clean base's mirror matter.
LEMMA PartsForget ==
    ASSUME TypeOK, Parts, ForgetBuild, UNCHANGED boardVars
    PROVE  Parts'
<1>. USE DEF boardVars, inboxVars, flagVars, mirrorVars
<1>1. Promoted' = Promoted
  BY DEF Promoted
<1>2. VersionPart'
  BY DEF VersionPart, Started, Unchanged, ForgetBuild, TypeOK, FlagType
<1>3. PagesPart' /\ PlanPart' /\ MirrorPart'
  BY DEF PagesPart, PlanPart, MirrorPart, Planned, Exported, Loading, ForgetBuild
<1>4. CleanPart'
  BY <1>1 DEF Parts, CleanPart, ForgetBuild, Superseded, SourceVictims, Newer, ExplicitVictims
<1>. QED  BY <1>2, <1>3, <1>4 DEF Parts

\* A step of the Inbox dirties the base, or leaves its promoted drafts alone.
LEMMA InboxSummary ==
    ASSUME TypeOK, Inbox
    PROVE  /\ UNCHANGED outsideInbox
           /\ \/ MarkDirty
              \/ UNCHANGED <<flagVars, promotedAt>> /\ Promoted' = Promoted
<1>. PICK d \in Drafts : \/ CreateDraft(d) \/ SupersedeDraft(d) \/ LoseSupersede(d)
                         \/ PromoteDraft(d) \/ RejectDraft(d) \/ WithdrawDraft(d)
  BY DEF Inbox
<1>1. UNCHANGED outsideInbox
  BY DEF CreateDraft, SupersedeDraft, LoseSupersede, PromoteDraft, RejectDraft, WithdrawDraft
<1>2. CASE CreateDraft(d) \/ RejectDraft(d)
  BY <1>1, <1>2 DEF CreateDraft, RejectDraft, Promoted, TypeOK, InboxType
<1>3. CASE SupersedeDraft(d) \/ LoseSupersede(d)
  BY <1>1, <1>3 DEF SupersedeDraft, LoseSupersede, Promoted
<1>4. CASE PromoteDraft(d) \/ WithdrawDraft(d)
  BY <1>1, <1>4 DEF PromoteDraft, WithdrawDraft
<1>. QED  BY <1>2, <1>3, <1>4

LEMMA PartsInbox ==
    ASSUME TypeOK, Parts, Inbox
    PROVE  Parts'
<1>1. UNCHANGED <<mirrorVars, pc, memoryVars>>
  BY InboxSummary DEF outsideInbox, memoryVars
<1>. USE <1>1 DEF mirrorVars, memoryVars, pageVars, exportVars
<1>2. MirrorPart'
  BY DEF Parts, MirrorPart, DocsOf
<1>3. CASE MarkDirty
  <2>1. ~Unchanged' /\ dirty' # 0 /\ snap' <= dirtyVersion'
    BY <1>3 DEF MarkDirty, Unchanged, Parts, VersionPart, TypeOK, FlagType, PlaceType
  <2>2. VersionPart'
    BY <2>1 DEF Parts, VersionPart, Started
  <2>. QED  BY <1>2, <2>1, <2>2 DEF Parts, PagesPart, PlanPart, CleanPart
<1>4. CASE UNCHANGED <<flagVars, promotedAt>> /\ Promoted' = Promoted
  <2>. USE <1>4 DEF flagVars
  <2>1. Unchanged' <=> Unchanged
    BY DEF Unchanged
  <2>2. VersionPart'
    BY <2>1 DEF Parts, VersionPart, Started
  <2>3. PagesPart'
    BY <2>1 DEF Parts, PagesPart, NewestOf
  <2>4. PlanPart'
    BY <2>1 DEF Parts, PlanPart, Planned, Superseded, SourceVictims, Newer, ExplicitVictims
  <2>5. CleanPart'
    BY DEF Parts, CleanPart, Superseded, SourceVictims, Newer, ExplicitVictims
  <2>. QED  BY <1>2, <2>2, <2>3, <2>4, <2>5 DEF Parts
<1>. QED  BY <1>3, <1>4, InboxSummary

-----------------------------------------------------------------------------
(***************************************************************************)
(* The export, action by action.                                           *)
(***************************************************************************)

LEMMA PartsSnapshot ==
    ASSUME TypeOK, Parts, SnapshotDirty
    PROVE  Parts'
<1>. USE DEF SnapshotDirty, inboxVars, flagVars, mirrorVars, pageVars, exportVars
<1>1. Promoted' = Promoted /\ Cardinality(Promoted) \in Nat
  BY PromotedType, SubsetsOfDrafts DEF Promoted
<1>2. fetched = {} /\ twice = {} /\ offset = 0 /\ outLen = 0
  BY DEF Parts, VersionPart, Started
<1>3. VersionPart'
  BY DEF VersionPart, Started, Unchanged, TypeOK, FlagType
<1>4. PagesPart'
  BY <1>1, <1>2, FS_EmptySet DEF PagesPart, NewestOf, AtMost
<1>5. PlanPart' /\ MirrorPart'
  BY DEF PlanPart, MirrorPart, Planned, Exported, Loading
<1>6. CleanPart'
  BY <1>1 DEF Parts, CleanPart, Superseded, SourceVictims, Newer, ExplicitVictims
<1>. QED  BY <1>3, <1>4, <1>5, <1>6 DEF Parts

LEMMA PartsCount ==
    ASSUME TypeOK, Parts, CountPromoted
    PROVE  Parts'
<1>. USE DEF CountPromoted, outsideBuild, inboxVars, flagVars, mirrorVars, exportVars
<1>1. Promoted' = Promoted /\ (Unchanged' <=> Unchanged)
  BY DEF Promoted, Unchanged
<1>2. VersionPart'
  BY <1>1 DEF Parts, VersionPart, Started
<1>3. PagesPart'
  BY <1>1 DEF Parts, PagesPart, NewestOf
<1>4. PlanPart' /\ MirrorPart'
  BY DEF PlanPart, MirrorPart, Planned, Exported, Loading
<1>5. CleanPart'
  BY <1>1 DEF Parts, CleanPart, Superseded, SourceVictims, Newer, ExplicitVictims
<1>. QED  BY <1>2, <1>3, <1>4, <1>5 DEF Parts

LEMMA PartsSelect ==
    ASSUME TypeOK, Parts, SelectPage
    PROVE  Parts'
<1>. PICK newer \in SUBSET Promoted : \E page \in SUBSET (Promoted \ newer) :
        /\ IsPage(newer, page)
        /\ fetched' = fetched \cup page
        /\ twice' = twice \cup (fetched \cap page)
        /\ outLen' = outLen + Cardinality(page)
        /\ offset' = AtMost(offset + PageSize, Cardinality(Drafts))
        /\ pc' = IF LastPage(page) THEN "rows" ELSE "count"
  BY DEF SelectPage
<1>. PICK page \in SUBSET (Promoted \ newer) :
        /\ IsPage(newer, page)
        /\ fetched' = fetched \cup page
        /\ twice' = twice \cup (fetched \cap page)
        /\ outLen' = outLen + Cardinality(page)
        /\ offset' = AtMost(offset + PageSize, Cardinality(Drafts))
        /\ pc' = IF LastPage(page) THEN "rows" ELSE "count"
  OBVIOUS
<1>0. /\ pc = "page"
      /\ UNCHANGED <<snap, total, exportVars, outsideBuild>>
  BY DEF SelectPage
<1>. USE <1>0 DEF outsideBuild, inboxVars, flagVars, mirrorVars, exportVars
<1>1. Promoted' = Promoted /\ (Unchanged' <=> Unchanged)
  BY DEF Promoted, Unchanged
<1>2. pc' \in {"count", "rows"}
  OBVIOUS
<1>3. VersionPart'
  BY <1>1, <1>2 DEF Parts, VersionPart, Started
<1>4. PagesPart'
  <2>. SUFFICES ASSUME Unchanged PROVE PagesPart'
    BY <1>1 DEF PagesPart
  <2>1. /\ newer = fetched
        /\ NewestOf(fetched', Promoted)
        /\ Cardinality(fetched') = Cardinality(fetched) + Cardinality(page)
        /\ Cardinality(fetched') = AtMost(offset', Cardinality(Promoted))
        /\ LastPage(page) => fetched' = Promoted
    BY NextPage DEF Parts
  <2>2. twice' = {} /\ outLen' = Cardinality(fetched')
    BY <2>1 DEF Parts, PagesPart
  <2>3. CASE LastPage(page)
    BY <1>1, <2>1, <2>2, <2>3 DEF PagesPart
  <2>4. CASE ~LastPage(page)
    BY <1>1, <2>1, <2>2, <2>4 DEF PagesPart, NewestOf
  <2>. QED  BY <2>3, <2>4
<1>5. PlanPart' /\ MirrorPart'
  BY <1>2 DEF PlanPart, MirrorPart, Planned, Exported, Loading
<1>6. CleanPart'
  BY <1>1 DEF Parts, CleanPart, Superseded, SourceVictims, Newer, ExplicitVictims
<1>. QED  BY <1>3, <1>4, <1>5, <1>6 DEF Parts

LEMMA PartsSync ==
    ASSUME TypeOK, Parts, SyncGraphIds
    PROVE  Parts'
<1>0. /\ pc = "rows" /\ pc' = "mirror"
      /\ kept' = KeptNow /\ superseded' = SupersededNow /\ todo' = DocsOf(KeptNow)
      /\ fetched' = {} /\ twice' = {} /\ offset' = 0 /\ outLen' = 0
      /\ UNCHANGED <<inboxVars, flagVars, mirrorVars, snap>>
  BY DEF SyncGraphIds
<1>. USE <1>0 DEF inboxVars, flagVars, mirrorVars
<1>1. Promoted' = Promoted /\ (Unchanged' <=> Unchanged)
  BY DEF Promoted, Unchanged
<1>2. ASSUME Unchanged
      PROVE  /\ SupersededNow = Superseded(Promoted, {}, promotedAt)
             /\ KeptNow = Promoted \ SupersededNow
  BY <1>2 DEF Parts, PagesPart, SupersededNow, KeptNow
<1>3. VersionPart'
  BY <1>1 DEF Parts, VersionPart, Started
<1>4. PagesPart'
  BY DEF PagesPart
<1>5. PlanPart'
  <2>. SUFFICES ASSUME Unchanged
                PROVE  /\ KeptNow \cup SupersededNow = Promoted
                       /\ KeptNow \cap SupersededNow = {}
                       /\ Superseded(KeptNow, {}, promotedAt) = {}
    BY <1>1 DEF PlanPart, Superseded, SourceVictims, Newer, ExplicitVictims
  <2>1. SupersededNow \subseteq Promoted
    BY <1>2, SupersededIsListed
  <2>2. Superseded(KeptNow, {}, promotedAt) = {}
    BY <1>2, PromotedType, PrecedenceSettles
  <2>. QED  BY <1>2, <2>1, <2>2
<1>6. MirrorPart'
  BY DEF MirrorPart, Exported, Loading, DocsOf
<1>7. CleanPart'
  <2>. SUFFICES ASSUME dirty = 0 PROVE CleanPart'
    BY DEF CleanPart
  <2>1. SupersededNow = {}
    BY <1>2 DEF Parts, VersionPart, Started, CleanPart
  <2>. QED  BY <1>1, <2>1
       DEF Parts, CleanPart, Superseded, SourceVictims, Newer, ExplicitVictims
<1>. QED  BY <1>3, <1>4, <1>5, <1>6, <1>7 DEF Parts

\* In a clean base the build's target is what the mirror already holds.
LEMMA CleanTarget ==
    ASSUME Parts, Planned, dirty = 0
    PROVE  kept = Promoted
BY DEF Parts, VersionPart, PlanPart, CleanPart, Planned, Started, Exported, Loading

LEMMA PartsMirror ==
    ASSUME TypeOK, Parts,
           (\E doc \in Docs : ReplaceForDocument(doc)) \/ SweepMirror \/ FinishExport
    PROVE  Parts'
<1>1. /\ UNCHANGED <<inboxVars, flagVars, snap, pageVars, superseded, kept>>
      /\ pc \in {"mirror", "edges"} /\ pc' \in {"mirror", "edges", "file"}
  BY DEF ReplaceForDocument, SweepMirror, FinishExport, exportVars
<1>. USE <1>1 DEF inboxVars, flagVars, pageVars
<1>2. Promoted' = Promoted /\ (Unchanged' <=> Unchanged)
  BY DEF Promoted, Unchanged
<1>3. Planned /\ Planned'
  BY DEF Planned, Exported, Loading
<1>4. VersionPart'
  BY <1>2 DEF Parts, VersionPart, Started
<1>5. PagesPart'
  BY DEF PagesPart
<1>6. PlanPart'
  BY <1>2, <1>3 DEF Parts, PlanPart, Superseded, SourceVictims, Newer, ExplicitVictims
<1>7. MirrorPart'
  <2>. USE DEF mirrorVars, exportVars
  <2>1. CASE \E doc \in Docs : ReplaceForDocument(doc)
    BY <2>1 DEF Parts, MirrorPart, ReplaceForDocument, Exported, Loading, DocsOf
  <2>2. CASE SweepMirror
    BY <2>2 DEF Parts, MirrorPart, SweepMirror, Swept, Exported, Loading, DocsOf
  <2>3. CASE FinishExport
    BY <2>3 DEF Parts, MirrorPart, FinishExport, Exported, Loading, DocsOf
  <2>. QED  BY <2>1, <2>2, <2>3
<1>8. CleanPart'
  <2>. SUFFICES ASSUME dirty = 0
                PROVE  mirror' = DocsOf(Promoted) /\ edges' = DocsOf(Promoted)
    BY <1>2 DEF Parts, CleanPart, Superseded, SourceVictims, Newer, ExplicitVictims, DocsOf
  <2>1. kept = Promoted /\ mirror = DocsOf(kept) /\ edges = DocsOf(kept)
    BY <1>3, CleanTarget DEF Parts, CleanPart
  <2>2. CASE \E doc \in Docs : ReplaceForDocument(doc)
    BY <2>1, <2>2 DEF Parts, MirrorPart, ReplaceForDocument
  <2>3. CASE SweepMirror
    BY <2>1, <2>3 DEF SweepMirror, Swept
  <2>4. CASE FinishExport
    BY <2>1, <2>4 DEF FinishExport
  <2>. QED  BY <2>2, <2>3, <2>4
<1>. QED  BY <1>4, <1>5, <1>6, <1>7, <1>8 DEF Parts

LEMMA PartsExport ==
    ASSUME TypeOK, Parts, Export
    PROVE  Parts'
<1>1. CASE AbortOnDuplicates
  BY <1>1, PartsForget DEF AbortOnDuplicates, boardVars
<1>. QED  BY <1>1, PartsSnapshot, PartsCount, PartsSelect, PartsSync, PartsMirror DEF Export

-----------------------------------------------------------------------------
(***************************************************************************)
(* The files, the end of the build, and everything else.                   *)
(***************************************************************************)

LEMMA PartsLoad ==
    ASSUME TypeOK, Parts, LoadFiles
    PROVE  Parts'
<1>1. UNCHANGED boardVars /\ pc \in Loading
  BY DEF LoadFiles, SkipEmptyFile, UploadFromCache, UploadFile, SkipFinished, ReuseJob,
         SubmitCsvUpsertJob, RecordBuildJob, JobEnds, JobTimesOut,
         boardVars, outsideBuild, Loading
<1>2. ForgetBuild \/ (UNCHANGED memoryVars /\ pc' \in Exported)
  <2>1. CASE SkipEmptyFile \/ SkipFinished
    BY <2>1 DEF SkipEmptyFile, SkipFinished, NextFile, memoryVars, Exported, Loading
  <2>2. CASE UploadFromCache \/ UploadFile \/ ReuseJob \/ SubmitCsvUpsertJob
    BY <2>2 DEF UploadFromCache, UploadFile, ReuseJob, SubmitCsvUpsertJob,
                memoryVars, Exported, Loading
  <2>3. CASE RecordBuildJob
    BY <2>3 DEF RecordBuildJob, memoryVars, Exported, Loading
  <2>4. CASE JobEnds
    BY <2>4 DEF JobEnds, NextFile, memoryVars, Exported, Loading
  <2>5. CASE JobTimesOut
    BY <2>5 DEF JobTimesOut
  <2>. QED  BY <2>1, <2>2, <2>3, <2>4, <2>5 DEF LoadFiles
<1>. QED  BY <1>1, <1>2, PartsForget, PartsFrame DEF Exported

\* With nothing changed, what precedence dropped leaves Promoted to the target.
LEMMA PartsWithdraw ==
    ASSUME TypeOK, Parts, NEW d \in Drafts, WithdrawSupersededDraft(d)
    PROVE  Parts'
<1>1. /\ pc = "settle" /\ d \in superseded /\ superseded' = superseded \ {d}
      /\ status' = IF status[d] = "promoted"
                   THEN [status EXCEPT ![d] = "withdrawn"] ELSE status
      /\ UNCHANGED <<promotedAt, flagVars, mirrorVars, pc, snap, pageVars, kept, todo>>
  BY DEF WithdrawSupersededDraft
<1>. USE <1>1 DEF flagVars, mirrorVars, pageVars
<1>2. Promoted' = Promoted \ {d}
  BY DEF Promoted, TypeOK, InboxType
<1>3. dirty # 0
  BY DEF Parts, CleanPart
<1>4. Unchanged' <=> Unchanged
  BY DEF Unchanged
<1>5. VersionPart'
  BY <1>4 DEF Parts, VersionPart, Started
<1>6. PagesPart'
  BY DEF PagesPart
<1>7. PlanPart'
  <2>. SUFFICES ASSUME Unchanged PROVE PlanPart'
    BY <1>4 DEF PlanPart
  <2>1. /\ kept \cup superseded = Promoted /\ kept \cap superseded = {}
        /\ Superseded(kept, {}, promotedAt) = {}
    BY DEF Parts, PlanPart, Planned, Exported
  <2>2. kept \cup superseded' = Promoted' /\ kept \cap superseded' = {}
    BY <1>2, <2>1
  <2>. QED  BY <2>1, <2>2 DEF PlanPart, Superseded, SourceVictims, Newer, ExplicitVictims
<1>8. MirrorPart'
  BY DEF Parts, MirrorPart, DocsOf
<1>9. CleanPart'
  BY <1>3 DEF CleanPart
<1>. QED  BY <1>5, <1>6, <1>7, <1>8, <1>9 DEF Parts

LEMMA PartsSettle ==
    ASSUME TypeOK, Parts, Settle
    PROVE  Parts'
<1>1. CASE ConfirmTombstones
  BY <1>1, PartsFrame DEF ConfirmTombstones, boardVars, memoryVars, Exported
<1>2. CASE SettleDirtyAfterBuild
  <2>. USE <1>2 DEF SettleDirtyAfterBuild, inboxVars, mirrorVars
  <2>1. Promoted' = Promoted
    BY DEF Promoted
  <2>2. VersionPart'
    BY DEF VersionPart, Started, ForgetBuild, TypeOK, FlagType
  <2>3. PagesPart' /\ PlanPart' /\ MirrorPart'
    BY DEF PagesPart, PlanPart, MirrorPart, Planned, Exported, Loading, ForgetBuild
  <2>4. CleanPart'
    <3>1. CASE Unchanged
      <4>1. kept = Promoted /\ Superseded(kept, {}, promotedAt) = {}
        BY <3>1 DEF Parts, PlanPart, Planned, Exported
      <4>2. mirror = DocsOf(kept) /\ edges = DocsOf(kept)
        BY DEF Parts, MirrorPart, Exported
      <4>. QED  BY <2>1, <4>1, <4>2
           DEF CleanPart, ForgetBuild, Superseded, SourceVictims, Newer, ExplicitVictims
    <3>2. CASE ~Unchanged
      <4>1. dirty' = dirty /\ dirty # 0
        BY <3>2 DEF ChangedDuringBuild, Unchanged, Parts, VersionPart, Started,
                    TypeOK, FlagType, PlaceType
      <4>. QED  BY <4>1 DEF CleanPart
    <3>. QED  BY <3>1, <3>2
  <2>. QED  BY <2>2, <2>3, <2>4 DEF Parts
<1>. QED  BY <1>1, <1>2, PartsWithdraw DEF Settle

LEMMA PartsStart ==
    ASSUME TypeOK, Parts, NEW f \in ForceChoices, StartBuild(f)
    PROVE  Parts'
<1>. USE DEF StartBuild, outsideBuild, inboxVars, flagVars, mirrorVars, pageVars, exportVars
<1>1. Promoted' = Promoted
  BY DEF Promoted
<1>2. VersionPart'
  BY DEF Parts, VersionPart, Started
<1>3. PagesPart' /\ PlanPart' /\ MirrorPart'
  BY DEF PagesPart, PlanPart, MirrorPart, Planned, Exported, Loading
<1>4. CleanPart'
  BY <1>1 DEF Parts, CleanPart, Superseded, SourceVictims, Newer, ExplicitVictims
<1>. QED  BY <1>2, <1>3, <1>4 DEF Parts

LEMMA MirrorInvInit == Init => MirrorInv
<1>. SUFFICES ASSUME Init PROVE MirrorInv
  OBVIOUS
<1>1. Promoted = {}
  BY DEF Init, Promoted
<1>2. VersionPart /\ PagesPart /\ PlanPart /\ MirrorPart
  BY DEF Init, VersionPart, PagesPart, PlanPart, MirrorPart, Started, Planned,
         Exported, Loading
<1>3. CleanPart
  BY <1>1, SupersededIsListed DEF Init, CleanPart, DocsOf
<1>. QED  BY <1>2, <1>3, TypeInit DEF MirrorInv

LEMMA MirrorInvStep == MirrorInv /\ [Next]_vars => MirrorInv'
<1>. SUFFICES ASSUME TypeOK, Parts, [Next]_vars PROVE MirrorInv'
  BY DEF MirrorInv, Parts
<1>1. TypeOK'
  BY TypeStep
<1>2. Parts'
  <2>1. CASE Inbox
    BY <2>1, PartsInbox
  <2>2. CASE \E f \in ForceChoices : StartBuild(f)
    BY <2>2, PartsStart
  <2>3. CASE BuildStep
    BY <2>3, PartsExport, PartsLoad, PartsSettle DEF BuildStep
  <2>4. CASE AbortBuild
    BY <2>4, PartsForget DEF AbortBuild, boardVars
  <2>5. CASE OpenSpg
    <3>1. UNCHANGED outsideOpenspg
      BY <2>5 DEF OpenSpg, BuilderFinishes, BuilderFails, PurgeNodes
    <3>. QED  BY <3>1, PartsFrame DEF outsideOpenspg, boardVars, memoryVars
  <2>6. CASE UNCHANGED vars
    BY <2>6, PartsFrame DEF vars, boardVars, memoryVars
  <2>. QED  BY <2>1, <2>2, <2>3, <2>4, <2>5, <2>6 DEF Next
<1>. QED  BY <1>1, <1>2 DEF MirrorInv, Parts

(***************************************************************************)
(* A clean base's mirror and edges hold exactly the documents of the       *)
(* promoted drafts, whatever was promoted or withdrawn while builds ran,   *)
(* failed or died: the guarantee of settleDirtyAfterBuild (kb-dirty.ts).   *)
(***************************************************************************)
THEOREM MirrorIsClean == Spec => []CleanMeansMirrorMatches
<1>1. MirrorInv => CleanMeansMirrorMatches
  BY DEF MirrorInv, CleanPart, CleanMeansMirrorMatches
<1>. QED  BY <1>1, MirrorInvInit, MirrorInvStep, PTL DEF Spec

(***************************************************************************)
(* The inductive invariant itself holds in every reachable state: the      *)
(* pages the export has read, the plan it made and what it has written.    *)
(***************************************************************************)
THEOREM MirrorInvariant == Spec => []MirrorInv
BY MirrorInvInit, MirrorInvStep, PTL DEF Spec


-----------------------------------------------------------------------------
(***************************************************************************)
(* The registry comes first.                                               *)
(***************************************************************************)

\* What a step leaves alone, or takes away, needs no registration.
LEMMA TrackedFrame ==
    ASSUME TrackedInv, UNCHANGED <<reg, openspgVars>>, rows' \in {rows, NoRows}
    PROVE  TrackedInv'
<1>1. \A id \in Ids : rows'[id] # Absent => rows[id] # Absent
  BY DEF NoRows
<1>2. \A j : RowsOf(j)' = RowsOf(j)
  BY DEF RowsOf, openspgVars
<1>. QED  BY <1>1, <1>2 DEF TrackedInv, NothingUntracked, openspgVars

LEMMA TrackedSync ==
    ASSUME TypeOK, TrackedInv, SyncGraphIds
    PROVE  TrackedInv'
<1>1. \A id \in Ids : reg[id] # "none" => reg'[id] # "none"
  BY DEF SyncGraphIds, Outstanding
<1>2. \A id \in Ids : rows'[id] # Absent => reg'[id] # "none"
  BY DEF SyncGraphIds, Registered, TombstoneRow, Outstanding
<1>3. \A j : RowsOf(j)' = RowsOf(j)
  BY DEF RowsOf, SyncGraphIds, openspgVars
<1>. QED  BY <1>1, <1>2, <1>3 DEF TrackedInv, NothingUntracked, SyncGraphIds, openspgVars

LEMMA TrackedSubmit ==
    ASSUME TypeOK, TrackedInv, SubmitCsvUpsertJob
    PROVE  TrackedInv'
<1>. DEFINE new == [file |-> FileName, url |-> url, rows |-> Sha, status |-> "RUNNING"]
<1>1. jobs' = Append(jobs, new) /\ UNCHANGED <<reg, graph, rows>>
  BY DEF SubmitCsvUpsertJob, exportVars
<1>2. \A id \in Ids : Sha[id] # Absent => rows[id] # Absent
  BY DEF Sha, Content
<1>3. ASSUME NEW id \in Ids, NEW j \in DOMAIN jobs', id \in RowsOf(j)'
      PROVE  reg[id] # "none"
  <2>1. jobs \in Seq(Job)
    BY DEF TypeOK, OpenspgType, Job
  <2>2. jobs'[j].rows[id] # Absent
    BY <1>3 DEF RowsOf
  <2>3. CASE j \in DOMAIN jobs
    <3>1. jobs'[j] = jobs[j]
      BY <1>1, <2>1, <2>3
    <3>2. id \in RowsOf(j)
      BY <2>2, <3>1 DEF RowsOf
    <3>. QED  BY <2>3, <3>2 DEF TrackedInv, NothingUntracked
  <2>4. CASE j \notin DOMAIN jobs
    <3>1. jobs'[j] = new
      BY <1>1, <1>3, <2>1, <2>4
    <3>. QED  BY <1>2, <2>2, <3>1 DEF TrackedInv
  <2>. QED  BY <2>3, <2>4
<1>. QED  BY <1>1, <1>3 DEF TrackedInv, NothingUntracked

LEMMA TrackedOpenSpg ==
    ASSUME TypeOK, TrackedInv, OpenSpg
    PROVE  TrackedInv'
<1>1. UNCHANGED <<reg, rows>>
  BY DEF OpenSpg, BuilderFinishes, BuilderFails, PurgeNodes, outsideOpenspg, exportVars
<1>2. CASE \E j \in DOMAIN jobs : BuilderFinishes(j) \/ BuilderFails(j)
  <2>. PICK j \in DOMAIN jobs : BuilderFinishes(j) \/ BuilderFails(j)
    BY <1>2
  <2>1. PICK done \in SUBSET RowsOf(j) : Upsert(j, done)
    BY DEF BuilderFinishes, BuilderFails, RowsOf
  <2>2. PICK result \in JobStatus : jobs' = [jobs EXCEPT ![j].status = result]
    BY DEF BuilderFinishes, BuilderFails, JobStatus
  <2>3. DOMAIN jobs' = DOMAIN jobs /\ \A k \in DOMAIN jobs : jobs'[k].rows = jobs[k].rows
    <3>1. \A k \in DOMAIN jobs : jobs[k] \in Job
      BY JobType DEF TypeOK
    <3>. QED  BY <2>2, <3>1 DEF Job, TypeOK, OpenspgType
  <2>4. \A k \in DOMAIN jobs : RowsOf(k)' = RowsOf(k)
    BY <2>3 DEF RowsOf
  <2>5. \A id \in Ids : graph'[id] # Absent => graph[id] # Absent \/ id \in RowsOf(j)
    BY <2>1 DEF Upsert
  <2>. QED  BY <1>1, <2>3, <2>4, <2>5 DEF TrackedInv, NothingUntracked
<1>3. CASE PurgeNodes
  <2>1. \A j : RowsOf(j)' = RowsOf(j)
    BY <1>3 DEF PurgeNodes, RowsOf
  <2>2. \A id \in Ids : graph'[id] # Absent => graph[id] # Absent
    BY <1>3 DEF PurgeNodes
  <2>. QED  BY <1>1, <1>3, <2>1, <2>2 DEF TrackedInv, NothingUntracked, PurgeNodes
<1>. QED  BY <1>2, <1>3 DEF OpenSpg

LEMMA TrackedStep == TypeOK /\ TrackedInv /\ [Next]_vars => TrackedInv'
<1>. SUFFICES ASSUME TypeOK, TrackedInv, [Next]_vars PROVE TrackedInv'
  OBVIOUS
<1>1. CASE Inbox \/ UNCHANGED vars
  <2>1. UNCHANGED <<reg, openspgVars, rows>>
    BY <1>1 DEF Inbox, CreateDraft, SupersedeDraft, LoseSupersede, PromoteDraft, RejectDraft,
                WithdrawDraft, outsideInbox, exportVars, vars
  <2>. QED  BY <2>1, TrackedFrame
<1>2. CASE (\E f \in ForceChoices : StartBuild(f)) \/ AbortBuild
  BY <1>2, TrackedFrame DEF StartBuild, AbortBuild, ForgetBuild, outsideBuild, exportVars
<1>3. CASE Export
  <2>1. CASE SyncGraphIds
    BY <2>1, TrackedSync
  <2>2. CASE Export /\ ~SyncGraphIds
    BY <2>2, TrackedFrame
    DEF Export, SnapshotDirty, CountPromoted, SelectPage, AbortOnDuplicates,
        ReplaceForDocument, SweepMirror, FinishExport, ForgetBuild, outsideBuild, exportVars
  <2>. QED  BY <1>3, <2>1, <2>2
<1>4. CASE LoadFiles
  <2>1. CASE SubmitCsvUpsertJob
    BY <2>1, TrackedSubmit
  <2>2. CASE LoadFiles /\ ~SubmitCsvUpsertJob
    BY <2>2, TrackedFrame
    DEF LoadFiles, SkipEmptyFile, UploadFromCache, UploadFile, SkipFinished, ReuseJob,
        RecordBuildJob, JobEnds, JobTimesOut, ForgetBuild, outsideBuild, exportVars
  <2>. QED  BY <1>4, <2>1, <2>2
<1>5. CASE Settle
  <2>1. CASE ConfirmTombstones
    <3>1. UNCHANGED <<openspgVars, rows>>
      BY <2>1 DEF ConfirmTombstones, exportVars
    <3>2. \A id \in Ids : reg[id] # "none" => reg'[id] # "none"
      BY <2>1 DEF ConfirmTombstones
    <3>3. \A j : RowsOf(j)' = RowsOf(j)
      BY <3>1 DEF RowsOf, openspgVars
    <3>. QED  BY <3>1, <3>2, <3>3 DEF TrackedInv, NothingUntracked, openspgVars
  <2>2. CASE (\E d \in Drafts : WithdrawSupersededDraft(d)) \/ SettleDirtyAfterBuild
    BY <2>2, TrackedFrame DEF WithdrawSupersededDraft, SettleDirtyAfterBuild, ForgetBuild
  <2>. QED  BY <1>5, <2>1, <2>2 DEF Settle
<1>6. CASE OpenSpg
  BY <1>6, TrackedOpenSpg
<1>. QED  BY <1>1, <1>2, <1>3, <1>4, <1>5, <1>6 DEF Next, BuildStep

(***************************************************************************)
(* Every node of the graph, and every row of every OpenSPG job, is known   *)
(* to the registry, so a later build's tombstones reach it: graph_ids is   *)
(* written before the files (exporter.ts:637-655, graph-ids.ts:47-81).     *)
(***************************************************************************)
THEOREM GraphIsTracked == Spec => []NothingUntracked
<1>1. Init => TrackedInv
  BY DEF Init, TrackedInv, NothingUntracked, NoRows
<1>2. TrackedInv => NothingUntracked
  BY DEF TrackedInv
<1>. QED  BY <1>1, <1>2, TrackedStep, TypeCorrect, PTL DEF Spec

-----------------------------------------------------------------------------
(***************************************************************************)
(* Every withdrawal by a build has its replacement.                        *)
(***************************************************************************)

\* Drafts that were promoted, and the time of it.
PromotedOnce ==
    \A d \in Drafts : promotedAt[d] > 0 <=> status[d] \in {"promoted", "withdrawn"}

LEMMA PromotedOnceStep ==
    ASSUME TypeOK, PromotedOnce, [Next]_vars
    PROVE  /\ PromotedOnce'
           /\ \A d \in Drafts : promotedAt[d] > 0 => promotedAt'[d] = promotedAt[d]
<1>1. CASE Inbox
  <2>. PICK d \in Drafts : \/ CreateDraft(d) \/ SupersedeDraft(d) \/ LoseSupersede(d)
                           \/ PromoteDraft(d) \/ RejectDraft(d) \/ WithdrawDraft(d)
    BY <1>1 DEF Inbox
  <2>. USE DEF TypeOK, InboxType, PromotedOnce
  <2>1. CASE CreateDraft(d) \/ RejectDraft(d) \/ WithdrawDraft(d) \/ LoseSupersede(d)
    BY <2>1 DEF CreateDraft, RejectDraft, WithdrawDraft, LoseSupersede
  <2>2. CASE SupersedeDraft(d)
    BY <2>2 DEF SupersedeDraft
  <2>3. CASE PromoteDraft(d)
    <3>1. {e \in Drafts : promotedAt[e] > 0} \in SUBSET Drafts
      OBVIOUS
    <3>2. 1 + Cardinality({e \in Drafts : promotedAt[e] > 0}) > 0
      BY <3>1, SubsetsOfDrafts
    <3>. QED  BY <2>3, <3>2 DEF PromoteDraft
  <2>. QED  BY <2>1, <2>2, <2>3
<1>2. CASE \E d \in Drafts : WithdrawSupersededDraft(d)
  BY <1>2 DEF WithdrawSupersededDraft, PromotedOnce, TypeOK, InboxType
<1>3. CASE UNCHANGED <<status, promotedAt>>
  BY <1>3 DEF PromotedOnce
<1>4. \/ Inbox \/ (\E d \in Drafts : WithdrawSupersededDraft(d))
      \/ UNCHANGED <<status, promotedAt>>
  <2>. USE DEF inboxVars, outsideBuild
  <2>1. Export => UNCHANGED <<status, promotedAt>>
    BY DEF Export, SnapshotDirty, CountPromoted, SelectPage, AbortOnDuplicates, SyncGraphIds,
           ReplaceForDocument, SweepMirror, FinishExport
  <2>2. LoadFiles => UNCHANGED <<status, promotedAt>>
    BY DEF LoadFiles, SkipEmptyFile, UploadFromCache, UploadFile, SkipFinished, ReuseJob,
           SubmitCsvUpsertJob, RecordBuildJob, JobEnds, JobTimesOut
  <2>3. ConfirmTombstones \/ SettleDirtyAfterBuild => UNCHANGED <<status, promotedAt>>
    BY DEF ConfirmTombstones, SettleDirtyAfterBuild
  <2>4. (\E f \in ForceChoices : StartBuild(f)) \/ AbortBuild
          => UNCHANGED <<status, promotedAt>>
    BY DEF StartBuild, AbortBuild
  <2>5. OpenSpg => UNCHANGED <<status, promotedAt>>
    BY DEF OpenSpg, BuilderFinishes, BuilderFails, PurgeNodes, outsideOpenspg
  <2>6. UNCHANGED vars => UNCHANGED <<status, promotedAt>>
    BY DEF vars
  <2>. QED  BY <2>1, <2>2, <2>3, <2>4, <2>5, <2>6 DEF Next, BuildStep, Settle
<1>. QED  BY <1>1, <1>2, <1>3, <1>4

\* When one page holds every draft, a second page is empty.
LEMMA OnePageSelect ==
    ASSUME Cardinality(Drafts) <= PageSize, TypeOK, OnePage, SelectPage
    PROVE  OnePage' /\ fetched' \subseteq fetched \cup Promoted
<1>. PICK newer \in SUBSET Promoted : \E page \in SUBSET (Promoted \ newer) :
        /\ IsPage(newer, page)
        /\ fetched' = fetched \cup page
        /\ twice' = twice \cup (fetched \cap page)
        /\ offset' = AtMost(offset + PageSize, Cardinality(Drafts))
  BY DEF SelectPage
<1>. PICK page \in SUBSET (Promoted \ newer) :
        /\ IsPage(newer, page)
        /\ fetched' = fetched \cup page
        /\ twice' = twice \cup (fetched \cap page)
        /\ offset' = AtMost(offset + PageSize, Cardinality(Drafts))
  OBVIOUS
<1>. DEFINE all == Cardinality(Drafts)  n == Cardinality(Promoted)
<1>1. Promoted \in SUBSET Drafts
  BY PromotedType
<1>2. all \in Nat /\ n \in Nat /\ n <= all /\ offset \in Nat
  BY <1>1, SubsetsOfDrafts DEF TypeOK, PagesType
<1>3. offset' = all
  BY <1>2, PageAssumption DEF AtMost
<1>4. offset' = 0 => fetched' = {}
  <2>. SUFFICES ASSUME offset' = 0 PROVE fetched' = {}
    OBVIOUS
  <2>1. Drafts = {}
    BY <1>3, DraftsAssumption, FS_EmptySet
  <2>. QED  BY <1>1, <2>1 DEF TypeOK, PagesType
<1>5. fetched \cap page = {}
  <2>1. CASE offset = 0
    BY <2>1 DEF OnePage
  <2>2. CASE offset # 0
    <3>1. Cardinality(newer) = n
      <4>. HIDE DEF all, n
      <4>. QED  BY <1>2, <2>2 DEF OnePage, IsPage, AtMost, all, n
    <3>2. IsFiniteSet(Promoted)
      BY <1>1, SubsetsOfDrafts
    <3>3. newer = Promoted
      BY <3>1, <3>2, FS_Subset
    <3>. QED  BY <3>3
  <2>. QED  BY <2>1, <2>2
<1>. QED  BY <1>3, <1>4, <1>5 DEF OnePage

LEMMA OnePageStep ==
    ASSUME Cardinality(Drafts) <= PageSize, TypeOK, OnePage, [Next]_vars
    PROVE  OnePage' /\ fetched' \subseteq fetched \cup Promoted
<1>. USE DEF pageVars, outsideBuild
<1>1. CASE SelectPage
  BY <1>1, OnePageSelect
<1>2. CASE UNCHANGED <<twice, offset, fetched>>
  BY <1>2 DEF OnePage
<1>3. CASE twice' = {} /\ offset' = 0 /\ fetched' = {}
  BY <1>3 DEF OnePage
<1>4. SelectPage \/ UNCHANGED <<twice, offset, fetched>>
        \/ (twice' = {} /\ offset' = 0 /\ fetched' = {})
  <2>1. CASE Inbox \/ UNCHANGED vars
    BY <2>1 DEF Inbox, CreateDraft, SupersedeDraft, LoseSupersede, PromoteDraft, RejectDraft,
                WithdrawDraft, outsideInbox, vars
  <2>2. CASE (\E f \in ForceChoices : StartBuild(f)) \/ AbortBuild
    BY <2>2 DEF StartBuild, AbortBuild, ForgetBuild
  <2>3. CASE Export
    BY <2>3 DEF Export, SnapshotDirty, CountPromoted, AbortOnDuplicates, SyncGraphIds,
                ReplaceForDocument, SweepMirror, FinishExport, ForgetBuild
  <2>4. CASE LoadFiles
    BY <2>4 DEF LoadFiles, SkipEmptyFile, UploadFromCache, UploadFile, SkipFinished, ReuseJob,
                SubmitCsvUpsertJob, RecordBuildJob, JobEnds, JobTimesOut, ForgetBuild
  <2>5. CASE Settle
    BY <2>5 DEF Settle, ConfirmTombstones, WithdrawSupersededDraft, SettleDirtyAfterBuild,
                ForgetBuild
  <2>6. CASE OpenSpg
    BY <2>6 DEF OpenSpg, BuilderFinishes, BuilderFails, PurgeNodes, outsideOpenspg
  <2>. QED  BY <2>1, <2>2, <2>3, <2>4, <2>5, <2>6 DEF Next, BuildStep
<1>. QED  BY <1>1, <1>2, <1>3, <1>4

\* Outside SyncGraphIds the list of superseded drafts only shrinks.
LEMMA SupersededShrinks ==
    ASSUME [Next]_vars, ~SyncGraphIds
    PROVE  superseded' \subseteq superseded
<1>. USE DEF exportVars, outsideBuild
<1>1. CASE Inbox \/ UNCHANGED vars
  BY <1>1 DEF Inbox, CreateDraft, SupersedeDraft, LoseSupersede, PromoteDraft, RejectDraft,
              WithdrawDraft, outsideInbox, vars
<1>2. CASE (\E f \in ForceChoices : StartBuild(f)) \/ AbortBuild
  BY <1>2 DEF StartBuild, AbortBuild, ForgetBuild
<1>3. CASE Export
  BY <1>3 DEF Export, SnapshotDirty, CountPromoted, SelectPage, AbortOnDuplicates,
              ReplaceForDocument, SweepMirror, FinishExport, ForgetBuild
<1>4. CASE LoadFiles
  BY <1>4 DEF LoadFiles, SkipEmptyFile, UploadFromCache, UploadFile, SkipFinished, ReuseJob,
              SubmitCsvUpsertJob, RecordBuildJob, JobEnds, JobTimesOut, ForgetBuild
<1>5. CASE Settle
  BY <1>5 DEF Settle, ConfirmTombstones, WithdrawSupersededDraft, SettleDirtyAfterBuild,
              ForgetBuild
<1>6. CASE OpenSpg
  BY <1>6 DEF OpenSpg, BuilderFinishes, BuilderFails, PurgeNodes, outsideOpenspg
<1>. QED  BY <1>1, <1>2, <1>3, <1>4, <1>5, <1>6 DEF Next, BuildStep

LEMMA ReplacedInvStep ==
    ASSUME Cardinality(Drafts) <= PageSize, ReplacedInv, [Next]_vars
    PROVE  ReplacedInv'
<1>. USE DEF ReplacedInv
<1>1. TypeOK' /\ OnePage' /\ fetched' \subseteq fetched \cup Promoted
  BY TypeStep, OnePageStep
<1>2. PromotedOnce' /\ \A d \in Drafts : promotedAt[d] > 0 => promotedAt'[d] = promotedAt[d]
  BY PromotedOnceStep DEF PromotedOnce
<1>3. fetched \subseteq Drafts /\ superseded \subseteq Drafts
  BY DEF TypeOK, PagesType, ExportType
<1>4. superseded' \subseteq fetched \cup superseded
  <2>1. CASE SyncGraphIds
    BY <2>1, SupersededIsListed DEF SyncGraphIds, SupersededNow
  <2>. QED  BY <2>1, SupersededShrinks
<1>5. \A d \in fetched' \cup superseded' : promotedAt'[d] > 0
  <2>1. \A d \in Promoted : d \in Drafts /\ promotedAt[d] > 0
    BY DEF Promoted
  <2>2. \A d \in fetched' \cup superseded' : d \in Drafts /\ promotedAt[d] > 0
    BY <1>1, <1>3, <1>4, <2>1
  <2>. QED  BY <1>2, <2>2
<1>6. \A d \in superseded' : \E e \in Drafts : Replaces(e, d)
  <2>1. CASE SyncGraphIds
    <3>. SUFFICES ASSUME NEW d \in superseded'
                  PROVE  \E e \in Drafts : Replaces(e, d)
      OBVIOUS
    <3>1. d \in Superseded(fetched, {}, promotedAt)
      BY <2>1 DEF SyncGraphIds, SupersededNow, OnePage
    <3>2. PICK e \in fetched :
            \/ e # d /\ SupersedesOf[e] = d
            \/ RefOf[d] # NoRef /\ RefOf[e] = RefOf[d] /\ Newer(e, d, promotedAt)
      BY <1>3, <3>1, SupersededHasReplacement
    <3>3. d \in fetched
      BY <3>1, SupersededIsListed
    <3>4. ~Newer(d, d, promotedAt)
      <4>1. promotedAt[d] \in Nat /\ d \in Nat
        BY <1>3, <3>3, DraftsAssumption DEF TypeOK, InboxType
      <4>. QED  BY <4>1 DEF Newer
    <3>5. e # d
      BY <3>2, <3>4
    <3>. QED  BY <1>3, <3>2, <3>5 DEF Replaces
  <2>2. CASE ~SyncGraphIds
    BY <2>2, SupersededShrinks
  <2>. QED  BY <2>1, <2>2
<1>7. \A d \in superseded' : \E e \in Drafts : Replaces(e, d)'
  <2>. SUFFICES ASSUME NEW d \in superseded'
                PROVE  \E e \in Drafts : Replaces(e, d)'
    OBVIOUS
  <2>1. PICK e \in Drafts : Replaces(e, d)
    BY <1>6
  <2>2. d \in Drafts /\ promotedAt[d] > 0
    BY <1>3, <1>4
  <2>3. promotedAt'[d] = promotedAt[d] /\ promotedAt'[e] = promotedAt[e]
    BY <1>2, <2>1, <2>2 DEF Replaces
  <2>4. Replaces(e, d)'
    BY <2>1, <2>3 DEF Replaces, Newer
  <2>. QED  BY <2>4
<1>. QED  BY <1>1, <1>2, <1>5, <1>7 DEF PromotedOnce

(***************************************************************************)
(* When the drafts fit in one page of listDrafts, a build withdraws a      *)
(* draft only if another draft, promoted too, names it in `supersedes` or  *)
(* is a newer version of its source (build-kb.ts:234-236,                  *)
(* exporter.ts:299-333).  Over more than one page it is false: the run     *)
(* build_paging shows the counterexample.                                  *)
(***************************************************************************)
THEOREM OnePageWithdrawals ==
    ASSUME Cardinality(Drafts) <= PageSize
    PROVE  Spec => WithdrawnByBuildWasReplaced
<1>1. Init => ReplacedInv
  BY TypeInit DEF Init, ReplacedInv, OnePage
<1>2. ReplacedInv /\ [Next]_vars => ReplacedInv'
  BY ReplacedInvStep
<1>3. ReplacedInv => [\A d \in Drafts :
                        WithdrawSupersededDraft(d) /\ status'[d] # status[d]
                          => \E e \in Drafts : Replaces(e, d)]_vars
  BY DEF ReplacedInv, WithdrawSupersededDraft
<1>. QED  BY <1>1, <1>2, <1>3, PTL DEF Spec, WithdrawnByBuildWasReplaced

-----------------------------------------------------------------------------
(***************************************************************************)
(* The operators of the load.                                              *)
(***************************************************************************)

\* The rows of the target are contents: they say neither "no node" nor "gone".
LEMMA TargetIsContent ==
    ASSUME NEW S \in SUBSET Drafts, NEW id \in GraphIdsOf(S)
    PROVE  TargetRows(S)[id] \notin Gone
<1>1. TargetRows(S)[id] # Absent /\ id \in Ids
  BY DEF GraphIdsOf
<1>2. \A topic : TopicRow(S, topic) # Tombstone
  <2>. SUFFICES ASSUME NEW topic PROVE TopicRow(S, topic) # Tombstone
    OBVIOUS
  <2>1. {d \in S : topic \in TopicsOf[d]} \in SUBSET Drafts
    OBVIOUS
  <2>. QED  BY <2>1, SubsetsOfDrafts, RowAssumption DEF TopicRow
<1>3. \A doc : DocumentRow(S, doc) # Tombstone
  <2>. SUFFICES ASSUME NEW doc PROVE DocumentRow(S, doc) # Tombstone
    OBVIOUS
  <2>1. CASE doc \in DocsOf(S)
    <3>1. PICK e \in S : DocOf[e] = doc
      BY <2>1 DEF DocsOf
    <3>2. (CHOOSE d \in S : DocOf[d] = doc) \in S
      BY <3>1
    <3>. QED  BY <2>1, <3>2, DraftsAssumption, RowAssumption DEF DocumentRow
  <2>. QED  BY <2>1, RowAssumption DEF DocumentRow
<1>4. \A doc : ChunkRow(S, doc) # Tombstone
  BY RowAssumption DEF ChunkRow
<1>5. id[1] \in {"topic.csv", "reference_document.csv", "chunk.csv"}
  BY <1>1 DEF Ids
<1>. QED  BY <1>1, <1>2, <1>3, <1>4, <1>5 DEF TargetRows, Gone

\* Every id is of one of the three files.
LEMMA FileOfId ==
    ASSUME NEW id \in Ids
    PROVE  \E i \in 1..3 : EXPORT_FILE_ORDER[i] = id[1]
BY DEF Ids, EXPORT_FILE_ORDER

\* A file's place in the order tells it from the others.
LEMMA FilesDiffer ==
    \A i, k \in 1..3 : EXPORT_FILE_ORDER[i] = EXPORT_FILE_ORDER[k] => i = k
BY DEF EXPORT_FILE_ORDER

\* Moving on to the next file makes the current one done, and no other.
LEMMA DoneNext ==
    ASSUME PlaceType, pc \in Loading, NextFile, NEW file
    PROVE  FileDone(file)' <=> FileDone(file) \/ file = FileName
<1>1. fileNo \in 1..3 /\ (LastFile <=> fileNo = 3)
  BY DEF PlaceType, LastFile, EXPORT_FILE_ORDER
<1>2. CASE fileNo = 3
  BY <1>1, <1>2 DEF NextFile, FileDone, FileName, Loading
<1>3. CASE fileNo # 3
  <2>1. pc' = "file" /\ fileNo' = fileNo + 1
    BY <1>1, <1>3 DEF NextFile
  <2>2. \A i \in fileNo..3 : i = fileNo \/ i \in fileNo'..3
    BY <1>1, <2>1
  <2>3. \A i \in fileNo'..3 : i \in fileNo..3
    BY <1>1, <2>1
  <2>4. (\A i \in fileNo'..3 : EXPORT_FILE_ORDER[i] # file)
          <=> FileDone(file) \/ file = FileName
    <3>1. ASSUME \A i \in fileNo'..3 : EXPORT_FILE_ORDER[i] # file
          PROVE  FileDone(file) \/ file = FileName
      BY <2>2, <3>1 DEF FileDone, FileName, Loading
    <3>2. ASSUME FileDone(file), NEW i \in fileNo'..3
          PROVE  EXPORT_FILE_ORDER[i] # file
      BY <2>3, <3>2 DEF FileDone, Loading
    <3>3. ASSUME NEW i \in fileNo'..3
          PROVE  EXPORT_FILE_ORDER[i] # FileName
      <4>1. i \in 1..3 /\ i # fileNo
        BY <1>1, <2>1
      <4>. QED  BY <1>1, <4>1, FilesDiffer DEF FileName
    <3>. QED  BY <3>1, <3>2, <3>3
  <2>. QED  BY <2>1, <2>4 DEF FileDone, Loading
<1>. QED  BY <1>2, <1>3

\* The file in hand is not done.
LEMMA CurrentNotDone ==
    ASSUME PlaceType, pc \in Loading
    PROVE  ~FileDone(FileName)
<1>1. fileNo \in fileNo..3
  BY DEF PlaceType
<1>. QED  BY <1>1 DEF FileDone, FileName, Loading

-----------------------------------------------------------------------------
(***************************************************************************)
(* The jobs are a history: they keep what they hold, and their end.        *)
(***************************************************************************)
JobsGrow ==
    /\ DOMAIN jobs \subseteq DOMAIN jobs'
    /\ \A k \in DOMAIN jobs : /\ jobs'[k].rows = jobs[k].rows
                              /\ jobs[k].status # "RUNNING" => jobs'[k].status = jobs[k].status

\* What has been loaded or overwritten stays so.
LEMMA HistoryGrows ==
    ASSUME JobsGrow
    PROVE  /\ \A id, v : LoadedBy(id, v) \subseteq LoadedBy(id, v)'
           /\ \A id : \A j \in DOMAIN jobs : Overwritten(id, j) => Overwritten(id, j)'
           /\ RecordPart /\ UNCHANGED buildJobs => RecordPart'
<1>1. \A id, v : LoadedBy(id, v) \subseteq LoadedBy(id, v)'
  BY DEF JobsGrow, LoadedBy
<1>2. ASSUME NEW id, NEW j \in DOMAIN jobs, Overwritten(id, j) PROVE Overwritten(id, j)'
  <2>1. PICK k \in DOMAIN jobs :
          /\ k > j \/ ("reorders" \in Faults /\ k # j)
          /\ jobs[k].status # "RUNNING"
          /\ jobs[k].rows[id] \notin {Absent, jobs[j].rows[id]}
    BY <1>2 DEF Overwritten
  <2>2. /\ k \in DOMAIN jobs' /\ jobs'[k].status # "RUNNING"
        /\ jobs'[k].rows = jobs[k].rows /\ jobs'[j].rows = jobs[j].rows
    BY <2>1 DEF JobsGrow
  <2>. QED  BY <2>1, <2>2 DEF Overwritten
<1>3. RecordPart /\ UNCHANGED buildJobs => RecordPart'
  BY DEF JobsGrow, RecordPart
<1>. QED  BY <1>1, <1>2, <1>3

LEMMA SameHistory ==
    ASSUME UNCHANGED jobs
    PROVE  /\ \A id : Coming(id)' = Coming(id)
           /\ \A id, v : LoadedBy(id, v)' = LoadedBy(id, v)
           /\ \A id, j : Overwritten(id, j)' <=> Overwritten(id, j)
BY DEF Coming, Ended, LoadedBy, Overwritten

LEMMA SameStands ==
    ASSUME UNCHANGED <<jobs, graph>>
    PROVE  \A id, v : Stands(id, v)' <=> Stands(id, v)
BY SameHistory DEF Stands

\* A submitted job is the last one, and has not ended.
LEMMA JobSubmitted ==
    ASSUME TypeOK, NEW new, jobs' = Append(jobs, new), new.status = "RUNNING"
    PROVE  /\ JobsGrow
           /\ Len(jobs) \in Nat /\ DOMAIN jobs = 1..Len(jobs)
           /\ DOMAIN jobs' = 1..(Len(jobs) + 1) /\ Len(jobs') = Len(jobs) + 1
           /\ \A k \in DOMAIN jobs : jobs'[k] = jobs[k]
           /\ jobs'[Len(jobs) + 1] = new
           /\ \A id : Coming(id)' \subseteq Coming(id) \cup ({new.rows[id]} \ {Absent})
<1>0. jobs \in Seq(Job)
  BY DEF TypeOK, OpenspgType, Job
<1>1. /\ DOMAIN jobs' = 1..(Len(jobs) + 1) /\ Len(jobs) \in Nat /\ DOMAIN jobs = 1..Len(jobs)
      /\ \A k \in DOMAIN jobs : jobs'[k] = jobs[k]
      /\ jobs'[Len(jobs) + 1] = new /\ Len(jobs') = Len(jobs) + 1
  BY <1>0
<1>2. \A k \in DOMAIN jobs' : k \in DOMAIN jobs \/ k = Len(jobs) + 1
  BY <1>1
<1>3. \A k \in DOMAIN jobs : Ended(k)' <=> Ended(k)
  BY <1>1 DEF Ended
<1>4. \A id : Coming(id)' \subseteq Coming(id) \cup ({new.rows[id]} \ {Absent})
  BY <1>1, <1>2, <1>3 DEF Coming
<1>. QED  BY <1>1, <1>4 DEF JobsGrow

\* What the end of a job does to the jobs and to the graph, whatever OpenSPG loses.
LEMMA JobRuns ==
    ASSUME TypeOK, NEW j \in DOMAIN jobs, BuilderFinishes(j) \/ BuilderFails(j)
    PROVE  /\ UNCHANGED outsideOpenspg
           /\ ~Ended(j) /\ Ended(j)' /\ JobsGrow
           /\ "reorders" \notin Faults => \A i \in 1..(j - 1) : Ended(i)
           /\ DOMAIN jobs' = DOMAIN jobs /\ Len(jobs') = Len(jobs)
           /\ \A k \in DOMAIN jobs : /\ jobs'[k].rows = jobs[k].rows
                                     /\ jobs'[k].url = jobs[k].url
                                     /\ jobs'[k].file = jobs[k].file
                                     /\ k # j => jobs'[k] = jobs[k]
           /\ \A id : Coming(id)' \subseteq Coming(id)
           /\ \A id \in Ids : jobs[j].rows[id] # Absent => jobs[j].rows[id] \in Coming(id)
           /\ \A id \in Ids : \/ graph'[id] = graph[id]
                              \/ graph'[id] = jobs[j].rows[id] /\ graph'[id] # Absent
           /\ jobs'[j].status = "FINISH"
                => \A id \in Ids : jobs[j].rows[id] \notin Gone => graph'[id] = jobs[j].rows[id]
<1>1. UNCHANGED outsideOpenspg /\ MayRun(j)
  BY DEF BuilderFinishes, BuilderFails
<1>2. ~Ended(j) /\ ("reorders" \notin Faults => \A i \in 1..(j - 1) : Ended(i))
  BY <1>1 DEF MayRun, Ended
<1>3. PICK result \in {"FINISH", "ERROR"} :
        /\ jobs' = [jobs EXCEPT ![j].status = result]
        /\ \E done \in SUBSET RowsOf(j) :
              /\ Upsert(j, done)
              /\ result = "FINISH" => {id \in RowsOf(j) : jobs[j].rows[id] # Tombstone} \subseteq done
  BY DEF BuilderFinishes, BuilderFails
<1>4. \A k \in DOMAIN jobs : jobs[k] \in Job
  BY JobType DEF TypeOK
<1>5. /\ DOMAIN jobs' = DOMAIN jobs
      /\ \A k \in DOMAIN jobs : /\ jobs'[k].rows = jobs[k].rows
                                /\ jobs'[k].url = jobs[k].url
                                /\ jobs'[k].file = jobs[k].file
                                /\ k # j => jobs'[k] = jobs[k]
      /\ jobs'[j].status = result
  BY <1>3, <1>4 DEF Job, TypeOK, OpenspgType
<1>6. Len(jobs') = Len(jobs)
  BY <1>3 DEF TypeOK, OpenspgType
<1>7. \A k \in DOMAIN jobs : Ended(k) => Ended(k)' /\ k # j
  BY <1>2, <1>5 DEF Ended
<1>8. \A id : Coming(id)' \subseteq Coming(id)
  BY <1>5, <1>7 DEF Coming
<1>9. PICK done \in SUBSET RowsOf(j) :
        /\ Upsert(j, done)
        /\ result = "FINISH" => {id \in RowsOf(j) : jobs[j].rows[id] # Tombstone} \subseteq done
  BY <1>3
<1>10. \A id \in Ids : IF id \in done THEN graph'[id] = jobs[j].rows[id] ELSE graph'[id] = graph[id]
  BY <1>9 DEF Upsert
<1>11. \A id \in done : jobs[j].rows[id] # Absent
  BY DEF RowsOf
<1>12. result = "FINISH"
         => \A id \in Ids : jobs[j].rows[id] \notin Gone => graph'[id] = jobs[j].rows[id]
  BY <1>9, <1>10 DEF RowsOf, Gone
<1>13. \A id \in Ids : jobs[j].rows[id] # Absent => jobs[j].rows[id] \in Coming(id)
  BY <1>2 DEF Coming
<1>14. JobsGrow /\ Ended(j)'
  BY <1>2, <1>5 DEF JobsGrow, Ended
<1>. QED  BY <1>1, <1>2, <1>5, <1>6, <1>8, <1>10, <1>11, <1>12, <1>13, <1>14

(***************************************************************************)
(* What a finished job loaded stays until something else comes.            *)
(***************************************************************************)
LEMMA HistoryJobRuns ==
    ASSUME TypeOK, HistoryInv, NEW j \in DOMAIN jobs, BuilderFinishes(j) \/ BuilderFails(j)
    PROVE  HistoryInv'
<1>1. /\ ~Ended(j) /\ Ended(j)' /\ JobsGrow
      /\ "reorders" \notin Faults => \A i \in 1..(j - 1) : Ended(i)
      /\ DOMAIN jobs' = DOMAIN jobs
      /\ \A k \in DOMAIN jobs : jobs'[k].rows = jobs[k].rows /\ (k # j => jobs'[k] = jobs[k])
  BY JobRuns
<1>2. /\ \A id \in Ids : \/ graph'[id] = graph[id]
                         \/ graph'[id] = jobs[j].rows[id] /\ graph'[id] # Absent
      /\ jobs'[j].status = "FINISH"
           => \A id \in Ids : jobs[j].rows[id] \notin Gone => graph'[id] = jobs[j].rows[id]
  BY JobRuns
<1>3. DOMAIN jobs = 1..Len(jobs) /\ Len(jobs) \in Nat
  BY DEF TypeOK, OpenspgType
<1>4. OrderPart'
  <2>. SUFFICES ASSUME "reorders" \notin Faults, NEW k \in DOMAIN jobs, Ended(k)',
                       NEW i \in 1..(k - 1)
                PROVE  Ended(i)'
    BY <1>1 DEF OrderPart
  <2>1. i \in DOMAIN jobs
    BY <1>3
  <2>2. Ended(i)
    BY <1>1 DEF HistoryInv, OrderPart, Ended
  <2>. QED  BY <1>1, <2>1, <2>2 DEF Ended
<1>5. WrittenPart'
  <2>. SUFFICES ASSUME NEW i \in DOMAIN jobs, NEW id \in Ids, jobs'[i].status = "FINISH",
                       jobs[i].rows[id] \notin Gone
                PROVE  graph'[id] \in {jobs[i].rows[id], Absent} \/ Overwritten(id, i)'
    BY <1>1 DEF WrittenPart
  <2>1. CASE i = j
    BY <1>2, <2>1
  <2>2. CASE i # j
    <3>1. jobs[i].status = "FINISH" /\ Ended(i)
      BY <1>1, <2>2 DEF Ended
    <3>2. CASE Overwritten(id, i)
      BY <1>1, <3>2, HistoryGrows
    <3>3. CASE graph[id] \in {jobs[i].rows[id], Absent} /\ graph'[id] # graph[id]
                 /\ graph'[id] # jobs[i].rows[id]
      <4>1. jobs[j].rows[id] \notin {Absent, jobs[i].rows[id]}
        BY <1>2, <3>3
      <4>2. j > i \/ "reorders" \in Faults
        <5>. SUFFICES ASSUME "reorders" \notin Faults, j < i PROVE FALSE
          BY <1>3, <2>2
        <5>1. j \in 1..(i - 1)
          BY <1>3
        <5>. QED  BY <1>1, <3>1, <5>1 DEF HistoryInv, OrderPart
      <4>. QED  BY <1>1, <2>2, <4>1, <4>2 DEF Overwritten, Ended
    <3>. QED  BY <3>1, <3>2, <3>3 DEF HistoryInv, WrittenPart
  <2>. QED  BY <2>1, <2>2
<1>. QED  BY <1>4, <1>5 DEF HistoryInv

LEMMA HistoryStep ==
    ASSUME TypeOK, HistoryInv, [Next]_vars
    PROVE  HistoryInv'
<1>. USE DEF HistoryInv
<1>1. CASE UNCHANGED <<jobs, graph>>
  BY <1>1, SameHistory DEF OrderPart, WrittenPart, Ended
<1>2. CASE SubmitCsvUpsertJob
  <2>. DEFINE new == [file |-> FileName, url |-> url, rows |-> Sha, status |-> "RUNNING"]
              last == Len(jobs) + 1
  <2>1. jobs' = Append(jobs, new) /\ graph' = graph /\ new.status = "RUNNING"
    BY <1>2 DEF SubmitCsvUpsertJob
  <2>2. /\ JobsGrow
        /\ DOMAIN jobs = 1..Len(jobs) /\ DOMAIN jobs' = 1..last /\ Len(jobs) \in Nat
        /\ \A k \in DOMAIN jobs : jobs'[k] = jobs[k]
        /\ jobs'[last] = new
    BY <2>1, JobSubmitted
  <2>3. \A k \in DOMAIN jobs' : jobs'[k].status # "RUNNING" => k \in DOMAIN jobs
    BY <2>1, <2>2
  <2>4. OrderPart'
    <3>. SUFFICES ASSUME "reorders" \notin Faults, NEW k \in DOMAIN jobs', Ended(k)',
                         NEW i \in 1..(k - 1)
                  PROVE  Ended(i)'
      BY DEF OrderPart
    <3>1. k \in DOMAIN jobs /\ i \in DOMAIN jobs
      BY <2>2, <2>3 DEF Ended
    <3>. QED  BY <2>2, <3>1 DEF OrderPart, Ended
  <2>5. WrittenPart'
    <3>. SUFFICES ASSUME NEW i \in DOMAIN jobs', NEW id \in Ids, jobs'[i].status = "FINISH",
                         jobs'[i].rows[id] \notin Gone
                  PROVE  graph'[id] \in {jobs'[i].rows[id], Absent} \/ Overwritten(id, i)'
      BY DEF WrittenPart
    <3>1. i \in DOMAIN jobs /\ jobs'[i] = jobs[i]
      BY <2>2, <2>3
    <3>. QED  BY <2>1, <2>2, <3>1, HistoryGrows DEF WrittenPart
  <2>. QED  BY <2>4, <2>5
<1>3. CASE \E j \in DOMAIN jobs : BuilderFinishes(j) \/ BuilderFails(j)
  BY <1>3, HistoryJobRuns
<1>4. CASE PurgeNodes
  <2>1. jobs' = jobs /\ \A id \in Ids : graph'[id] \in {graph[id], Absent}
    BY <1>4 DEF PurgeNodes
  <2>. QED  BY <2>1, SameHistory DEF OrderPart, WrittenPart, Ended
<1>5. \/ UNCHANGED <<jobs, graph>> \/ SubmitCsvUpsertJob \/ PurgeNodes
      \/ \E j \in DOMAIN jobs : BuilderFinishes(j) \/ BuilderFails(j)
  <2>. USE DEF openspgVars, outsideBuild
  <2>1. CASE Inbox \/ UNCHANGED vars
    BY <2>1, InboxSummary DEF outsideInbox, vars
  <2>2. CASE (\E f \in ForceChoices : StartBuild(f)) \/ AbortBuild
    BY <2>2 DEF StartBuild, AbortBuild
  <2>3. CASE Export
    BY <2>3 DEF Export, SnapshotDirty, CountPromoted, SelectPage, AbortOnDuplicates, SyncGraphIds,
                ReplaceForDocument, SweepMirror, FinishExport
  <2>4. CASE LoadFiles
    BY <2>4 DEF LoadFiles, SkipEmptyFile, UploadFromCache, UploadFile, SkipFinished, ReuseJob,
                RecordBuildJob, JobEnds, JobTimesOut
  <2>5. CASE Settle
    BY <2>5 DEF Settle, ConfirmTombstones, WithdrawSupersededDraft, SettleDirtyAfterBuild
  <2>6. CASE OpenSpg
    BY <2>6 DEF OpenSpg
  <2>. QED  BY <2>1, <2>2, <2>3, <2>4, <2>5, <2>6 DEF Next, BuildStep
<1>. QED  BY <1>1, <1>2, <1>3, <1>4, <1>5

-----------------------------------------------------------------------------
(***************************************************************************)
(* The load, step by step.                                                 *)
(***************************************************************************)
loadVars == <<force, url, job, fileNo, jobs, graph, reg, rows, kept, uploads, buildJobs>>

\* Closing a run does not change its number.
LEMMA SameRun ==
    ASSUME TypeOK, NEW result, CloseRun(result) \/ UNCHANGED exportRuns
    PROVE  Run' = Run
<1>1. exportRuns \in Seq({"running", "success", "error"})
  BY DEF TypeOK, StoreType
<1>. QED  BY <1>1 DEF CloseRun, Run

\* Away from the files, there is nothing to say of them.
LEMMA LoadAway ==
    ASSUME pc' \notin Exported
    PROVE  /\ JobPart' /\ LoadedPart' /\ ForcedPart' /\ ~InHand'
           /\ \A file : ~FileDone(file)'
BY DEF JobPart, LoadedPart, ForcedPart, FileDone, InHand, Exported, Loading

\* Steps that only move the build's place inside one stretch of its way.
LEMMA LoadFrame ==
    ASSUME LoadInv, UNCHANGED loadVars, Run' = Run,
           \/ pc' = pc
           \/ pc \in Paging /\ pc' \in Paging
           \/ pc = "mirror" /\ pc' = "edges"
    PROVE  LoadInv'
<1>. USE DEF loadVars, LoadInv, Paging, Loading
<1>1. /\ \A file : FileDone(file)' <=> FileDone(file)
      /\ InHand' <=> InHand
      /\ \A file : UrlUsed(file)' <=> UrlUsed(file)
  BY DEF FileDone, InHand, UrlUsed, FileName
<1>2. Sha' = Sha /\ FileName' = FileName /\ Reusable' = Reusable
  BY DEF Sha, Content, FileName, Reusable
<1>3. UrlPart'
  BY <1>1, <1>2 DEF UrlPart
<1>4. RowsPart'
  BY DEF RowsPart, Planned, Exported
<1>5. JobPart' /\ RecordPart'
  BY <1>2 DEF JobPart, RecordPart
<1>6. LoadedPart' /\ ConfirmedWasDelivered'
  BY <1>1, SameHistory DEF LoadedPart, ConfirmedWasDelivered
<1>7. ForcedPart'
  BY <1>1, <1>2, SameHistory, SameStands DEF ForcedPart
<1>. QED  BY <1>3, <1>4, <1>5, <1>6, <1>7

\* The URLs and the uploads stay as they are, and no use of them is forgotten.
LEMMA UrlFrame ==
    ASSUME UrlPart, UNCHANGED <<uploads, jobs>>, Run' = Run,
           \A file : UrlUsed(file) => UrlUsed(file)',
           InHand' => [file |-> FileName', sha |-> Sha', url |-> url'] \in uploads,
           force' /\ pc' = "decide" => Reusable' = {}
    PROVE  UrlPart'
BY DEF UrlPart

\* A build that ends leaves the jobs, the registry and the graph behind.
LEMMA LoadForget ==
    ASSUME LoadInv, ForgetBuild, UNCHANGED <<jobs, graph, reg, uploads>>, Run' = Run, RecordPart'
    PROVE  LoadInv'
<1>. USE DEF LoadInv, ForgetBuild
<1>1. JobPart' /\ LoadedPart' /\ ForcedPart' /\ ~InHand'
  BY LoadAway DEF Exported, Loading
<1>2. UrlPart'
  <2>1. \A file : UrlUsed(file)'
    BY DEF UrlUsed
  <2>. QED  BY <1>1, <2>1, UrlFrame
<1>3. RowsPart'
  BY DEF RowsPart, Planned, Exported, Loading
<1>4. ConfirmedWasDelivered'
  BY SameHistory DEF ConfirmedWasDelivered
<1>. QED  BY <1>1, <1>2, <1>3, <1>4

LEMMA LoadStart ==
    ASSUME LoadInv, NEW f \in ForceChoices, StartBuild(f)
    PROVE  LoadInv'
<1>0. /\ pc' = "snapshot" /\ UNCHANGED <<jobs, graph, reg, uploads, buildJobs, exportRuns>>
  BY DEF StartBuild, outsideBuild, recordVars, openspgVars
<1>. USE DEF LoadInv
<1>1. JobPart' /\ LoadedPart' /\ ForcedPart' /\ ~InHand'
  BY <1>0, LoadAway DEF Exported, Loading
<1>2. UrlPart'
  <2>1. \A file : UrlUsed(file)'
    BY <1>0 DEF UrlUsed
  <2>. QED  BY <1>0, <1>1, <2>1, UrlFrame DEF Run
<1>3. RowsPart' /\ RecordPart'
  BY <1>0 DEF RowsPart, RecordPart, Planned, Exported, Loading
<1>4. ConfirmedWasDelivered'
  BY <1>0, SameHistory DEF ConfirmedWasDelivered
<1>. QED  BY <1>1, <1>2, <1>3, <1>4

\* A new run: every job and every upload has the URL of an earlier one.
LEMMA LoadSnapshot ==
    ASSUME TypeOK, LoadInv, SnapshotDirty
    PROVE  LoadInv'
<1>0. pc' = "count" /\ UNCHANGED <<jobs, graph, reg, uploads, buildJobs>>
  BY DEF SnapshotDirty, openspgVars
<1>1. Run' = Run + 1 /\ Run \in Nat
  <2>1. exportRuns \in Seq({"running", "success", "error"})
    BY DEF TypeOK, StoreType
  <2>. QED  BY <2>1 DEF Run, SnapshotDirty
<1>2. \A j \in DOMAIN jobs : jobs[j].url \in Nat
  BY JobType DEF TypeOK, Job
<1>3. \A u \in uploads : u.url \in Nat
  BY DEF TypeOK, StoreType
<1>. USE DEF LoadInv
<1>4. JobPart' /\ LoadedPart' /\ ForcedPart' /\ ~InHand'
  BY <1>0, LoadAway DEF Exported, Loading
<1>5. UrlPart'
  <2>1. \A j \in DOMAIN jobs : jobs[j].url <= Run' /\ jobs[j].url # Run'
    BY <1>1, <1>2 DEF UrlPart
  <2>2. \A u \in uploads : u.url <= Run' /\ u.url # Run'
    BY <1>1, <1>3 DEF UrlPart
  <2>. QED  BY <1>0, <1>4, <2>1, <2>2 DEF UrlPart
<1>6. RowsPart' /\ RecordPart'
  BY <1>0 DEF RowsPart, RecordPart, Planned, Exported, Loading
<1>7. ConfirmedWasDelivered'
  BY <1>0, SameHistory DEF ConfirmedWasDelivered
<1>. QED  BY <1>4, <1>5, <1>6, <1>7

\* syncGraphIds: the registry and the rows say the same of every id.
LEMMA LoadSync ==
    ASSUME TypeOK, LoadInv, SyncGraphIds
    PROVE  LoadInv'
<1>. DEFINE current == GraphIdsOf(KeptNow)
<1>0. /\ pc = "rows" /\ pc' = "mirror" /\ kept' = KeptNow
      /\ reg' = [id \in Ids |-> IF id \in current THEN "live"
                                ELSE IF Outstanding(id) THEN "pending" ELSE reg[id]]
      /\ rows' = [id \in Ids |-> IF id \in current THEN TargetRows(KeptNow)[id]
                                 ELSE TombstoneRow(id)]
      /\ UNCHANGED <<jobs, graph, uploads, buildJobs, exportRuns>>
  BY DEF SyncGraphIds, Registered, openspgVars, recordVars
<1>. USE DEF LoadInv
<1>1. JobPart' /\ LoadedPart' /\ ForcedPart' /\ ~InHand'
  BY <1>0, LoadAway DEF Exported, Loading
<1>2. UrlPart'
  <2>1. \A file : ~UrlUsed(file)
    BY <1>0 DEF UrlUsed, FileDone, InHand, Loading
  <2>. QED  BY <1>0, <1>1, <2>1, UrlFrame DEF Run
<1>3. RowsPart'
  <2>. SUFFICES ASSUME NEW id \in Ids
       PROVE  /\ reg'[id] = "live" <=> TargetRows(KeptNow)[id] # Absent
              /\ \/ rows'[id] = TargetRows(KeptNow)[id]
                 \/ reg'[id] # "live" /\ rows'[id] = Tombstone
              /\ rows'[id] = Tombstone => reg'[id] = "pending"
              /\ rows'[id] = Absent => reg'[id] \in {"none", "confirmed"}
    BY <1>0 DEF RowsPart
  <2>1. KeptNow \in SUBSET Drafts
    BY KeptType DEF TypeOK, PagesType
  <2>2. reg[id] \in {"none", "live", "pending", "confirmed"}
    BY DEF TypeOK, StoreType
  <2>3. CASE id \in current
    <3>1. TargetRows(KeptNow)[id] \notin Gone
      BY <2>1, <2>3, TargetIsContent
    <3>. QED  BY <1>0, <2>3, <3>1 DEF Gone
  <2>4. CASE id \notin current
    <3>1. TargetRows(KeptNow)[id] = Absent
      BY <2>4 DEF GraphIdsOf
    <3>. QED  BY <1>0, <2>2, <2>4, <3>1, RowAssumption DEF Outstanding, TombstoneRow
  <2>. QED  BY <2>3, <2>4
<1>4. RecordPart'
  BY <1>0 DEF RecordPart
<1>5. ConfirmedWasDelivered'
  <2>1. \A id \in Ids : reg'[id] = "confirmed" => reg[id] = "confirmed"
    BY <1>0
  <2>. QED  BY <1>0, <2>1, SameHistory DEF ConfirmedWasDelivered
<1>. QED  BY <1>1, <1>2, <1>3, <1>4, <1>5

\* The file loop starts: no file is done.
LEMMA LoadFinishExport ==
    ASSUME TypeOK, LoadInv, FinishExport
    PROVE  LoadInv'
<1>0. /\ pc = "edges" /\ pc' = "file" /\ fileNo' = 1
      /\ UNCHANGED <<jobs, graph, reg, rows, kept, force, url, uploads, buildJobs>>
      /\ Run' = Run
  BY SameRun DEF FinishExport, openspgVars, exportVars
<1>. USE DEF LoadInv
<1>1. \A i \in 1..3 : i \in fileNo'..3
  BY <1>0
<1>2. UrlPart'
  <2>1. \A file : ~UrlUsed(file)
    BY <1>0 DEF UrlUsed, FileDone, InHand, Loading
  <2>. QED  BY <1>0, <2>1, UrlFrame DEF InHand
<1>3. RowsPart' /\ JobPart' /\ RecordPart'
  BY <1>0 DEF RowsPart, JobPart, RecordPart, Planned, Exported, Loading
<1>4. \A id \in Ids : ~FileDone(id[1])'
  BY <1>0, <1>1, FileOfId DEF FileDone, Loading
<1>5. LoadedPart' /\ ForcedPart'
  BY <1>0, <1>4 DEF LoadedPart, ForcedPart
<1>6. ConfirmedWasDelivered'
  BY <1>0, SameHistory DEF ConfirmedWasDelivered
<1>. QED  BY <1>2, <1>3, <1>5, <1>6

-----------------------------------------------------------------------------
(***************************************************************************)
(* The file loop.                                                          *)
(***************************************************************************)

\* The rows of file have been loaded, and by this build if it is forced.
FileLoaded(file) ==
    \A id \in Ids : id[1] = file /\ rows[id] # Absent =>
        /\ LoadedBy(id, rows[id]) # {}
        /\ force /\ rows[id] \notin Gone
              => Stands(id, rows[id]) /\ ("reorders" \notin Faults => Coming(id) = {})

\* The loop moves on when the rows of the file in hand have been loaded.
LEMMA LoadNextFile ==
    ASSUME TypeOK, LoadInv, pc \in Loading, NextFile, Run' = Run,
           UNCHANGED <<jobs, graph, reg, rows, kept, force, uploads>>,
           RecordPart', FileLoaded(FileName)
    PROVE  LoadInv'
<1>0. pc' \in {"file", "confirm"}
  BY DEF NextFile
<1>1. \A file : FileDone(file)' <=> FileDone(file) \/ file = FileName
  BY DoneNext DEF TypeOK
<1>. USE DEF LoadInv
<1>2. UrlPart'
  <2>1. \A file : UrlUsed(file) => UrlUsed(file)'
    BY <1>1 DEF UrlUsed, Loading
  <2>. QED  BY <1>0, <2>1, UrlFrame DEF InHand
<1>3. RowsPart'
  BY <1>0 DEF RowsPart, Planned, Exported, Loading
<1>4. JobPart'
  BY <1>0 DEF JobPart
<1>5. LoadedPart'
  BY <1>1, SameHistory DEF LoadedPart, FileLoaded
<1>6. ConfirmedWasDelivered'
  BY SameHistory DEF ConfirmedWasDelivered
<1>7. ForcedPart'
  <2>. SUFFICES ASSUME force, NEW id \in Ids, FileDone(id[1])', rows[id] \notin Gone
                PROVE  /\ Stands(id, rows[id])'
                       /\ "reorders" \notin Faults => Coming(id)' = {}
    BY <1>0 DEF ForcedPart
  <2>1. /\ Stands(id, rows[id])
        /\ "reorders" \notin Faults => Coming(id) = {}
    <3>1. CASE FileDone(id[1])
      BY <3>1 DEF ForcedPart
    <3>2. CASE id[1] = FileName
      BY <3>2 DEF FileLoaded, Gone
    <3>. QED  BY <1>1, <3>1, <3>2
  <2>2. Stands(id, rows[id])'
    BY <2>1, SameStands
  <2>. QED  BY <2>1, <2>2, SameHistory
<1>. QED  BY <1>2, <1>3, <1>4, <1>5, <1>6, <1>7

LEMMA LoadSkipEmpty ==
    ASSUME TypeOK, LoadInv, SkipEmptyFile
    PROVE  LoadInv'
<1>1. /\ pc \in Loading /\ NextFile /\ Run' = Run
      /\ UNCHANGED <<jobs, graph, reg, rows, kept, force, uploads, buildJobs>>
  BY DEF SkipEmptyFile, Loading, outsideBuild, openspgVars, exportVars, recordVars, Run
<1>2. \A id \in Ids : id[1] = FileName => rows[id] = Absent
  BY DEF SkipEmptyFile, HasRows, Sha, Content, NoRows
<1>3. RecordPart'
  BY <1>1 DEF LoadInv, RecordPart
<1>. QED  BY <1>1, <1>2, <1>3, LoadNextFile DEF FileLoaded

\* A file is skipped when a job has finished with its rows, and not in a forced build.
LEMMA LoadSkipFinished ==
    ASSUME TypeOK, LoadInv, SkipFinished
    PROVE  LoadInv'
<1>1. /\ pc \in Loading /\ NextFile /\ Run' = Run /\ ~force
      /\ UNCHANGED <<jobs, graph, reg, rows, kept, force, uploads, buildJobs>>
  BY DEF SkipFinished, AlreadyBuilt, Loading, outsideBuild, openspgVars, exportVars, recordVars,
         Run
<1>2. PICK j \in DOMAIN jobs : jobs[j].status = "FINISH" /\ jobs[j].rows = Sha
  BY DEF SkipFinished, AlreadyBuilt, LoadInv, RecordPart
<1>3. \A id \in Ids : id[1] = FileName => Sha[id] = rows[id]
  BY DEF Sha, Content
<1>4. FileLoaded(FileName)
  BY <1>1, <1>2, <1>3 DEF FileLoaded, LoadedBy
<1>5. RecordPart'
  BY <1>1 DEF LoadInv, RecordPart
<1>. QED  BY <1>1, <1>4, <1>5, LoadNextFile

\* From the file to its upload: what is loaded and what is done stay.
LEMMA LoadToDecide ==
    ASSUME LoadInv, UrlPart', pc = "file", pc' = "decide",
           UNCHANGED <<jobs, graph, reg, rows, kept, force, fileNo, buildJobs>>
    PROVE  LoadInv'
<1>1. \A file : FileDone(file)' <=> FileDone(file)
  BY DEF FileDone, Loading
<1>. USE DEF LoadInv
<1>2. RowsPart' /\ JobPart' /\ RecordPart'
  BY DEF RowsPart, JobPart, RecordPart, Planned, Exported, Loading
<1>3. LoadedPart' /\ ConfirmedWasDelivered'
  BY <1>1, SameHistory DEF LoadedPart, ConfirmedWasDelivered
<1>4. ForcedPart'
  BY <1>1, SameHistory, SameStands DEF ForcedPart
<1>. QED  BY <1>2, <1>3, <1>4

\* A cached upload is the recorded one, and a forced build takes none.
LEMMA LoadFromCache ==
    ASSUME TypeOK, LoadInv, UploadFromCache
    PROVE  LoadInv'
<1>1. /\ pc = "file" /\ pc' = "decide" /\ ~force /\ Run' = Run
      /\ UNCHANGED <<jobs, graph, reg, rows, kept, force, fileNo, uploads, buildJobs>>
  BY DEF UploadFromCache, outsideBuild, openspgVars, exportVars, recordVars, Run
<1>2. PICK u \in uploads : u.file = FileName /\ u.sha = Sha /\ url' = u.url
  BY DEF UploadFromCache, Uploaded
<1>3. u = [file |-> FileName, sha |-> Sha, url |-> url']
  BY <1>2 DEF TypeOK, StoreType
<1>4. FileName' = FileName /\ Sha' = Sha
  BY <1>1 DEF FileName, Sha, Content
<1>5. \A file : UrlUsed(file) => UrlUsed(file)'
  BY <1>1 DEF UrlUsed, FileDone, InHand, Loading
<1>6. UrlPart'
  BY <1>1, <1>2, <1>3, <1>4, <1>5, UrlFrame DEF LoadInv
<1>. QED  BY <1>1, <1>6, LoadToDecide

\* A fresh upload has a URL that no upload and no job of this file has yet.
LEMMA LoadUpload ==
    ASSUME TypeOK, LoadInv, UploadFile
    PROVE  LoadInv'
<1>. DEFINE new == [file |-> FileName, sha |-> Sha, url |-> Run]
<1>1. /\ pc = "file" /\ pc' = "decide" /\ url' = Run /\ Run' = Run
      /\ uploads' = (uploads \ Uploaded) \cup {new}
      /\ UNCHANGED <<jobs, graph, reg, rows, kept, force, fileNo, buildJobs>>
  BY DEF UploadFile, openspgVars, exportVars, Run
<1>2. ~UrlUsed(FileName)
  <2>1. ~FileDone(FileName)
    BY <1>1, CurrentNotDone DEF TypeOK, Loading
  <2>. QED  BY <1>1, <2>1 DEF UrlUsed, InHand
<1>3. /\ \A u \in uploads : u.file = FileName => u.url # Run
      /\ \A j \in DOMAIN jobs : jobs[j].file = FileName => jobs[j].url # Run
  BY <1>2 DEF LoadInv, UrlPart
<1>4. FileName' = FileName /\ Sha' = Sha
  BY <1>1 DEF FileName, Sha, Content
<1>5. \A file : UrlUsed(file) => UrlUsed(file)'
  BY <1>1 DEF UrlUsed, FileDone, InHand, Loading
<1>6. \A file : file = FileName => UrlUsed(file)'
  BY <1>1, <1>4 DEF UrlUsed, InHand
<1>7. Run \in Nat
  BY DEF Run, TypeOK, StoreType
<1>8. \A u \in uploads' : u \in uploads \/ u = new
  BY <1>1
<1>9. new.file = FileName /\ new.sha = Sha /\ new.url = Run
  OBVIOUS
<1>. HIDE DEF new
<1>10. \A u \in uploads' : u.url <= Run /\ (u.url = Run => UrlUsed(u.file)')
  <2>. SUFFICES ASSUME NEW u \in uploads'
                PROVE  u.url <= Run /\ (u.url = Run => UrlUsed(u.file)')
    OBVIOUS
  <2>1. CASE u \in uploads
    BY <1>5, <2>1 DEF LoadInv, UrlPart
  <2>2. CASE u = new
    BY <1>6, <1>7, <1>9, <2>2
  <2>. QED  BY <1>8, <2>1, <2>2
<1>11. \A j \in DOMAIN jobs : jobs[j].url <= Run /\ (jobs[j].url = Run => UrlUsed(jobs[j].file)')
  BY <1>1, <1>5 DEF LoadInv, UrlPart
<1>12. \A u, v \in uploads' : u.file = v.file /\ u.url = v.url => u.sha = v.sha
  <2>. SUFFICES ASSUME NEW u \in uploads', NEW v \in uploads', u.file = v.file, u.url = v.url
                PROVE  u.sha = v.sha
    OBVIOUS
  <2>1. CASE u \in uploads /\ v \in uploads
    BY <2>1 DEF LoadInv, UrlPart
  <2>2. CASE u = new \/ v = new
    <3>1. u = new /\ v = new
      BY <1>3, <1>8, <1>9, <2>2
    <3>. QED  BY <3>1
  <2>. QED  BY <1>8, <2>1, <2>2
<1>13. \A u \in uploads', j \in DOMAIN jobs :
         jobs[j].file = u.file /\ jobs[j].url = u.url => jobs[j].rows = u.sha
  BY <1>3, <1>8, <1>9 DEF LoadInv, UrlPart
<1>14. Reusable' = {}
  BY <1>1, <1>3, <1>4 DEF Reusable
<1>15. [file |-> FileName', sha |-> Sha', url |-> url'] \in uploads'
  BY <1>1, <1>4 DEF new
<1>16. UrlPart'
  BY <1>1, <1>10, <1>11, <1>12, <1>13, <1>14, <1>15 DEF UrlPart
<1>. QED  BY <1>1, <1>16, LoadToDecide

\* From the upload to its job: what is loaded and what is done stay.
LEMMA LoadToRecord ==
    ASSUME TypeOK, LoadInv, UrlPart', pc = "decide", pc' = "record", JobsGrow,
           jobs'[job'].rows = Sha, force => job' = Len(jobs') /\ jobs'[job'].status = "RUNNING",
           \A id : Coming(id)' \subseteq Coming(id) \cup ({Sha[id]} \ {Absent}),
           UNCHANGED <<graph, reg, rows, kept, force, fileNo, buildJobs>>
    PROVE  LoadInv'
<1>1. /\ \A file : FileDone(file)' <=> FileDone(file)
      /\ ~FileDone(FileName) /\ Sha' = Sha
  BY CurrentNotDone DEF FileDone, Loading, TypeOK, Sha, Content, FileName
<1>2. /\ \A id, v : LoadedBy(id, v) \subseteq LoadedBy(id, v)'
      /\ \A id : \A j \in DOMAIN jobs : Overwritten(id, j) => Overwritten(id, j)'
      /\ RecordPart'
  BY HistoryGrows DEF LoadInv
<1>. USE DEF LoadInv
<1>3. RowsPart'
  BY DEF RowsPart, Planned, Exported, Loading
<1>4. JobPart'
  BY <1>1 DEF JobPart
<1>5. LoadedPart' /\ ConfirmedWasDelivered'
  BY <1>1, <1>2 DEF LoadedPart, ConfirmedWasDelivered
<1>6. ForcedPart'
  <2>. SUFFICES ASSUME force, NEW id \in Ids, FileDone(id[1]), rows[id] \notin Gone
                PROVE  Stands(id, rows[id])' /\ ("reorders" \notin Faults => Coming(id)' = {})
    BY <1>1 DEF ForcedPart
  <2>1. Stands(id, rows[id]) /\ ("reorders" \notin Faults => Coming(id) = {})
    BY DEF ForcedPart
  <2>2. Stands(id, rows[id])'
    <3>1. \A j \in LoadedBy(id, rows[id]) : j \in DOMAIN jobs
      BY DEF LoadedBy
    <3>. QED  BY <1>2, <2>1, <3>1 DEF Stands
  <2>3. Sha[id] = Absent
    BY <1>1 DEF Sha, Content
  <2>. QED  BY <2>1, <2>2, <2>3
<1>. QED  BY <1>2, <1>3, <1>4, <1>5, <1>6

\* A job that is taken over has the upload's URL, and so the file's rows.
LEMMA LoadReuse ==
    ASSUME TypeOK, LoadInv, ReuseJob
    PROVE  LoadInv'
<1>1. /\ pc = "decide" /\ pc' = "record" /\ Run' = Run
      /\ UNCHANGED <<jobs, graph, reg, rows, kept, force, fileNo, url, uploads, buildJobs>>
  BY DEF ReuseJob, outsideBuild, openspgVars, exportVars, recordVars, Run
<1>2. PICK j \in Reusable : job' = j
  BY DEF ReuseJob
<1>3. ~force
  BY <1>1, <1>2 DEF LoadInv, UrlPart
<1>4. jobs[j].rows = Sha
  <2>. DEFINE u == [file |-> FileName, sha |-> Sha, url |-> url]
  <2>1. u \in uploads /\ u.file = FileName /\ u.url = url /\ u.sha = Sha
    BY <1>1 DEF LoadInv, UrlPart, InHand
  <2>2. j \in DOMAIN jobs /\ jobs[j].file = FileName /\ jobs[j].url = url
    BY DEF Reusable
  <2>. QED  BY <2>1, <2>2 DEF LoadInv, UrlPart
<1>5. FileName' = FileName /\ Sha' = Sha
  BY <1>1 DEF FileName, Sha, Content
<1>6. UrlPart'
  <2>1. \A file : UrlUsed(file) => UrlUsed(file)'
    BY <1>1, <1>5 DEF UrlUsed, FileDone, InHand, Loading
  <2>2. [file |-> FileName', sha |-> Sha', url |-> url'] \in uploads
    BY <1>1, <1>5 DEF LoadInv, UrlPart, InHand
  <2>. QED  BY <1>1, <2>1, <2>2, UrlFrame DEF LoadInv
<1>7. JobsGrow /\ \A id : Coming(id)' = Coming(id)
  BY <1>1, SameHistory DEF JobsGrow
<1>. QED  BY <1>1, <1>2, <1>3, <1>4, <1>6, <1>7, LoadToRecord

LEMMA LoadSubmit ==
    ASSUME TypeOK, LoadInv, SubmitCsvUpsertJob
    PROVE  LoadInv'
<1>. DEFINE new == [file |-> FileName, url |-> url, rows |-> Sha, status |-> "RUNNING"]
            last == Len(jobs) + 1
            upload == [file |-> FileName, sha |-> Sha, url |-> url]
<1>1. /\ pc = "decide" /\ pc' = "record" /\ jobs' = Append(jobs, new) /\ job' = last
      /\ UNCHANGED <<graph, reg, rows, kept, force, fileNo, url, uploads, buildJobs>> /\ Run' = Run
  BY DEF SubmitCsvUpsertJob, exportVars, recordVars, Run
<1>2. /\ new.rows = Sha /\ new.file = FileName /\ new.url = url /\ new.status = "RUNNING"
      /\ upload.file = FileName /\ upload.sha = Sha /\ upload.url = url
  OBVIOUS
<1>3. /\ JobsGrow /\ DOMAIN jobs' = 1..last /\ Len(jobs') = last /\ Len(jobs) \in Nat
      /\ DOMAIN jobs = 1..Len(jobs)
      /\ \A k \in DOMAIN jobs : jobs'[k] = jobs[k]
      /\ jobs'[last] = new
      /\ \A id : Coming(id)' \subseteq Coming(id) \cup ({new.rows[id]} \ {Absent})
  <2>. HIDE DEF new
  <2>. QED  BY <1>1, <1>2, JobSubmitted
<1>4. \A k \in DOMAIN jobs' : k \in DOMAIN jobs \/ k = last
  BY <1>3
<1>5. FileName' = FileName /\ Sha' = Sha
  BY <1>1 DEF FileName, Sha, Content
<1>6. upload \in uploads
  BY <1>1 DEF LoadInv, UrlPart, InHand
<1>7. \A file : UrlUsed(file) => UrlUsed(file)'
  BY <1>1, <1>5 DEF UrlUsed, FileDone, InHand, Loading
<1>. HIDE DEF new, last, upload
<1>8. \A j \in DOMAIN jobs' : \A file :
        jobs'[j].url <= Run /\ (jobs'[j].url = Run /\ file = jobs'[j].file => UrlUsed(file)')
  <2>. SUFFICES ASSUME NEW j \in DOMAIN jobs', NEW file
                PROVE  /\ jobs'[j].url <= Run
                       /\ jobs'[j].url = Run /\ file = jobs'[j].file => UrlUsed(file)'
    OBVIOUS
  <2>1. CASE j \in DOMAIN jobs
    <3>1. jobs[j].url <= Run /\ (jobs[j].url = Run => UrlUsed(jobs[j].file))
      BY <2>1 DEF LoadInv, UrlPart
    <3>2. jobs[j].url = Run /\ file = jobs[j].file => UrlUsed(file)
      BY <3>1
    <3>. QED  BY <1>3, <1>7, <2>1, <3>1, <3>2
  <2>2. CASE j = last
    <3>1. jobs'[j].file = FileName /\ jobs'[j].url = url
      BY <1>2, <1>3, <2>2
    <3>2. url <= Run
      BY <1>2, <1>6 DEF LoadInv, UrlPart
    <3>3. file = FileName => UrlUsed(file)'
      BY <1>1, <1>5 DEF UrlUsed, InHand
    <3>. QED  BY <3>1, <3>2, <3>3
  <2>. QED  BY <1>4, <2>1, <2>2
<1>9. \A u \in uploads, j \in DOMAIN jobs' :
        jobs'[j].file = u.file /\ jobs'[j].url = u.url => jobs'[j].rows = u.sha
  <2>. SUFFICES ASSUME NEW u \in uploads, NEW j \in DOMAIN jobs',
                       jobs'[j].file = u.file, jobs'[j].url = u.url
                PROVE  jobs'[j].rows = u.sha
    OBVIOUS
  <2>1. CASE j \in DOMAIN jobs
    BY <1>3, <2>1 DEF LoadInv, UrlPart
  <2>2. CASE j = last
    <3>1. upload.file = u.file /\ upload.url = u.url
      BY <1>2, <1>3, <2>2
    <3>2. upload.sha = u.sha
      BY <1>6, <3>1 DEF LoadInv, UrlPart
    <3>. QED  BY <1>2, <1>3, <2>2, <3>2
  <2>. QED  BY <1>4, <2>1, <2>2
<1>10. [file |-> FileName', sha |-> Sha', url |-> url'] \in uploads'
  BY <1>1, <1>5, <1>6 DEF upload
<1>11. UrlPart'
  <2>1. \A u \in uploads' : u.url <= Run' /\ (u.url = Run' => UrlUsed(u.file)')
    BY <1>1, <1>7 DEF LoadInv, UrlPart
  <2>2. \A u, v \in uploads' : u.file = v.file /\ u.url = v.url => u.sha = v.sha
    BY <1>1 DEF LoadInv, UrlPart
  <2>. QED  BY <1>1, <1>8, <1>9, <1>10, <2>1, <2>2 DEF UrlPart
<1>12. jobs'[job'].rows = Sha /\ job' = Len(jobs') /\ jobs'[job'].status = "RUNNING"
  BY <1>1, <1>2, <1>3
<1>13. \A id : Coming(id)' \subseteq Coming(id) \cup ({Sha[id]} \ {Absent})
  BY <1>2, <1>3
<1>. QED  BY <1>1, <1>3, <1>11, <1>12, <1>13, LoadToRecord

\* The job is recorded with the content of the file.
LEMMA LoadRecord ==
    ASSUME TypeOK, LoadInv, RecordBuildJob
    PROVE  LoadInv'
<1>. DEFINE new == [file |-> FileName, sha |-> Sha, status |-> "INIT"]
            last == Len(buildJobs) + 1
<1>1. /\ pc = "record" /\ pc' = "wait" /\ buildJobs' = Append(buildJobs, new) /\ Run' = Run
      /\ UNCHANGED <<jobs, graph, reg, rows, kept, force, fileNo, url, job, uploads>>
  BY DEF RecordBuildJob, openspgVars, exportVars, fileVars, Run
<1>2. new.sha = Sha /\ new.status = "INIT"
  OBVIOUS
<1>3. /\ DOMAIN buildJobs' = 1..last /\ DOMAIN buildJobs = 1..Len(buildJobs)
      /\ Len(buildJobs') = last /\ buildJobs' # <<>> /\ buildJobs'[last] = new
      /\ Len(buildJobs) \in Nat /\ \A i \in DOMAIN buildJobs : buildJobs'[i] = buildJobs[i]
  <2>1. buildJobs \in Seq([file : Files, sha : [Ids -> Row], status : {"INIT"} \cup JobStatus])
    BY DEF TypeOK, StoreType
  <2>. HIDE DEF new
  <2>. QED  BY <1>1, <2>1
<1>4. FileName' = FileName /\ Sha' = Sha
  BY <1>1 DEF FileName, Sha, Content
<1>5. /\ \A file : FileDone(file)' <=> FileDone(file)
      /\ \A file : UrlUsed(file) => UrlUsed(file)'
  BY <1>1, <1>4 DEF FileDone, UrlUsed, InHand, Loading
<1>. HIDE DEF new
<1>. USE DEF LoadInv
<1>6. UrlPart'
  <2>1. [file |-> FileName', sha |-> Sha', url |-> url'] \in uploads
    BY <1>1, <1>4 DEF UrlPart, InHand
  <2>. QED  BY <1>1, <1>5, <2>1, UrlFrame
<1>7. RowsPart'
  BY <1>1 DEF RowsPart, Planned, Exported, Loading
<1>8. JobPart'
  BY <1>1, <1>2, <1>3, <1>4 DEF JobPart
<1>9. RecordPart'
  <2>1. \A i \in DOMAIN buildJobs' : buildJobs'[i].status = "FINISH" => i \in DOMAIN buildJobs
    BY <1>2, <1>3
  <2>. QED  BY <1>1, <1>3, <2>1 DEF RecordPart
<1>10. LoadedPart' /\ ConfirmedWasDelivered'
  BY <1>1, <1>5, SameHistory DEF LoadedPart, ConfirmedWasDelivered
<1>11. ForcedPart'
  BY <1>1, <1>4, <1>5, SameHistory, SameStands DEF ForcedPart
<1>. QED  BY <1>6, <1>7, <1>8, <1>9, <1>10, <1>11

\* The job waited for has ended: it is recorded, and its rows have been loaded.
LEMMA LoadJobEnds ==
    ASSUME TypeOK, LoadInv, OrderPart, JobEnds
    PROVE  LoadInv'
<1>. DEFINE last == Len(buildJobs)
<1>1. /\ pc = "wait" /\ Ended(job) /\ Run' = Run
      /\ buildJobs' = [buildJobs EXCEPT ![last].status = jobs[job].status]
      /\ UNCHANGED <<jobs, graph, reg, uploads>>
      /\ \/ jobs[job].status = "FINISH" /\ NextFile /\ UNCHANGED <<force, rows, kept>>
         \/ ForgetBuild
  BY DEF JobEnds, Finished, Ended, Run, openspgVars, exportVars
<1>2. job \in DOMAIN jobs /\ jobs[job].rows = Sha /\ (force => job = Len(jobs))
  BY <1>1 DEF LoadInv, JobPart, TypeOK, PlaceType
<1>3. RecordPart'
  <2>. DEFINE Built == [file : Files, sha : [Ids -> Row], status : {"INIT"} \cup JobStatus]
  <2>1. buildJobs \in Seq(Built)
    BY DEF TypeOK, StoreType
  <2>2. buildJobs # <<>> /\ buildJobs[last].sha = Sha
    BY <1>1 DEF LoadInv, JobPart
  <2>3. last \in DOMAIN buildJobs /\ DOMAIN buildJobs' = DOMAIN buildJobs
    <3>1. DOMAIN buildJobs = 1..last /\ last \in Nat /\ last # 0
      BY <2>1, <2>2
    <3>. QED  BY <1>1, <3>1
  <2>4. \A i \in DOMAIN buildJobs : buildJobs[i] \in Built
    <3>. HIDE DEF Built
    <3>. QED  BY <2>1
  <2>5. /\ \A i \in DOMAIN buildJobs : i # last => buildJobs'[i] = buildJobs[i]
        /\ buildJobs'[last].sha = Sha /\ buildJobs'[last].status = jobs[job].status
    BY <1>1, <2>2, <2>3, <2>4
  <2>. SUFFICES ASSUME NEW i \in DOMAIN buildJobs, buildJobs'[i].status = "FINISH"
                PROVE  \E j \in DOMAIN jobs :
                         jobs[j].status = "FINISH" /\ jobs[j].rows = buildJobs'[i].sha
    BY <1>1, <2>3 DEF RecordPart
  <2>6. CASE i = last
    BY <1>2, <2>5, <2>6
  <2>7. CASE i # last
    BY <2>5, <2>7 DEF LoadInv, RecordPart
  <2>. QED  BY <2>6, <2>7
<1>4. CASE ForgetBuild
  BY <1>1, <1>3, <1>4, LoadForget
<1>5. CASE jobs[job].status = "FINISH" /\ NextFile /\ UNCHANGED <<force, rows, kept>>
  <2>1. \A id \in Ids : id[1] = FileName => Sha[id] = rows[id]
    BY DEF Sha, Content
  <2>2. ASSUME force, "reorders" \notin Faults, NEW id PROVE Coming(id) = {}
    <3>1. DOMAIN jobs = 1..Len(jobs) /\ Len(jobs) \in Nat
      BY DEF TypeOK, OpenspgType
    <3>2. \A k \in DOMAIN jobs : k = job \/ k \in 1..(job - 1)
      BY <1>2, <2>2, <3>1
    <3>3. \A k \in DOMAIN jobs : Ended(k)
      BY <1>1, <1>2, <2>2, <3>2 DEF OrderPart
    <3>. QED  BY <3>3 DEF Coming
  <2>3. FileLoaded(FileName)
    <3>. SUFFICES ASSUME NEW id \in Ids, id[1] = FileName, rows[id] # Absent
                  PROVE  /\ LoadedBy(id, rows[id]) # {}
                         /\ force /\ rows[id] \notin Gone => Stands(id, rows[id])
      BY <2>2 DEF FileLoaded
    <3>1. job \in LoadedBy(id, rows[id])
      BY <1>2, <1>5, <2>1 DEF LoadedBy
    <3>. QED  BY <1>1, <1>5, <2>1, <3>1 DEF LoadInv, ForcedPart
  <2>. QED  BY <1>1, <1>3, <1>5, <2>3, LoadNextFile DEF Loading
<1>. QED  BY <1>1, <1>4, <1>5


\* What is pending has its tombstone in a file, and all the files are done.
LEMMA LoadConfirm ==
    ASSUME TypeOK, LoadInv, ConfirmTombstones
    PROVE  LoadInv'
<1>1. /\ pc = "confirm" /\ pc' = "settle" /\ Run' = Run
      /\ reg' = [id \in Ids |-> IF reg[id] = "pending" THEN "confirmed" ELSE reg[id]]
      /\ UNCHANGED <<jobs, graph, rows, kept, force, url, uploads, buildJobs>>
  BY DEF ConfirmTombstones, openspgVars, exportVars, fileVars, recordVars, Run
<1>2. \A file : FileDone(file)' <=> FileDone(file)
  BY <1>1 DEF FileDone
<1>. USE DEF LoadInv
<1>3. UrlPart'
  <2>1. \A file : UrlUsed(file) => UrlUsed(file)'
    BY <1>1 DEF UrlUsed, FileDone, InHand
  <2>. QED  BY <1>1, <2>1, UrlFrame DEF InHand
<1>4. RowsPart'
  <2>. SUFFICES ASSUME NEW id \in Ids
       PROVE  /\ reg'[id] = "live" <=> TargetRows(kept)[id] # Absent
              /\ \/ rows[id] = TargetRows(kept)[id]
                 \/ reg'[id] # "live" /\ rows[id] = Tombstone
              /\ rows[id] = Tombstone => reg'[id] = "confirmed"
              /\ rows[id] = Absent => reg'[id] \in {"none", "confirmed"}
    BY <1>1 DEF RowsPart
  <2>. QED  BY <1>1 DEF RowsPart, Planned, Exported, Loading
<1>5. JobPart' /\ RecordPart'
  BY <1>1 DEF JobPart, RecordPart
<1>6. LoadedPart'
  BY <1>1, <1>2, SameHistory DEF LoadedPart
<1>7. ConfirmedWasDelivered'
  <2>. SUFFICES ASSUME NEW id \in Ids, reg'[id] = "confirmed"
                PROVE  LoadedBy(id, Tombstone) # {}
    BY <1>1, SameHistory DEF ConfirmedWasDelivered
  <2>1. CASE reg[id] = "confirmed"
    BY <2>1 DEF ConfirmedWasDelivered
  <2>2. CASE reg[id] = "pending"
    <3>1. rows[id] = Tombstone
      BY <1>1, <2>2 DEF RowsPart, Planned, Exported
    <3>. QED  BY <1>1, <3>1, RowAssumption DEF LoadedPart, FileDone
  <2>. QED  BY <1>1, <2>1, <2>2
<1>8. ForcedPart'
  BY <1>1, <1>2, SameHistory, SameStands DEF ForcedPart
<1>. QED  BY <1>3, <1>4, <1>5, <1>6, <1>7, <1>8

\* A row stands when another job ends, unless OpenSPG runs jobs in any order.
LEMMA StandsWhenJobRuns ==
    ASSUME TypeOK, NEW j \in DOMAIN jobs, BuilderFinishes(j) \/ BuilderFails(j),
           NEW id \in Ids, NEW v, Stands(id, v), LoadedBy(id, v) # {},
           "reorders" \notin Faults => jobs[j].rows[id] = Absent
    PROVE  Stands(id, v)'
<1>1. /\ ~Ended(j) /\ Ended(j)' /\ JobsGrow
      /\ DOMAIN jobs' = DOMAIN jobs /\ jobs'[j].rows = jobs[j].rows
      /\ graph'[id] = graph[id] \/ (graph'[id] = jobs[j].rows[id] /\ graph'[id] # Absent)
  BY JobRuns
<1>2. \A i \in LoadedBy(id, v) : i \in LoadedBy(id, v)' /\ i \in DOMAIN jobs
  BY <1>1, HistoryGrows DEF LoadedBy
<1>3. CASE graph[id] = v /\ graph'[id] # v
  <2>1. jobs[j].rows[id] \notin {Absent, v} /\ "reorders" \in Faults
    BY <1>1, <1>3
  <2>2. PICK i \in LoadedBy(id, v) : TRUE
    OBVIOUS
  <2>3. i # j /\ i \in DOMAIN jobs /\ jobs[i].rows[id] = v /\ jobs'[i].rows = jobs[i].rows
    BY <1>1, <2>2 DEF LoadedBy, Ended, JobsGrow
  <2>4. Overwritten(id, i)'
    BY <1>1, <2>1, <2>3 DEF Overwritten, Ended
  <2>. QED  BY <1>2, <2>1, <2>2, <2>4 DEF Stands
<1>4. CASE "reorders" \in Faults /\ \E i \in LoadedBy(id, v) : Overwritten(id, i)
  <2>1. PICK i \in LoadedBy(id, v) : Overwritten(id, i)
    BY <1>4
  <2>2. Overwritten(id, i)'
    BY <1>1, <1>2, <2>1, HistoryGrows
  <2>. QED  BY <1>2, <1>4, <2>2 DEF Stands
<1>. QED  BY <1>3, <1>4 DEF Stands

LEMMA LoadJobRuns ==
    ASSUME TypeOK, LoadInv, OrderPart,
           NEW j \in DOMAIN jobs, BuilderFinishes(j) \/ BuilderFails(j)
    PROVE  LoadInv'
<1>1. /\ UNCHANGED <<reg, pc, force, rows, kept, fileNo, url, job, uploads, buildJobs>>
      /\ Run' = Run
  BY JobRuns DEF outsideOpenspg, exportVars, fileVars, recordVars, Run
<1>2. /\ ~Ended(j) /\ Ended(j)' /\ JobsGrow
      /\ DOMAIN jobs' = DOMAIN jobs /\ Len(jobs') = Len(jobs)
      /\ \A k \in DOMAIN jobs : /\ jobs'[k].rows = jobs[k].rows
                                /\ jobs'[k].url = jobs[k].url
                                /\ jobs'[k].file = jobs[k].file
                                /\ k # j => jobs'[k] = jobs[k]
  BY JobRuns
<1>3. /\ \A id : Coming(id)' \subseteq Coming(id)
      /\ \A id \in Ids : jobs[j].rows[id] # Absent => jobs[j].rows[id] \in Coming(id)
      /\ jobs'[j].status = "FINISH"
           => \A id \in Ids : jobs[j].rows[id] \notin Gone => graph'[id] = jobs[j].rows[id]
  BY JobRuns
<1>4. /\ \A id, v : LoadedBy(id, v) \subseteq LoadedBy(id, v)'
      /\ RecordPart => RecordPart'
  BY <1>1, <1>2, HistoryGrows
<1>5. /\ \A file : FileDone(file)' <=> FileDone(file)
      /\ \A file : UrlUsed(file)' <=> UrlUsed(file)
      /\ InHand' <=> InHand
      /\ FileName' = FileName /\ Sha' = Sha
  BY <1>1 DEF FileDone, UrlUsed, InHand, FileName, Sha, Content, Loading
<1>. USE DEF LoadInv
<1>6. UrlPart'
  <2>1. Reusable' \subseteq Reusable
    BY <1>1, <1>2, <1>5 DEF Reusable, Ended
  <2>2. ASSUME NEW k \in DOMAIN jobs'
        PROVE  jobs'[k].url <= Run /\ (jobs'[k].url = Run => UrlUsed(jobs'[k].file))
    BY <1>2, <2>2 DEF UrlPart
  <2>3. \A u \in uploads, k \in DOMAIN jobs' :
          jobs'[k].file = u.file /\ jobs'[k].url = u.url => jobs'[k].rows = u.sha
    BY <1>2 DEF UrlPart
  <2>4. ASSUME NEW k \in DOMAIN jobs', jobs'[k].url = Run, NEW file, file = jobs'[k].file
        PROVE  UrlUsed(file)'
    BY <1>5, <2>2, <2>4
  <2>. QED  BY <1>1, <1>5, <2>1, <2>2, <2>3, <2>4 DEF UrlPart
<1>7. RowsPart'
  BY <1>1 DEF RowsPart, Planned, Exported, Loading
<1>8. JobPart'
  BY <1>1, <1>2, <1>5 DEF JobPart, TypeOK, PlaceType
<1>9. LoadedPart' /\ ConfirmedWasDelivered'
  BY <1>1, <1>4, <1>5 DEF LoadedPart, ConfirmedWasDelivered
<1>10. ForcedPart'
  <2>. SUFFICES ASSUME force, NEW id \in Ids
       PROVE  /\ pc \in {"record", "wait"} /\ jobs'[job].status = "FINISH" /\ Sha[id] \notin Gone
                    => Stands(id, Sha[id])'
              /\ FileDone(id[1]) /\ rows[id] \notin Gone
                    => /\ Stands(id, rows[id])'
                       /\ "reorders" \notin Faults => Coming(id)' = {}
    BY <1>1, <1>5 DEF ForcedPart
  <2>1. ASSUME pc \in {"record", "wait"}, jobs'[job].status = "FINISH", Sha[id] \notin Gone
        PROVE  Stands(id, Sha[id])'
    <3>1. job \in DOMAIN jobs /\ jobs[job].rows = Sha /\ job = Len(jobs)
      BY <2>1 DEF JobPart, TypeOK, PlaceType
    <3>2. CASE j = job
      <4>1. graph'[id] = Sha[id]
        BY <1>3, <2>1, <3>1, <3>2
      <4>. QED  BY <1>5, <4>1 DEF Stands
    <3>3. CASE j # job
      <4>1. jobs[job].status = "FINISH"
        BY <1>2, <2>1, <3>1, <3>3
      <4>2. Stands(id, Sha[id]) /\ job \in LoadedBy(id, Sha[id])
        BY <2>1, <3>1, <4>1 DEF ForcedPart, LoadedBy
      <4>3. "reorders" \in Faults
        <5>1. DOMAIN jobs = 1..Len(jobs) /\ Len(jobs) \in Nat
          BY DEF TypeOK, OpenspgType
        <5>2. j \in 1..(job - 1)
          BY <3>1, <3>3, <5>1
        <5>. QED  BY <1>2, <3>1, <4>1, <5>2 DEF OrderPart, Ended
      <4>4. ASSUME NEW v, v = Sha[id] PROVE Stands(id, v)'
        BY <4>2, <4>3, <4>4, StandsWhenJobRuns
      <4>. QED  BY <1>5, <4>4
    <3>. QED  BY <3>2, <3>3
  <2>2. ASSUME FileDone(id[1]), rows[id] \notin Gone
        PROVE  /\ Stands(id, rows[id])'
               /\ "reorders" \notin Faults => Coming(id)' = {}
    <3>1. /\ Stands(id, rows[id]) /\ LoadedBy(id, rows[id]) # {}
          /\ "reorders" \notin Faults => Coming(id) = {}
      BY <2>2 DEF ForcedPart, LoadedPart, Gone
    <3>2. "reorders" \notin Faults => jobs[j].rows[id] = Absent
      BY <1>3, <3>1
    <3>3. ASSUME NEW v, v = rows[id] PROVE Stands(id, v)'
      BY <3>1, <3>2, <3>3, StandsWhenJobRuns
    <3>. QED  BY <1>1, <1>3, <3>1, <3>3
  <2>. QED  BY <2>1, <2>2
<1>. QED  BY <1>4, <1>6, <1>7, <1>8, <1>9, <1>10

\* The purge takes away only what no file of a build holds as content.
LEMMA LoadPurge ==
    ASSUME TypeOK, LoadInv, PurgeNodes
    PROVE  LoadInv'
<1>1. /\ UNCHANGED <<reg, pc, force, rows, kept, fileNo, url, job, jobs, uploads, buildJobs>>
      /\ Run' = Run
      /\ graph' = [id \in Ids |-> IF reg[id] \in {"pending", "confirmed"}
                                  THEN Absent ELSE graph[id]]
  BY DEF PurgeNodes, outsideOpenspg, exportVars, fileVars, recordVars, Run
<1>2. /\ \A file : FileDone(file)' <=> FileDone(file)
      /\ \A file : UrlUsed(file)' <=> UrlUsed(file)
      /\ InHand' <=> InHand
      /\ FileName' = FileName /\ Sha' = Sha /\ Reusable' = Reusable
  BY <1>1 DEF FileDone, UrlUsed, InHand, FileName, Sha, Content, Loading, Reusable
<1>. USE DEF LoadInv
<1>3. UrlPart'
  BY <1>1, <1>2, UrlFrame DEF UrlPart
<1>4. RowsPart' /\ JobPart' /\ RecordPart'
  BY <1>1, <1>2 DEF RowsPart, JobPart, RecordPart, Planned, Exported, Loading
<1>5. LoadedPart' /\ ConfirmedWasDelivered'
  BY <1>1, <1>2, SameHistory DEF LoadedPart, ConfirmedWasDelivered
<1>6. ASSUME NEW id \in Ids, Planned, rows[id] \notin Gone, Stands(id, rows[id])
      PROVE  Stands(id, rows[id])'
  <2>1. reg[id] = "live"
    BY <1>6 DEF RowsPart, Gone
  <2>2. graph'[id] = graph[id]
    BY <1>1, <2>1
  <2>. QED  BY <1>1, <1>6, <2>2, SameHistory DEF Stands
<1>7. ForcedPart'
  <2>1. \A id \in Ids : Sha[id] \notin Gone => rows[id] = Sha[id]
    BY DEF Sha, Content, Gone
  <2>2. pc \in {"record", "wait"} \/ (\E file : FileDone(file)) => Planned
    BY DEF FileDone, Planned, Exported, Loading
  <2>. SUFFICES ASSUME force, NEW id \in Ids
       PROVE  /\ pc \in {"record", "wait"} /\ jobs[job].status = "FINISH" /\ Sha[id] \notin Gone
                    => Stands(id, Sha[id])'
              /\ FileDone(id[1]) /\ rows[id] \notin Gone
                    => /\ Stands(id, rows[id])'
                       /\ "reorders" \notin Faults => Coming(id)' = {}
    BY <1>1, <1>2 DEF ForcedPart
  <2>3. ASSUME pc \in {"record", "wait"}, jobs[job].status = "FINISH", Sha[id] \notin Gone
        PROVE  Stands(id, Sha[id])'
    <3>1. Stands(id, rows[id]) /\ rows[id] = Sha[id] /\ rows[id] \notin Gone
      BY <2>1, <2>3 DEF ForcedPart
    <3>2. Stands(id, rows[id])'
      BY <1>6, <2>2, <2>3, <3>1
    <3>. QED  BY <1>1, <1>2, <3>1, <3>2
  <2>4. ASSUME FileDone(id[1]), rows[id] \notin Gone
        PROVE  /\ Stands(id, rows[id])'
               /\ "reorders" \notin Faults => Coming(id)' = {}
    <3>1. /\ Stands(id, rows[id])
          /\ "reorders" \notin Faults => Coming(id) = {}
      BY <2>4 DEF ForcedPart
    <3>. QED  BY <1>1, <1>6, <2>2, <2>4, <3>1, SameHistory
  <2>. QED  BY <2>3, <2>4
<1>. QED  BY <1>3, <1>4, <1>5, <1>7

LEMMA LoadInvInit == Init => LoadInv
<1>. SUFFICES ASSUME Init PROVE LoadInv
  OBVIOUS
<1>1. UrlPart /\ ConfirmedWasDelivered
  BY DEF Init, UrlPart, InHand, ConfirmedWasDelivered
<1>2. RowsPart /\ JobPart /\ RecordPart /\ LoadedPart /\ ForcedPart
  BY DEF Init, RowsPart, JobPart, RecordPart, LoadedPart, ForcedPart, FileDone, Planned,
         Exported, Loading
<1>. QED  BY <1>1, <1>2 DEF LoadInv

LEMMA LoadInvStep ==
    ASSUME TypeOK, LoadInv, HistoryInv, [Next]_vars
    PROVE  LoadInv'
<1>. USE DEF HistoryInv
<1>1. CASE Inbox \/ UNCHANGED vars
  <2>1. UNCHANGED <<pc, loadVars, exportRuns>>
    BY <1>1, InboxSummary
    DEF vars, outsideInbox, recordVars, openspgVars, exportVars, fileVars, loadVars
  <2>. QED  BY <2>1, LoadFrame DEF Run
<1>2. CASE \E f \in ForceChoices : StartBuild(f)
  BY <1>2, LoadStart
<1>3. CASE AbortBuild \/ AbortOnDuplicates \/ JobTimesOut \/ SettleDirtyAfterBuild
  <2>1. ForgetBuild /\ UNCHANGED <<jobs, graph, reg, uploads, buildJobs>>
    BY <1>3 DEF AbortBuild, AbortOnDuplicates, JobTimesOut, SettleDirtyAfterBuild,
                outsideBuild, openspgVars, recordVars
  <2>2. CloseRun("error") \/ UNCHANGED exportRuns
    BY <1>3 DEF AbortBuild, ClosesRun, AbortOnDuplicates, JobTimesOut, SettleDirtyAfterBuild,
                outsideBuild, recordVars
  <2>3. RecordPart'
    BY <2>1 DEF LoadInv, RecordPart
  <2>. QED  BY <2>1, <2>2, <2>3, SameRun, LoadForget
<1>4. CASE CountPromoted \/ SelectPage \/ (\E doc \in Docs : ReplaceForDocument(doc))
             \/ SweepMirror \/ (\E d \in Drafts : WithdrawSupersededDraft(d))
  <2>1. UNCHANGED <<loadVars, exportRuns>>
    BY <1>4 DEF CountPromoted, SelectPage, ReplaceForDocument, SweepMirror,
                WithdrawSupersededDraft, outsideBuild, recordVars, openspgVars, exportVars,
                fileVars, loadVars
  <2>2. \/ pc' = pc
        \/ pc \in Paging /\ pc' \in Paging
        \/ pc = "mirror" /\ pc' = "edges"
    BY <1>4 DEF CountPromoted, SelectPage, ReplaceForDocument, SweepMirror,
                WithdrawSupersededDraft, Paging
  <2>. QED  BY <2>1, <2>2, LoadFrame DEF Run
<1>5. CASE SnapshotDirty \/ SyncGraphIds \/ FinishExport
  BY <1>5, LoadSnapshot, LoadSync, LoadFinishExport
<1>6. CASE SkipEmptyFile \/ UploadFromCache \/ UploadFile \/ SkipFinished \/ ReuseJob
             \/ SubmitCsvUpsertJob \/ RecordBuildJob \/ JobEnds
  BY <1>6, LoadSkipEmpty, LoadFromCache, LoadUpload, LoadSkipFinished, LoadReuse, LoadSubmit,
     LoadRecord, LoadJobEnds
<1>7. CASE ConfirmTombstones
  BY <1>7, LoadConfirm
<1>8. CASE OpenSpg
  BY <1>8, LoadJobRuns, LoadPurge DEF OpenSpg
<1>. QED  BY <1>1, <1>2, <1>3, <1>4, <1>5, <1>6, <1>7, <1>8
     DEF Next, BuildStep, Export, LoadFiles, Settle

-----------------------------------------------------------------------------
(***************************************************************************)
(* A clean base: what its target was loaded by stays in the history.       *)
(***************************************************************************)

LEMMA SameTarget ==
    ASSUME Promoted' = Promoted
    PROVE  /\ TargetRows(Promoted)' = TargetRows(Promoted)
           /\ GraphIdsOf(Promoted)' = GraphIdsOf(Promoted)
<1>1. TargetRows(Promoted)' = TargetRows(Promoted)
  BY DEF TargetRows, TopicRow, DocumentRow, ChunkRow, DocsOf
<1>. QED  BY <1>1 DEF GraphIdsOf

LEMMA CleanLoadedFrame ==
    ASSUME CleanLoadedPart, dirty' = 0 => dirty = 0 /\ Promoted' = Promoted,
           UNCHANGED reg, JobsGrow
    PROVE  CleanLoadedPart'
<1>. SUFFICES ASSUME dirty = 0, Promoted' = Promoted PROVE CleanLoadedPart'
  BY DEF CleanLoadedPart
<1>1. \A id, v : LoadedBy(id, v) \subseteq LoadedBy(id, v)'
  BY HistoryGrows
<1>2. \A id, v : LoadedBy(id, v) # {} => LoadedBy(id, v)' # {}
  BY <1>1
<1>. QED  BY <1>2, SameTarget DEF CleanLoadedPart

\* syncGraphIds on a clean base registers what the registry already holds.
LEMMA CleanLoadedSync ==
    ASSUME TypeOK, Parts, CleanLoadedPart, SyncGraphIds
    PROVE  CleanLoadedPart'
<1>. SUFFICES ASSUME dirty = 0 PROVE CleanLoadedPart'
  BY DEF CleanLoadedPart, SyncGraphIds, flagVars
<1>1. KeptNow = Promoted
  BY DEF SyncGraphIds, KeptNow, SupersededNow, Parts, VersionPart, PagesPart, CleanPart, Started
<1>2. /\ reg' = [id \in Ids |-> IF id \in GraphIdsOf(Promoted) THEN "live"
                                ELSE IF Outstanding(id) THEN "pending" ELSE reg[id]]
      /\ UNCHANGED <<jobs, dirty, status>>
  BY <1>1 DEF SyncGraphIds, Registered, flagVars, inboxVars, openspgVars
<1>3. Promoted' = Promoted
  BY <1>2 DEF Promoted
<1>4. \A id \in Ids : IF id \in GraphIdsOf(Promoted) THEN reg'[id] = "live"
                      ELSE reg'[id] # "live"
  BY <1>2 DEF CleanLoadedPart, Outstanding
<1>. QED  BY <1>2, <1>3, <1>4, SameTarget, SameHistory DEF CleanLoadedPart

\* The build that leaves the base clean has loaded every file of its target.
LEMMA CleanLoadedSettle ==
    ASSUME TypeOK, Parts, LoadInv, CleanLoadedPart, SettleDirtyAfterBuild
    PROVE  CleanLoadedPart'
<1>0. /\ pc = "settle" /\ superseded = {} /\ Promoted' = Promoted
      /\ UNCHANGED <<reg, jobs, status>>
  BY DEF SettleDirtyAfterBuild, inboxVars, openspgVars, Promoted
<1>1. CASE Unchanged
  <2>1. kept = Promoted
    BY <1>0, <1>1 DEF Parts, PlanPart, Planned, Exported
  <2>2. ASSUME NEW id \in Ids
        PROVE  IF id \in GraphIdsOf(Promoted)
               THEN reg[id] = "live" /\ LoadedBy(id, TargetRows(Promoted)[id]) # {}
               ELSE reg[id] # "live"
    <3>1. /\ reg[id] = "live" <=> id \in GraphIdsOf(Promoted)
          /\ id \in GraphIdsOf(Promoted) => rows[id] = TargetRows(Promoted)[id]
      BY <1>0, <2>1, RowAssumption DEF LoadInv, RowsPart, Planned, Exported, GraphIdsOf
    <3>2. CASE id \in GraphIdsOf(Promoted)
      <4>1. rows[id] # Absent
        BY <3>1, <3>2, PromotedType, TargetIsContent DEF Gone
      <4>2. LoadedBy(id, rows[id]) # {}
        BY <1>0, <4>1 DEF LoadInv, LoadedPart, FileDone
      <4>. QED  BY <3>1, <3>2, <4>2
    <3>. QED  BY <3>1, <3>2
  <2>. QED  BY <1>0, <2>2, SameTarget, SameHistory DEF CleanLoadedPart
<1>2. CASE ~Unchanged
  <2>1. dirty' = dirty /\ dirty # 0
    BY <1>0, <1>2 DEF SettleDirtyAfterBuild, ChangedDuringBuild, Unchanged, Parts, VersionPart,
                      Started, TypeOK, FlagType, PlaceType
  <2>. QED  BY <2>1 DEF CleanLoadedPart
<1>. QED  BY <1>1, <1>2

LEMMA CleanLoadedStep ==
    ASSUME MirrorInv, LoadInv, CleanLoadedPart, [Next]_vars
    PROVE  CleanLoadedPart'
<1>. USE DEF MirrorInv
<1>0. TypeOK /\ Parts
  BY DEF Parts
<1>1. UNCHANGED jobs => JobsGrow
  BY DEF JobsGrow
<1>2. CASE Inbox \/ UNCHANGED vars
  <2>1. UNCHANGED <<reg, jobs>> /\ (dirty' = 0 => dirty = 0 /\ Promoted' = Promoted)
    BY <1>2, InboxSummary
    DEF outsideInbox, vars, flagVars, inboxVars, openspgVars, MarkDirty, Promoted
  <2>. QED  BY <1>1, <2>1, CleanLoadedFrame
<1>3. CASE (\E f \in ForceChoices : StartBuild(f)) \/ AbortBuild
  BY <1>1, <1>3, CleanLoadedFrame
  DEF StartBuild, AbortBuild, outsideBuild, flagVars, inboxVars, openspgVars, Promoted
<1>4. CASE Export
  <2>1. CASE SyncGraphIds
    BY <1>0, <2>1, CleanLoadedSync
  <2>2. CASE Export /\ ~SyncGraphIds
    BY <1>1, <2>2, CleanLoadedFrame
    DEF Export, SnapshotDirty, CountPromoted, SelectPage, AbortOnDuplicates, ReplaceForDocument,
        SweepMirror, FinishExport, outsideBuild, flagVars, inboxVars, openspgVars, Promoted
  <2>. QED  BY <1>4, <2>1, <2>2
<1>5. CASE LoadFiles
  <2>1. UNCHANGED <<reg, dirty>> /\ Promoted' = Promoted
    BY <1>5
    DEF LoadFiles, SkipEmptyFile, UploadFromCache, UploadFile, SkipFinished, ReuseJob,
        SubmitCsvUpsertJob, RecordBuildJob, JobEnds, JobTimesOut, outsideBuild, flagVars,
        inboxVars, Promoted
  <2>2. CASE SubmitCsvUpsertJob
    <3>. DEFINE new == [file |-> FileName, url |-> url, rows |-> Sha, status |-> "RUNNING"]
    <3>1. jobs' = Append(jobs, new) /\ new.status = "RUNNING"
      BY <2>2 DEF SubmitCsvUpsertJob
    <3>2. JobsGrow
      <4>. HIDE DEF new
      <4>. QED  BY <1>0, <3>1, JobSubmitted
    <3>. QED  BY <2>1, <3>2, CleanLoadedFrame
  <2>3. CASE LoadFiles /\ ~SubmitCsvUpsertJob
    <3>1. UNCHANGED jobs
      BY <2>3
      DEF LoadFiles, SkipEmptyFile, UploadFromCache, UploadFile, SkipFinished, ReuseJob,
          RecordBuildJob, JobEnds, JobTimesOut, outsideBuild, openspgVars
    <3>. QED  BY <1>1, <2>1, <3>1, CleanLoadedFrame
  <2>. QED  BY <1>5, <2>2, <2>3
<1>6. CASE ConfirmTombstones
  <2>1. /\ reg' = [id \in Ids |-> IF reg[id] = "pending" THEN "confirmed" ELSE reg[id]]
        /\ UNCHANGED <<jobs, dirty, status>>
    BY <1>6 DEF ConfirmTombstones, flagVars, inboxVars, openspgVars
  <2>2. Promoted' = Promoted
    BY <2>1 DEF Promoted
  <2>. QED  BY <2>1, <2>2, SameTarget, SameHistory DEF CleanLoadedPart
<1>7. CASE \E d \in Drafts : WithdrawSupersededDraft(d)
  <2>1. dirty' = dirty /\ dirty # 0
    BY <1>0, <1>7 DEF WithdrawSupersededDraft, Parts, CleanPart, flagVars
  <2>. QED  BY <2>1 DEF CleanLoadedPart
<1>8. CASE SettleDirtyAfterBuild
  BY <1>0, <1>8, CleanLoadedSettle
<1>9. CASE OpenSpg
  <2>1. UNCHANGED <<reg, dirty, status>>
    BY <1>9 DEF OpenSpg, BuilderFinishes, BuilderFails, PurgeNodes, outsideOpenspg, flagVars,
                inboxVars
  <2>2. JobsGrow
    BY <1>0, <1>1, <1>9, JobRuns DEF OpenSpg, PurgeNodes
  <2>. QED  BY <2>1, <2>2, CleanLoadedFrame DEF Promoted
<1>. QED  BY <1>2, <1>3, <1>4, <1>5, <1>6, <1>7, <1>8, <1>9 DEF Next, BuildStep, Settle

LEMMA GraphInvInit == Init => GraphInv
<1>. SUFFICES ASSUME Init PROVE GraphInv
  OBVIOUS
<1>1. Promoted = {} /\ reg = [id \in Ids |-> "none"]
  BY DEF Init, Promoted
<1>2. \A id \in Ids : TargetRows({})[id] = Absent
  <2>1. \A topic : TopicRow({}, topic) = Absent
    <3>1. \A topic : {d \in {} : topic \in TopicsOf[d]} = {}
      OBVIOUS
    <3>. QED  BY <3>1, FS_EmptySet DEF TopicRow
  <2>2. \A doc : DocumentRow({}, doc) = Absent /\ ChunkRow({}, doc) = Absent
    BY DEF DocumentRow, ChunkRow, DocsOf
  <2>3. \A id \in Ids : id[1] \in {"topic.csv", "reference_document.csv", "chunk.csv"}
    BY DEF Ids
  <2>. QED  BY <2>1, <2>2, <2>3 DEF TargetRows
<1>3. CleanLoadedPart
  BY <1>1, <1>2 DEF CleanLoadedPart, GraphIdsOf
<1>4. HistoryInv
  BY DEF Init, HistoryInv, OrderPart, WrittenPart
<1>. QED  BY <1>3, <1>4, LoadInvInit DEF GraphInv

(***************************************************************************)
(* GraphInv holds in every reachable state, forced or not, whatever        *)
(* OpenSPG loses or reorders: the registry and the rows agree, an upload   *)
(* is known by its URL, what a build is through with was loaded by a job,  *)
(* and a job's content stays until another row or a purge comes            *)
(* (builder.ts, graph-ids.ts, build-kb.ts).                                *)
(***************************************************************************)
THEOREM GraphInvariant == Spec => []GraphInv
<1>1. MirrorInv /\ GraphInv /\ [Next]_vars => GraphInv'
  BY LoadInvStep, HistoryStep, CleanLoadedStep DEF MirrorInv, GraphInv
<1>. QED  BY <1>1, GraphInvInit, MirrorInvariant, PTL DEF Spec

(***************************************************************************)
(* A confirmed tombstone was in a file that a job of OpenSPG finished,     *)
(* whichever build sent it and whether the build that confirms it sent,    *)
(* skipped or took over the job: that, and no more, is what confirmed_at   *)
(* means (graph-ids.ts:109-112; builder.ts: waitForJob).                   *)
(***************************************************************************)
THEOREM ConfirmedIsDelivered == Spec => []ConfirmedWasDelivered
<1>1. GraphInv => ConfirmedWasDelivered
  BY DEF GraphInv, LoadInv
<1>. QED  BY <1>1, GraphInvariant, PTL

(***************************************************************************)
(* With dirty = 0 every row of the target was loaded by a job that         *)
(* finished, and the node has it still unless another row or a purge came; *)
(* nothing outside the target can be read, lost tombstones or not          *)
(* (build-kb.ts:146 and :236-240, kb-dirty.ts).                            *)
(***************************************************************************)
THEOREM CleanIsLoaded == Spec => []CleanUnlessReloaded
<1>1. TypeOK /\ GraphInv /\ NothingUntracked => CleanUnlessReloaded
  <2>. SUFFICES ASSUME TypeOK, GraphInv, NothingUntracked, dirty = 0, NEW id \in Ids
                PROVE  IF id \in GraphIdsOf(Promoted)
                       THEN LET v == TargetRows(Promoted)[id]
                            IN  /\ reg[id] = "live"
                                /\ LoadedBy(id, v) # {}
                                /\ \/ graph[id] \in {v, Absent}
                                   \/ \A j \in LoadedBy(id, v) : Overwritten(id, j)
                       ELSE ~Readable(id)
    BY DEF CleanUnlessReloaded
  <2>1. reg[id] \in {"none", "live", "pending", "confirmed"}
    BY DEF TypeOK, StoreType
  <2>2. CASE id \in GraphIdsOf(Promoted)
    <3>. DEFINE v == TargetRows(Promoted)[id]
    <3>1. reg[id] = "live" /\ LoadedBy(id, v) # {}
      BY <2>2 DEF GraphInv, CleanLoadedPart
    <3>2. v \notin Gone
      BY <2>2, PromotedType, TargetIsContent
    <3>. HIDE DEF v
    <3>3. ASSUME NEW j \in LoadedBy(id, v), ~Overwritten(id, j) PROVE graph[id] \in {v, Absent}
      BY <3>2, <3>3 DEF LoadedBy, GraphInv, HistoryInv, WrittenPart
    <3>. QED  BY <2>2, <3>1, <3>3 DEF v
  <2>3. CASE id \notin GraphIdsOf(Promoted)
    BY <2>1, <2>3 DEF GraphInv, CleanLoadedPart, NothingUntracked, Readable
  <2>. QED  BY <2>2, <2>3
<1>. QED  BY <1>1, GraphInvariant, GraphIsTracked, TypeCorrect, PTL

(***************************************************************************)
(* A forced build leaves the rows of its target in their nodes, whatever   *)
(* was there, queued or recorded before it; only jobs run out of order can *)
(* put another row over one (build-kb.ts:132-161, isReusableActiveJob).    *)
(***************************************************************************)
THEOREM ForcedIsLoaded == Spec => []ForcedBuildLoads
<1>1. TypeOK /\ GraphInv /\ NothingUntracked => ForcedBuildLoads
  <2>. SUFFICES ASSUME TypeOK, GraphInv, NothingUntracked, pc = "settle", force, NEW id \in Ids
                PROVE  IF id \in GraphIdsOf(kept)
                       THEN reg[id] = "live" /\ Stands(id, TargetRows(kept)[id])
                       ELSE ~Readable(id)
    BY DEF ForcedBuildLoads, Stands
  <2>1. /\ reg[id] \in {"none", "live", "pending", "confirmed"}
        /\ kept \in SUBSET Drafts
    BY DEF TypeOK, StoreType, ExportType
  <2>2. Planned /\ FileDone(id[1])
    BY DEF Planned, Exported, FileDone
  <2>3. CASE id \in GraphIdsOf(kept)
    <3>1. TargetRows(kept)[id] \notin Gone
      BY <2>1, <2>3, TargetIsContent
    <3>2. reg[id] = "live" /\ rows[id] = TargetRows(kept)[id]
      BY <2>2, <3>1 DEF GraphInv, LoadInv, RowsPart, Gone
    <3>. QED  BY <2>2, <2>3, <3>1, <3>2 DEF GraphInv, LoadInv, ForcedPart
  <2>4. CASE id \notin GraphIdsOf(kept)
    <3>1. reg[id] # "live"
      BY <2>2, <2>4 DEF GraphInv, LoadInv, RowsPart, GraphIdsOf
    <3>. QED  BY <2>1, <2>4, <3>1 DEF NothingUntracked, Readable
  <2>. QED  BY <2>3, <2>4
<1>. QED  BY <1>1, GraphInvariant, GraphIsTracked, TypeCorrect, PTL

=============================================================================
