------------------------------ MODULE KbBuild ------------------------------
(***************************************************************************)
(* From the Inbox to the graph, for one knowledge base of PomagierKB.      *)
(*                                                                         *)
(* The panel and the MCP server create, promote, reject and withdraw       *)
(* drafts, at any time.  A build is a detached process (jobs/build-kb.ts)  *)
(* that exports the promoted drafts to three CSV files, replaces the local *)
(* full-text mirror, uploads each file to OpenSPG, waits for the UPSERT    *)
(* job that loads it into the graph, and settles the knowledge base's      *)
(* dirty flag.  All of them share one SQLite database and interleave at    *)
(* its transactions; OpenSPG runs its jobs on its own, and the build may   *)
(* die anywhere.                                                           *)
(*                                                                         *)
(* An action is one transaction (or one call to OpenSPG) with the code     *)
(* that runs up to the next one.                                           *)
(***************************************************************************)
EXTENDS Precedence, Sequences

CONSTANTS
    Topics,        \* tags, as topic ids
    Docs,          \* document identities
    DocOf,         \* docHash: the identity of a draft, from source_ref and content
    TopicsOf,      \* the tags of a draft
    Absent,        \* no row, or no node
    Tombstone,     \* the row that overwrites a node with the tombstone marker
    PageSize,      \* page of allPromotedDrafts (200 in the code)
    ForceChoices,  \* values of the build's `force` parameter
    Faults,        \* what may go wrong outside: a subset of AllFaults
    MaxRuns        \* bound: export runs

(***************************************************************************)
(* "reorders": OpenSPG may run jobs in another order than it received      *)
(* them; "loses_tombstones": a job may end FINISH without having written   *)
(* its tombstone rows, as production showed (graph-ids.ts:109-112);        *)
(* "fails": a job may end ERROR; "dies": the build process may die, or be  *)
(* cancelled, or a call of it throw; "gives_up": waitForJob may time out;  *)
(* "purges": the operator may run purge_graph_nodes.sh.                    *)
(***************************************************************************)
AllFaults == {"reorders", "loses_tombstones", "fails", "dies", "gives_up", "purges"}

ASSUME DocAssumption ==
    /\ DocOf \in [Drafts -> Docs]
    /\ \A d, e \in Drafts : DocOf[d] = DocOf[e] => RefOf[d] = RefOf[e]
ASSUME TopicsAssumption == TopicsOf \in [Drafts -> SUBSET Topics]
ASSUME RowAssumption ==
    Absent \notin Nat /\ Tombstone \notin Nat /\ Absent # Tombstone
ASSUME PageAssumption == PageSize \in Nat \ {0}
ASSUME BuilderAssumption ==
    /\ Faults \subseteq AllFaults
    /\ ForceChoices \subseteq BOOLEAN /\ MaxRuns \in Nat

VARIABLES
    \* drafts
    status, promotedAt, supersedeDue,
    \* kb_registry
    dirty, dirtyVersion, builtVersion,
    \* graph_ids; chunks_mirror; graph_edges (by document)
    reg, mirror, edges,
    \* export_runs, upload_records, build_jobs
    exportRuns, uploads, buildJobs,
    \* OpenSPG: its jobs and its graph
    jobs, graph,
    \* the build process: its place, `force`, dirtySnapshot
    pc, force, snap,
    \* allPromotedDrafts
    total, offset, outLen, fetched, twice,
    \* what runExport computed and still has to write
    superseded, kept, rows, todo,
    \* the file loop
    fileNo, url, job

inboxVars   == <<status, promotedAt, supersedeDue>>
flagVars    == <<dirty, dirtyVersion, builtVersion>>
mirrorVars  == <<mirror, edges>>
recordVars  == <<exportRuns, uploads, buildJobs>>
openspgVars == <<jobs, graph>>
pageVars    == <<total, offset, outLen, fetched, twice>>
exportVars  == <<superseded, kept, rows, todo>>
fileVars    == <<fileNo, url, job>>
vars == <<inboxVars, flagVars, reg, mirrorVars, recordVars, openspgVars,
          pc, force, snap, pageVars, exportVars, fileVars>>

-----------------------------------------------------------------------------
(***************************************************************************)
(* Rows.  An id of the graph is a file name and the entity's name in it.   *)
(* A row's content is abstracted to what changes from one export to        *)
(* another: a topic's usageCount, the draft a document row was made from   *)
(* (its createdAt and title), nothing for a chunk, whose id already holds  *)
(* the hash of its content.  A file's sha256 is the file's rows.           *)
(***************************************************************************)
EXPORT_FILE_ORDER == <<"topic.csv", "reference_document.csv", "chunk.csv">>

Files == {EXPORT_FILE_ORDER[i] : i \in 1..3}
Ids == ({"topic.csv"} \X Topics)
         \cup ({"reference_document.csv", "chunk.csv"} \X Docs)
Row == Nat \cup {Absent, Tombstone}
NoRows == [id \in Ids |-> Absent]

Promoted == {d \in Drafts : status[d] = "promoted"}
DocsOf(S) == {DocOf[d] : d \in S}

TopicRow(S, topic) ==
    LET n == Cardinality({d \in S : topic \in TopicsOf[d]})
    IN  IF n = 0 THEN Absent ELSE n
DocumentRow(S, doc) ==
    IF doc \in DocsOf(S) THEN CHOOSE d \in S : DocOf[d] = doc ELSE Absent
ChunkRow(S, doc) == IF doc \in DocsOf(S) THEN 1 ELSE Absent

\* buildExportRows, for the drafts that precedence keeps.
TargetRows(S) ==
    [id \in Ids |-> CASE id[1] = "topic.csv" -> TopicRow(S, id[2])
                      [] id[1] = "reference_document.csv" -> DocumentRow(S, id[2])
                      [] id[1] = "chunk.csv" -> ChunkRow(S, id[2])]

GraphIdsOf(S) == {id \in Ids : TargetRows(S)[id] # Absent}

\* A file is its rows: everything else is Absent from it.
Content(fileName) == [id \in Ids |-> IF id[1] = fileName THEN rows[id] ELSE Absent]

-----------------------------------------------------------------------------
Init ==
    /\ status = [d \in Drafts |-> "absent"]
    /\ promotedAt = [d \in Drafts |-> 0]
    /\ supersedeDue = {}
    /\ dirty = 0 /\ dirtyVersion = 0 /\ builtVersion = 0
    /\ reg = [id \in Ids |-> "none"]
    /\ mirror = {} /\ edges = {}
    /\ exportRuns = <<>> /\ uploads = {} /\ buildJobs = <<>>
    /\ jobs = <<>> /\ graph = NoRows
    /\ pc = "idle" /\ force = FALSE /\ snap = 0
    /\ total = 0 /\ offset = 0 /\ outLen = 0 /\ fetched = {} /\ twice = {}
    /\ superseded = {} /\ kept = {} /\ rows = NoRows /\ todo = {}
    /\ fileNo = 0 /\ url = 0 /\ job = 0

-----------------------------------------------------------------------------
(***************************************************************************)
(* The Inbox.                                                              *)
(***************************************************************************)

\* markDirty, with the trigger kb_registry_dirty_bump.
MarkDirty ==
    /\ dirty' = 1
    /\ dirtyVersion' = dirtyVersion + 1
    /\ UNCHANGED builtVersion

outsideInbox == <<reg, mirrorVars, recordVars, openspgVars,
                  pc, force, snap, pageVars, exportVars, fileVars>>

\* createDraft commits the draft; supersedeDraft runs after it, on its own.
CreateDraft(d) ==
    /\ status[d] = "absent"
    /\ \A e \in Drafts : e < d => status[e] # "absent"
    /\ status' = [status EXCEPT ![d] = "pending"]
    /\ supersedeDue' = IF SupersedesOf[d] \in {NoDraft, d} THEN supersedeDue
                       ELSE supersedeDue \cup {d}
    /\ UNCHANGED <<promotedAt, flagVars, outsideInbox>>

\* Only a promoted predecessor is withdrawn, and that dirties the base.
SupersedeDraft(d) ==
    /\ d \in supersedeDue
    /\ supersedeDue' = supersedeDue \ {d}
    /\ IF status[SupersedesOf[d]] = "promoted"
       THEN status' = [status EXCEPT ![SupersedesOf[d]] = "withdrawn"] /\ MarkDirty
       ELSE UNCHANGED <<status, flagVars>>
    /\ UNCHANGED <<promotedAt, outsideInbox>>

\* The process that created d dies between its two transactions.
LoseSupersede(d) ==
    /\ d \in supersedeDue
    /\ supersedeDue' = supersedeDue \ {d}
    /\ UNCHANGED <<status, promotedAt, flagVars, outsideInbox>>

\* promoteDraft; promotedAt numbers the promotions.
PromoteDraft(d) ==
    /\ status[d] = "pending"
    /\ status' = [status EXCEPT ![d] = "promoted"]
    /\ promotedAt' = [promotedAt EXCEPT ![d] =
                         1 + Cardinality({e \in Drafts : promotedAt[e] > 0})]
    /\ MarkDirty
    /\ UNCHANGED <<supersedeDue, outsideInbox>>

RejectDraft(d) ==
    /\ status[d] = "pending"
    /\ status' = [status EXCEPT ![d] = "rejected"]
    /\ UNCHANGED <<promotedAt, supersedeDue, flagVars, outsideInbox>>

WithdrawDraft(d) ==
    /\ status[d] = "promoted"
    /\ status' = [status EXCEPT ![d] = "withdrawn"]
    /\ MarkDirty
    /\ UNCHANGED <<promotedAt, supersedeDue, outsideInbox>>

Inbox == \E d \in Drafts :
    \/ CreateDraft(d) \/ SupersedeDraft(d) \/ LoseSupersede(d)
    \/ PromoteDraft(d) \/ RejectDraft(d) \/ WithdrawDraft(d)

-----------------------------------------------------------------------------
(***************************************************************************)
(* The build: preflight, snapshot of the dirty version, export.            *)
(***************************************************************************)
outsideBuild == <<inboxVars, flagVars, reg, mirrorVars, recordVars, openspgVars>>

\* The build process is gone: nothing of its memory is left.
ForgetBuild ==
    /\ pc' = "idle" /\ force' = FALSE /\ snap' = 0
    /\ total' = 0 /\ offset' = 0 /\ outLen' = 0 /\ fetched' = {} /\ twice' = {}
    /\ superseded' = {} /\ kept' = {} /\ rows' = NoRows /\ todo' = {}
    /\ fileNo' = 0 /\ url' = 0 /\ job' = 0

Run == Len(exportRuns)

CloseRun(result) ==
    exportRuns' = [exportRuns EXCEPT ![Run] = result]

\* Preflight: no other build of this base, at least one promoted draft.
StartBuild(f) ==
    /\ pc = "idle"
    /\ Promoted # {}
    /\ Len(exportRuns) < MaxRuns
    /\ pc' = "snapshot" /\ force' = f
    /\ UNCHANGED <<snap, pageVars, exportVars, fileVars, outsideBuild>>

\* snapshotDirty, startExportRun.
SnapshotDirty ==
    /\ pc = "snapshot"
    /\ snap' = dirtyVersion
    /\ exportRuns' = Append(exportRuns, "running")
    /\ pc' = "count"
    /\ UNCHANGED <<inboxVars, flagVars, reg, mirrorVars, uploads, buildJobs,
                   openspgVars, force, pageVars, exportVars, fileVars>>

\* listDrafts reads COUNT(*) and the page in two statements.
CountPromoted ==
    /\ pc = "count"
    /\ total' = Cardinality(Promoted)
    /\ pc' = "page"
    /\ UNCHANGED <<force, snap, offset, outLen, fetched, twice, exportVars,
                   fileVars, outsideBuild>>

AtMost(n, bound) == IF n < bound THEN n ELSE bound

\* ORDER BY created_at DESC LIMIT PageSize OFFSET offset: page comes after newer.
IsPage(newer, page) ==
    LET n == Cardinality(Promoted)
    IN  /\ Cardinality(newer) = AtMost(offset, n)
        /\ Cardinality(page) = AtMost(PageSize, n - Cardinality(newer))
        /\ \A a \in newer, b \in Promoted \ newer : a > b
        /\ \A a \in page, b \in Promoted \ (newer \cup page) : a > b

\* A fault: only a full list ends the loop.
LastPageByTotal(page) == outLen + Cardinality(page) >= total

LastPage(page) == page = {} \/ outLen + Cardinality(page) >= total

\* An offset past every draft is capped: it finds an empty page, as any larger one.
SelectPage ==
    /\ pc = "page"
    /\ \E newer \in SUBSET Promoted : \E page \in SUBSET (Promoted \ newer) :
        /\ IsPage(newer, page)
        /\ fetched' = fetched \cup page
        /\ twice' = twice \cup (fetched \cap page)
        /\ outLen' = outLen + Cardinality(page)
        /\ offset' = AtMost(offset + PageSize, Cardinality(Drafts))
        /\ pc' = IF LastPage(page) THEN "rows" ELSE "count"
    /\ UNCHANGED <<force, snap, total, exportVars, fileVars, outsideBuild>>

SupersededNow == Superseded(fetched, twice, promotedAt)
KeptNow == fetched \ SupersededNow

\* findDuplicateIds: a draft listed twice, or two with one identity.
DuplicateIds ==
    \/ KeptNow \cap twice # {}
    \/ \E d, e \in KeptNow : d # e /\ DocOf[d] = DocOf[e]

\* The export is aborted before it touches the registry or the mirror.
AbortOnDuplicates ==
    /\ pc = "rows"
    /\ DuplicateIds
    /\ CloseRun("error")
    /\ ForgetBuild
    /\ UNCHANGED <<inboxVars, flagVars, reg, mirrorVars, uploads, buildJobs, openspgVars>>

\* graph_ids rows that get a tombstone: out of the target and not confirmed.
Outstanding(id) == reg[id] \in {"live", "pending"}

TombstoneRow(id) == IF Outstanding(id) THEN Tombstone ELSE Absent

\* A fault: the rows of the documents are sent without being registered.
RegisteredChunksOnly(id, current) == id \in current /\ id[1] = "chunk.csv"

Registered(id, current) == id \in current

\* syncGraphIds, one transaction, and the three files with their tombstones.
SyncGraphIds ==
    /\ pc = "rows"
    /\ ~DuplicateIds
    /\ LET current == GraphIdsOf(KeptNow)
       IN  /\ reg' = [id \in Ids |->
                        IF Registered(id, current) THEN "live"
                        ELSE IF Outstanding(id) THEN "pending" ELSE reg[id]]
           /\ rows' = [id \in Ids |->
                         IF id \in current THEN TargetRows(KeptNow)[id]
                         ELSE TombstoneRow(id)]
    /\ kept' = KeptNow
    /\ superseded' = SupersededNow
    /\ todo' = DocsOf(KeptNow)
    /\ pc' = "mirror"
    /\ total' = 0 /\ offset' = 0 /\ outLen' = 0 /\ fetched' = {} /\ twice' = {}
    /\ UNCHANGED <<inboxVars, flagVars, mirrorVars, recordVars, openspgVars,
                   force, snap, fileVars>>

\* replaceForDocument: one transaction per document.
ReplaceForDocument(doc) ==
    /\ pc = "mirror"
    /\ doc \in todo
    /\ mirror' = mirror \cup {doc}
    /\ todo' = todo \ {doc}
    /\ UNCHANGED <<inboxVars, flagVars, reg, edges, recordVars, openspgVars, pc,
                   force, snap, pageVars, superseded, kept, rows, fileVars>>

\* A fault: the documents that left the target stay in the mirror.
Unswept == mirror

Swept == mirror \cap DocsOf(kept)

\* The mirror drops the documents that left the target.
SweepMirror ==
    /\ pc = "mirror"
    /\ todo = {}
    /\ mirror' = Swept
    /\ pc' = "edges"
    /\ UNCHANGED <<inboxVars, flagVars, reg, edges, recordVars, openspgVars,
                   force, snap, pageVars, exportVars, fileVars>>

\* replaceEdgesForNamespace, the manifest, finishExportRun.
FinishExport ==
    /\ pc = "edges"
    /\ edges' = DocsOf(kept)
    /\ CloseRun("success")
    /\ pc' = "file" /\ fileNo' = 1
    /\ UNCHANGED <<inboxVars, flagVars, reg, mirror, uploads, buildJobs, openspgVars,
                   force, snap, pageVars, exportVars, url, job>>

Export ==
    \/ SnapshotDirty \/ CountPromoted \/ SelectPage
    \/ AbortOnDuplicates \/ SyncGraphIds
    \/ (\E doc \in Docs : ReplaceForDocument(doc))
    \/ SweepMirror \/ FinishExport

-----------------------------------------------------------------------------
(***************************************************************************)
(* The file loop: upload, skip or submit or take over, record, wait.       *)
(***************************************************************************)
FileName == EXPORT_FILE_ORDER[fileNo]
Sha == Content(FileName)
HasRows == Sha # NoRows

LastFile == fileNo = Len(EXPORT_FILE_ORDER)

NextFile ==
    /\ pc' = IF LastFile THEN "confirm" ELSE "file"
    /\ fileNo' = IF LastFile THEN 0 ELSE fileNo + 1
    /\ url' = 0 /\ job' = 0

SkipEmptyFile ==
    /\ pc = "file"
    /\ ~HasRows
    /\ NextFile
    /\ UNCHANGED <<force, snap, pageVars, exportVars, outsideBuild>>

\* getUploadRecord: the upload of this content, if any.
Uploaded == {u \in uploads : u.file = FileName /\ u.sha = Sha}

UploadFromCache ==
    /\ pc = "file"
    /\ HasRows
    /\ ~force
    /\ \E u \in Uploaded : url' = u.url
    /\ pc' = "decide"
    /\ UNCHANGED <<force, snap, pageVars, exportVars, fileNo, job, outsideBuild>>

\* A fresh upload: its URL is the run's, a run uploads a file once.
UploadFile ==
    /\ pc = "file"
    /\ HasRows
    /\ force \/ Uploaded = {}
    /\ url' = Run
    /\ uploads' = (uploads \ Uploaded) \cup {[file |-> FileName, sha |-> Sha, url |-> Run]}
    /\ pc' = "decide"
    /\ UNCHANGED <<inboxVars, flagVars, reg, mirrorVars, exportRuns, buildJobs,
                   openspgVars, force, snap, pageVars, exportVars, fileNo, job>>

\* A fault: any finished job of the file counts, whatever it loaded.
AlreadyBuiltByName ==
    /\ ~force
    /\ \E i \in DOMAIN buildJobs : /\ buildJobs[i].file = FileName
                                   /\ buildJobs[i].status = "FINISH"

\* findFinishedBuildJob: some job of this file and content has ever finished.
AlreadyBuilt ==
    /\ ~force
    /\ \E i \in DOMAIN buildJobs : /\ buildJobs[i].file = FileName
                                   /\ buildJobs[i].sha = Sha
                                   /\ buildJobs[i].status = "FINISH"

SkipFinished ==
    /\ pc = "decide"
    /\ AlreadyBuilt
    /\ NextFile
    /\ UNCHANGED <<force, snap, pageVars, exportVars, outsideBuild>>

\* A fault: any running job of the file is taken over, whatever it loads.
ReusableByName == {j \in DOMAIN jobs : /\ jobs[j].status = "RUNNING"
                                       /\ jobs[j].file = FileName}

\* isReusableActiveJob: same file, same URL, still running.
Reusable == {j \in DOMAIN jobs : /\ jobs[j].status = "RUNNING"
                                 /\ jobs[j].file = FileName
                                 /\ jobs[j].url = url}

ReuseJob ==
    /\ pc = "decide"
    /\ ~AlreadyBuilt
    /\ \E j \in Reusable : job' = j
    /\ pc' = "record"
    /\ UNCHANGED <<force, snap, pageVars, exportVars, fileNo, url, outsideBuild>>

\* A running job may also be too old (45 minutes) to be taken over.
SubmitCsvUpsertJob ==
    /\ pc = "decide"
    /\ ~AlreadyBuilt
    /\ jobs' = Append(jobs, [file |-> FileName, url |-> url, rows |-> Sha,
                             status |-> "RUNNING"])
    /\ job' = Len(jobs) + 1
    /\ pc' = "record"
    /\ UNCHANGED <<inboxVars, flagVars, reg, mirrorVars, recordVars, graph,
                   force, snap, pageVars, exportVars, fileNo, url>>

RecordBuildJob ==
    /\ pc = "record"
    /\ buildJobs' = Append(buildJobs, [file |-> FileName, sha |-> Sha, status |-> "INIT"])
    /\ pc' = "wait"
    /\ UNCHANGED <<inboxVars, flagVars, reg, mirrorVars, exportRuns, uploads,
                   openspgVars, force, snap, pageVars, exportVars, fileVars>>

Finished(result) == result = "FINISH"

\* waitForJob returns; updateBuildJobStatus; a failed job fails the build.
JobEnds ==
    /\ pc = "wait"
    /\ jobs[job].status # "RUNNING"
    /\ buildJobs' = [buildJobs EXCEPT ![Len(buildJobs)].status = jobs[job].status]
    /\ IF Finished(jobs[job].status)
       THEN NextFile /\ UNCHANGED <<force, snap, pageVars, exportVars>>
       ELSE ForgetBuild
    /\ UNCHANGED <<inboxVars, flagVars, reg, mirrorVars, exportRuns, uploads, openspgVars>>

\* waitForJob gives up after 120 minutes; the job goes on.
JobTimesOut ==
    /\ "gives_up" \in Faults
    /\ pc = "wait"
    /\ jobs[job].status = "RUNNING"
    /\ ForgetBuild
    /\ UNCHANGED outsideBuild

LoadFiles ==
    \/ SkipEmptyFile \/ UploadFromCache \/ UploadFile
    \/ SkipFinished \/ ReuseJob \/ SubmitCsvUpsertJob
    \/ RecordBuildJob \/ JobEnds \/ JobTimesOut

-----------------------------------------------------------------------------
(***************************************************************************)
(* After the files: confirm the tombstones, withdraw what precedence       *)
(* dropped, settle the dirty flag.                                         *)
(***************************************************************************)

\* All pending ids carry this run: syncGraphIds restamps the older ones.
ConfirmTombstones ==
    /\ pc = "confirm"
    /\ reg' = [id \in Ids |-> IF reg[id] = "pending" THEN "confirmed" ELSE reg[id]]
    /\ pc' = "settle"
    /\ UNCHANGED <<inboxVars, flagVars, mirrorVars, recordVars, openspgVars,
                   force, snap, pageVars, exportVars, fileVars>>

\* One UPDATE per superseded draft, without markDirty.
WithdrawSupersededDraft(d) ==
    /\ pc = "settle"
    /\ d \in superseded
    /\ superseded' = superseded \ {d}
    /\ status' = IF status[d] = "promoted"
                 THEN [status EXCEPT ![d] = "withdrawn"] ELSE status
    /\ UNCHANGED <<promotedAt, supersedeDue, flagVars, reg, mirrorVars, recordVars,
                   openspgVars, pc, force, snap, pageVars, kept, rows, todo, fileVars>>

\* A fault: the flag is cleared whatever happened during the build.
NothingEverChanged == 0

ChangedDuringBuild == dirtyVersion - snap

SettleDirtyAfterBuild ==
    /\ pc = "settle"
    /\ superseded = {}
    /\ builtVersion' = snap
    /\ dirty' = IF ChangedDuringBuild = 0 THEN 0 ELSE dirty
    /\ ForgetBuild
    /\ UNCHANGED <<dirtyVersion, inboxVars, reg, mirrorVars, recordVars, openspgVars>>

Settle ==
    \/ ConfirmTombstones
    \/ (\E d \in Drafts : WithdrawSupersededDraft(d))
    \/ SettleDirtyAfterBuild

\* The process is killed, cancelled, or a call throws: an export run stays
\* `running` when the process dies, and is closed when an exception passes.
ClosesRun ==
    /\ pc \in {"count", "page", "rows", "mirror", "edges"}
    /\ CloseRun("error")

AbortBuild ==
    /\ "dies" \in Faults
    /\ pc # "idle"
    /\ ForgetBuild
    /\ ClosesRun \/ UNCHANGED exportRuns
    /\ UNCHANGED <<inboxVars, flagVars, reg, mirrorVars, uploads, buildJobs, openspgVars>>

-----------------------------------------------------------------------------
(***************************************************************************)
(* OpenSPG, and the operator's purge of dead nodes.                        *)
(***************************************************************************)
outsideOpenspg == <<inboxVars, flagVars, reg, mirrorVars, recordVars,
                    pc, force, snap, pageVars, exportVars, fileVars>>

MayRun(j) ==
    /\ jobs[j].status = "RUNNING"
    /\ "reorders" \in Faults \/ \A i \in 1..(j - 1) : jobs[i].status # "RUNNING"

\* UPSERT: the rows of done overwrite their nodes, the others stay.
Upsert(j, done) ==
    graph' = [id \in Ids |-> IF id \in done THEN jobs[j].rows[id] ELSE graph[id]]

RowsOf(j) == {id \in Ids : jobs[j].rows[id] # Absent}

BuilderFinishes(j) ==
    /\ MayRun(j)
    /\ \/ Upsert(j, RowsOf(j))
       \/ /\ "loses_tombstones" \in Faults
          /\ Upsert(j, {id \in RowsOf(j) : jobs[j].rows[id] # Tombstone})
    /\ jobs' = [jobs EXCEPT ![j].status = "FINISH"]
    /\ UNCHANGED outsideOpenspg

\* A job that fails may have loaded any part of its rows.
BuilderFails(j) ==
    /\ "fails" \in Faults
    /\ MayRun(j)
    /\ \E done \in SUBSET RowsOf(j) : Upsert(j, done)
    /\ jobs' = [jobs EXCEPT ![j].status = "ERROR"]
    /\ UNCHANGED outsideOpenspg

\* purge_graph_nodes.sh deletes the nodes of ids that are not live.
PurgeNodes ==
    /\ "purges" \in Faults
    /\ \E id \in Ids : reg[id] \in {"pending", "confirmed"} /\ graph[id] # Absent
    /\ graph' = [id \in Ids |-> IF reg[id] \in {"pending", "confirmed"}
                                THEN Absent ELSE graph[id]]
    /\ UNCHANGED <<jobs, outsideOpenspg>>

OpenSpg ==
    \/ \E j \in DOMAIN jobs : BuilderFinishes(j) \/ BuilderFails(j)
    \/ PurgeNodes

-----------------------------------------------------------------------------
BuildStep == Export \/ LoadFiles \/ Settle

Next ==
    \/ Inbox
    \/ (\E f \in ForceChoices : StartBuild(f))
    \/ BuildStep
    \/ AbortBuild
    \/ OpenSpg

Spec == Init /\ [][Next]_vars

(***************************************************************************)
(* The build process runs on its own once started, and waitForJob ends by  *)
(* its timeout: its steps are weakly fair.  Nothing is assumed of the      *)
(* people, of OpenSPG or of crashes.                                       *)
(***************************************************************************)
FairSpec == Spec /\ WF_vars(BuildStep)

-----------------------------------------------------------------------------
(***************************************************************************)
(* Properties.                                                             *)
(***************************************************************************)
Paging   == {"count", "page", "rows"}
Loading  == {"file", "decide", "record", "wait"}
Exported == Loading \cup {"confirm", "settle"}

JobStatus == {"RUNNING", "FINISH", "ERROR"}

InboxType ==
    /\ status \in [Drafts -> {"absent", "pending", "promoted", "rejected", "withdrawn"}]
    /\ promotedAt \in [Drafts -> Nat]
    /\ supersedeDue \in SUBSET {d \in Drafts : SupersedesOf[d] # NoDraft}

FlagType == dirty \in {0, 1} /\ dirtyVersion \in Nat /\ builtVersion \in Nat

StoreType ==
    /\ reg \in [Ids -> {"none", "live", "pending", "confirmed"}]
    /\ mirror \subseteq Docs /\ edges \subseteq Docs
    /\ exportRuns \in Seq({"running", "success", "error"})
    /\ uploads \subseteq [file : Files, sha : [Ids -> Row], url : Nat]
    /\ buildJobs \in Seq([file : Files, sha : [Ids -> Row], status : {"INIT"} \cup JobStatus])

OpenspgType ==
    /\ jobs \in Seq([file : Files, url : Nat, rows : [Ids -> Row], status : JobStatus])
    /\ graph \in [Ids -> Row]

PagesType ==
    /\ total \in Nat /\ offset \in Nat /\ outLen \in Nat
    /\ fetched \subseteq Drafts /\ twice \subseteq fetched

ExportType ==
    /\ superseded \subseteq Drafts /\ kept \subseteq Drafts
    /\ rows \in [Ids -> Row] /\ todo \subseteq Docs

\* The file loop has a file, and a job when it waits for one.
PlaceType ==
    /\ pc \in {"idle", "snapshot", "mirror", "edges"} \cup Paging \cup Exported
    /\ snap \in Nat
    /\ fileNo \in 0..3 /\ url \in Nat /\ job \in Nat
    /\ pc \in Loading => fileNo \in 1..3
    /\ pc \in {"record", "wait"} => job \in DOMAIN jobs

\* Every variable keeps its type, and the build's place fits its memory.
TypeOK ==
    /\ InboxType /\ FlagType /\ StoreType /\ OpenspgType
    /\ PagesType /\ ExportType /\ PlaceType /\ force \in BOOLEAN

(***************************************************************************)
(* A clean base is what its readers see: with dirty = 0 the full-text      *)
(* mirror and the edges hold exactly the documents of the promoted drafts, *)
(* whatever was promoted or withdrawn while builds ran, failed or died     *)
(* (kb-dirty.ts: settleDirtyAfterBuild).                                   *)
(***************************************************************************)
CleanMeansMirrorMatches ==
    dirty = 0 => mirror = DocsOf(Promoted) /\ edges = DocsOf(Promoted)

\* What a search of the graph returns: withdrawnIds drops the ids not live.
Readable(id) ==
    graph[id] \notin {Absent, Tombstone} /\ reg[id] \notin {"pending", "confirmed"}

(***************************************************************************)
(* The same for the graph: with dirty = 0 every node of the target state   *)
(* has the content the promoted drafts give it, and nothing else can be    *)
(* read (build-kb.ts:240, quality-gate.ts:460).                            *)
(***************************************************************************)
CleanMeansGraphMatches ==
    dirty = 0 =>
        \A id \in Ids :
            IF id \in GraphIdsOf(Promoted)
            THEN graph[id] = TargetRows(Promoted)[id] /\ reg[id] = "live"
            ELSE ~Readable(id)

(***************************************************************************)
(* Nothing reaches the graph behind the registry's back: the id of every   *)
(* node, and of every row of a job, is in graph_ids, or no later tombstone *)
(* would find it (graph-ids.ts: syncGraphIds before the files).            *)
(***************************************************************************)
NothingUntracked ==
    \A id \in Ids :
        (graph[id] # Absent \/ \E j \in DOMAIN jobs : id \in RowsOf(j))
            => reg[id] # "none"

\* The finished jobs that had row v for id.
LoadedBy(id, v) ==
    {j \in DOMAIN jobs : jobs[j].status = "FINISH" /\ jobs[j].rows[id] = v}

\* Another row was sent to the node of id after job j had loaded its own.
Overwritten(id, j) ==
    \E k \in DOMAIN jobs :
        /\ k > j \/ ("reorders" \in Faults /\ k # j)
        /\ jobs[k].status # "RUNNING"
        /\ jobs[k].rows[id] \notin {Absent, jobs[j].rows[id]}

(***************************************************************************)
(* What a clean base is worth when builds skip what has been built once:   *)
(* every row of the promoted drafts was loaded by a job that finished, and *)
(* its node still holds it, but for two cases: a job since sent the node   *)
(* another row, or the operator purged it while it was out of the target.  *)
(* Nothing else can be read, even if tombstones were lost (build-kb.ts:146 *)
(* and :236-240, quality-gate.ts:460).                                     *)
(***************************************************************************)
CleanUnlessReloaded ==
    dirty = 0 =>
        \A id \in Ids :
            IF id \in GraphIdsOf(Promoted)
            THEN LET v == TargetRows(Promoted)[id]
                 IN  /\ reg[id] = "live"
                     /\ LoadedBy(id, v) # {}
                     /\ \/ graph[id] \in {v, Absent}
                        \/ \A j \in LoadedBy(id, v) : Overwritten(id, j)
            ELSE ~Readable(id)

(***************************************************************************)
(* A forced build brings the graph to its target, whatever earlier builds  *)
(* skipped, left running or died over and whatever was purged: when it     *)
(* comes to settle, every node of the target holds its row, and nothing    *)
(* else can be read (build-kb.ts:132-133: force is for a graph that was    *)
(* restored).  Only a job that OpenSPG ran out of order can spoil it.      *)
(***************************************************************************)
ForcedBuildLoads ==
    pc = "settle" /\ force =>
        \A id \in Ids :
            IF id \in GraphIdsOf(kept)
            THEN LET v == TargetRows(kept)[id]
                 IN  /\ reg[id] = "live"
                     /\ \/ graph[id] = v
                        \/ /\ "reorders" \in Faults
                           /\ \E j \in LoadedBy(id, v) : Overwritten(id, j)
            ELSE ~Readable(id)

(***************************************************************************)
(* A confirmed tombstone was delivered: a job that finished held it, also  *)
(* when the build that confirms it skipped its file or took a running job  *)
(* over.  That is all it means (graph-ids.ts:109-112): the node may still  *)
(* have its content.                                                       *)
(***************************************************************************)
ConfirmedWasDelivered ==
    \A id \in Ids : reg[id] = "confirmed" => LoadedBy(id, Tombstone) # {}

\* d lost to another draft that was promoted: by name, or newer of its source.
Replaces(e, d) ==
    /\ e # d
    /\ promotedAt[e] > 0
    /\ \/ SupersedesOf[e] = d
       \/ RefOf[d] # NoRef /\ RefOf[e] = RefOf[d] /\ Newer(e, d, promotedAt)

(***************************************************************************)
(* A build withdraws a draft only in favour of another one, that replaces  *)
(* it explicitly or as a newer version of its source (drafts.ts:391-393,   *)
(* withdrawSupersededDraft).                                               *)
(***************************************************************************)
WithdrawnByBuildWasReplaced ==
    [][\A d \in Drafts :
          WithdrawSupersededDraft(d) /\ status'[d] # status[d]
              => \E e \in Drafts : Replaces(e, d)]_vars

(***************************************************************************)
(* A build never hangs: the loop that pages through the promoted drafts    *)
(* ends however the table changes under it, and so do the files            *)
(* (exporter.ts: allPromotedDrafts, builder.ts: waitForJob).               *)
(***************************************************************************)
BuildEnds == pc # "idle" ~> pc = "idle"

=============================================================================
