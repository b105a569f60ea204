---------------------------- MODULE Provisioning ----------------------------
(***************************************************************************)
(* A knowledge base and its OpenSPG project: the registry (packages/       *)
(* shared: db/repos/kbRegistry.ts; panel-api: services/kb.ts,              *)
(* routes/kbs.ts), the jobs create_kb and schema_sync and the client they  *)
(* call OpenSPG with (packages/shared: openspg/client.ts, projects.ts).    *)
(*                                                                         *)
(* The jobs run inside the panel: a restart kills them, and nothing starts *)
(* them again.  One namespace is modelled.  The server executes a request  *)
(* or not, and its answer arrives or not; the client gives up after 30 s,  *)
(* and a request it gave up may still be executed.  A schema is the number *)
(* of the template that the running release renders.                       *)
(***************************************************************************)
EXTENDS Integers, Sequences

CONSTANTS
    Models,        \* embedding models
    NoModel,       \* vector_model_id is empty
    MaxProjects,   \* bound: projects the server creates
    MaxReleases    \* bound: releases of the template, one with each restart

ASSUME ProvisioningAssumption ==
    NoModel \notin Models /\ MaxProjects \in Nat /\ MaxReleases \in Nat \ {0}

VARIABLES
    kb,        \* the row of kb_registry
    wanted,    \* the model in the settings 'llm.embeddings'
    projects,  \* the projects of the namespace at the server, in order of id
    late,      \* a POST /v1/projects nobody waits for, still to be executed
    release,   \* the template of the running panel
    task,       \* the job that runs
    deserted   \* history: a job died with the panel

provisioningVars == <<kb, wanted, projects, late, release, task, deserted>>

NoProject == 0
NoKb == [status |-> "absent", project |-> NoProject, model |-> NoModel, schema |-> 0]
NoJob == [pc |-> "none", project |-> NoProject, model |-> NoModel, schema |-> 0]

ProvisioningInit ==
    /\ kb = NoKb
    /\ wanted \in Models
    /\ projects = <<>> /\ late = NoModel
    /\ release = 1
    /\ task = NoJob
    /\ deserted = FALSE

\* TRANSITIONS
MayBecome ==
    [absent       |-> {},
     draft        |-> {"provisioning", "archived"},
     provisioning |-> {"active", "error"},
     active       |-> {"error", "archived"},
     error        |-> {"provisioning", "archived"},
     archived     |-> {}]

Exists(p) == p \in DOMAIN projects /\ projects[p].there

-----------------------------------------------------------------------------
(***************************************************************************)
(* The routes.  The first step of a job, up to its first await, runs in    *)
(* the handler that starts it.                                             *)
(***************************************************************************)

\* POST /kbs: a namespace that is taken is refused.  create_kb is started
\* here and nowhere else.
PostKb(createProject) ==
    /\ kb.status = "absent" /\ task = NoJob
    /\ IF createProject
       THEN kb' = [kb EXCEPT !.status = "provisioning"] /\ task' = [NoJob EXCEPT !.pc = "find"]
       ELSE kb' = [kb EXCEPT !.status = "draft"] /\ UNCHANGED task
    /\ UNCHANGED <<wanted, projects, late, release, deserted>>

\* PATCH /kbs/:ns {status}, or DELETE: transitionKb
PatchKb(to) ==
    /\ to \in MayBecome[kb.status]
    /\ kb' = [kb EXCEPT !.status = to]
    /\ UNCHANGED <<wanted, projects, late, release, task, deserted>>

\* PUT /settings
ChooseModel(m) ==
    /\ m # wanted /\ wanted' = m
    /\ UNCHANGED <<kb, projects, late, release, task, deserted>>

\* POST /kbs/:ns/schema-sync: planSchemaSync, then the job up to the commit.
PostSchemaSync ==
    /\ task = NoJob
    /\ kb.status = "active" /\ kb.project # NoProject
    /\ task' = [NoJob EXCEPT !.pc = "sync", !.project = kb.project, !.schema = release]
    /\ UNCHANGED <<kb, wanted, projects, late, release, deserted>>

-----------------------------------------------------------------------------
(***************************************************************************)
(* create_kb.                                                              *)
(***************************************************************************)

JobGoes(to) == task' = to /\ UNCHANGED <<kb, wanted, late, release, deserted>>

\* A fault: the error is not written to the registry.
LeavesStatus == UNCHANGED kb

\* The catch of runCreateKbJob: the status is taken back, if it still is ours.
MarksError == kb' = IF kb.status = "provisioning" THEN [kb EXCEPT !.status = "error"] ELSE kb

\* The job throws, at a call or at a guard.
JobThrows ==
    /\ task' = NoJob
    /\ IF task.pc \in {"sync", "record"} THEN UNCHANGED kb ELSE MarksError
    /\ UNCHANGED <<wanted, late, release, deserted>>

\* findProjectByNamespace, then the model: the project's, or the one in the
\* settings, and the guards of its immutability.
FindProject ==
    /\ task.pc = "find"
    /\ LET found == {p \in DOMAIN projects : projects[p].there}
           first == CHOOSE p \in found : \A q \in found : p <= q
           model == IF found = {} THEN wanted ELSE projects[first].model
       IN  /\ model = wanted /\ kb.model \in {NoModel, model}
           /\ JobGoes([task EXCEPT !.pc = IF found = {} THEN "create" ELSE "commit",
                                  !.model = model,
                                  !.project = IF found = {} THEN NoProject ELSE first])
    /\ UNCHANGED projects

NewProject(m) == Append(projects, [model |-> m, schema |-> 0, there |-> TRUE])

\* A fault: a POST whose answer was lost is sent again.
AfterLostAnswer == JobGoes(task)

\* The client gives a POST up: doFetch repeats only what was never received.
GivesUp == JobThrows

\* createProject
CreateProject ==
    /\ task.pc = "create" /\ Len(projects) < MaxProjects
    /\ \/ /\ projects' = NewProject(task.model)
          /\ JobGoes([task EXCEPT !.pc = "commit", !.project = Len(projects) + 1])
       \/ /\ projects' = NewProject(task.model)
          /\ GivesUp                \* executed, and the answer is lost

\* The request is given up and executed afterwards.
CreateIsLate ==
    /\ task.pc = "create"
    /\ late' = task.model /\ UNCHANGED projects
    /\ task' = NoJob /\ MarksError
    /\ UNCHANGED <<wanted, release, deserted>>

LateCreate ==
    /\ late # NoModel /\ Len(projects) < MaxProjects
    /\ projects' = NewProject(late) /\ late' = NoModel
    /\ UNCHANGED <<kb, wanted, release, task, deserted>>

\* A fault: the commit is skipped where the project is known already.
CommitSkipped == projects

Committed == [projects EXCEPT ![task.project].schema = IF @ < release THEN release ELSE @]

\* commitSchema: an upsert
CommitSchema ==
    /\ task.pc = "commit" /\ Exists(task.project)
    /\ projects' = Committed
    /\ \/ JobGoes([task EXCEPT !.pc = "finish", !.schema = release])
       \/ JobThrows              \* the answer, or the graph that is asked after, is lost

\* A fault: the registry is written whatever became of its row meanwhile.
AnyStatus == TRUE

StillProvisioning == kb.status = "provisioning"

\* finishProvisioning: one transaction
Finish ==
    /\ task.pc = "finish"
    /\ StillProvisioning
    /\ kb' = [status |-> "active", project |-> task.project, model |-> task.model, schema |-> task.schema]
    /\ task' = NoJob
    /\ UNCHANGED <<wanted, projects, late, release, deserted>>

\* A call fails, a guard refuses, or the row is no longer ours.
CreateFails ==
    /\ \/ task.pc \in {"find", "create", "commit"}
       \/ task.pc = "finish" /\ ~StillProvisioning
    /\ JobThrows
    /\ UNCHANGED projects

-----------------------------------------------------------------------------
(***************************************************************************)
(* schema_sync.                                                            *)
(***************************************************************************)
SyncCommit ==
    /\ task.pc = "sync" /\ Exists(task.project)
    /\ projects' = Committed
    /\ (JobGoes([task EXCEPT !.pc = "record"]) \/ JobThrows)

\* recordSchemaVersion, if the template changed
SyncRecord ==
    /\ task.pc = "record"
    /\ kb' = [kb EXCEPT !.schema = task.schema]
    /\ task' = NoJob
    /\ UNCHANGED <<wanted, projects, late, release, deserted>>

SyncFails == task.pc = "sync" /\ JobThrows /\ UNCHANGED projects

-----------------------------------------------------------------------------
(***************************************************************************)
(* What happens to both sides.                                             *)
(***************************************************************************)

\* The panel restarts, perhaps with a newer template.
PanelRestarts ==
    /\ \E r \in release..MaxReleases : release' = r
    /\ (task # NoJob \/ release' # release)
    /\ task' = NoJob
    /\ deserted' = (deserted \/ task # NoJob)
    /\ UNCHANGED <<kb, wanted, projects, late>>

\* The server loses a project: the scenario of restore-single-kb.md, C.
LoseProject(p) ==
    /\ Exists(p) /\ task = NoJob
    /\ projects' = [projects EXCEPT ![p].there = FALSE]
    /\ UNCHANGED <<kb, wanted, late, release, task, deserted>>

CreateStep == FindProject \/ CreateProject \/ CreateIsLate \/ CommitSchema \/ Finish \/ CreateFails
SyncStep   == SyncCommit \/ SyncRecord \/ SyncFails

ProvisioningNext ==
    \/ \E c \in BOOLEAN : PostKb(c)
    \/ \E to \in DOMAIN MayBecome : PatchKb(to)
    \/ \E m \in Models : ChooseModel(m)
    \/ PostSchemaSync \/ CreateStep \/ SyncStep \/ LateCreate \/ PanelRestarts
    \/ \E p \in DOMAIN projects : LoseProject(p)

\* Every call of the client ends within its timeout.
ProvisioningFairness ==
    WF_provisioningVars(CreateStep) /\ WF_provisioningVars(SyncStep)

\* An admin who wants the base repeats the POST until it is accepted.
AdminInsists == WF_provisioningVars(PostKb(TRUE))

ProvisioningSpec ==
    /\ ProvisioningInit /\ [][ProvisioningNext]_provisioningVars
    /\ ProvisioningFairness /\ AdminInsists

-----------------------------------------------------------------------------
(***************************************************************************)
(* Properties.                                                             *)
(***************************************************************************)

\* Every variable keeps its type.
ProvisioningTypeOK ==
    /\ kb.status \in DOMAIN MayBecome
    /\ kb.project \in {NoProject} \cup DOMAIN projects
    /\ kb.model \in Models \cup {NoModel} /\ kb.schema \in 0..release
    /\ wanted \in Models /\ late \in Models \cup {NoModel}
    /\ task.pc \in {"none", "find", "create", "commit", "finish", "sync", "record"}
    /\ task.project \in {NoProject} \cup DOMAIN projects
    /\ Len(projects) <= MaxProjects

(***************************************************************************)
(* The namespace never has two projects at the server ("bez duplikatu",    *)
(* create-kb.ts): neither a repeated call of the client nor a POST that is *)
(* executed after the client gave it up makes a second one.                *)
(***************************************************************************)
OneProjectPerBase == Len(projects) <= 1

(***************************************************************************)
(* What the registry says of the project is so at the server: it was       *)
(* created with the frozen model, and it holds the schema of the recorded  *)
(* version, whichever call of whichever job was lost or cut off.           *)
(***************************************************************************)
RecordedIsSo ==
    kb.project # NoProject =>
        /\ projects[kb.project].model = kb.model
        /\ projects[kb.project].schema >= kb.schema

(***************************************************************************)
(* A base somebody set aside stays aside: a job that ends after the admin  *)
(* changed the status does not bring the base back to active, and the      *)
(* frozen model never changes.                                             *)
(***************************************************************************)
JobsRespectTheRegistry ==
    [][/\ kb.status \in {"archived", "error"} /\ task.pc # "none" => kb'.status # "active"
       /\ kb.model # NoModel => kb'.model = kb.model]_provisioningVars

(***************************************************************************)
(* A provisioning that started ends, as active or as error or as whatever  *)
(* the admin made of it: it is not left "provisioning" but by the death of *)
(* the panel.                                                              *)
(***************************************************************************)
ProvisioningEnds ==
    (task.pc = "find") ~>
        (deserted \/ (task = NoJob /\ kb.status # "provisioning"))

(***************************************************************************)
(* "create_kb jest idempotentne: panel → utwórz KB o TYM SAMYM namespace — *)
(* provisioning odnajdzie/odtworzy projekt" (restore-single-kb.md, C):     *)
(* a base whose project is lost gets a project again, if the admin keeps   *)
(* asking for it.                                                          *)
(***************************************************************************)
LostProjectComesBack ==
    (kb.status = "active" /\ kb.project # NoProject /\ ~Exists(kb.project))
        ~> (kb.status = "archived" \/ Exists(kb.project))

=============================================================================
