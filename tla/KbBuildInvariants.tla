-------------------------- MODULE KbBuildInvariants --------------------------
(***************************************************************************)
(* What a build knows at each of its places: the inductive invariants      *)
(* behind CleanMeansMirrorMatches, NothingUntracked,                       *)
(* WithdrawnByBuildWasReplaced, ConfirmedWasDelivered, ForcedBuildLoads    *)
(* and CleanUnlessReloaded.  TLC checks MirrorInv on a run's instance; the *)
(* proofs of the build rest on all of them.                                *)
(***************************************************************************)
EXTENDS KbBuild

\* Nothing was promoted or withdrawn by hand since the build's snapshot.
Unchanged == dirtyVersion = snap

Started == pc \notin {"idle", "snapshot"}
Planned == pc \in {"mirror", "edges"} \cup Exported

\* Before the snapshot nothing has been fetched.
VersionPart ==
    /\ snap <= dirtyVersion
    /\ Started /\ dirty = 0 => Unchanged
    /\ ~Started => fetched = {} /\ twice = {} /\ offset = 0 /\ outLen = 0

\* S is a prefix of P in the order of listDrafts, newest first.
NewestOf(S, P) ==
    /\ S \subseteq P
    /\ \A x \in S, y \in P \ S : x > y

\* The pages read so far are the newest promoted drafts, each read once.
PagesPart ==
    /\ Unchanged /\ pc \in {"count", "page"} =>
        /\ NewestOf(fetched, Promoted)
        /\ Cardinality(fetched) = AtMost(offset, Cardinality(Promoted))
        /\ outLen = Cardinality(fetched)
        /\ twice = {}
    /\ Unchanged /\ pc = "page" => total = Cardinality(Promoted)
    /\ Unchanged /\ pc = "rows" => fetched = Promoted /\ twice = {}

\* The target and what precedence dropped share out the promoted drafts.
PlanPart ==
    Unchanged /\ Planned =>
        /\ kept \cup superseded = Promoted
        /\ kept \cap superseded = {}
        /\ Superseded(kept, {}, promotedAt) = {}

\* The mirror and the edges, as far as the export has written them.
MirrorPart ==
    /\ pc = "mirror" => DocsOf(kept) \ todo \subseteq mirror /\ todo \subseteq DocsOf(kept)
    /\ pc \in {"edges"} \cup Exported => mirror = DocsOf(kept)
    /\ pc \in Exported => edges = DocsOf(kept)

\* A clean base has nothing left for precedence to drop.
CleanPart ==
    dirty = 0 =>
        /\ mirror = DocsOf(Promoted)
        /\ edges = DocsOf(Promoted)
        /\ Superseded(Promoted, {}, promotedAt) = {}
        /\ superseded = {}

(***************************************************************************)
(* The inductive invariant of CleanMeansMirrorMatches.                     *)
(***************************************************************************)
MirrorInv == TypeOK /\ VersionPart /\ PagesPart /\ PlanPart /\ MirrorPart /\ CleanPart

(***************************************************************************)
(* The inductive invariant of NothingUntracked: the registry is written    *)
(* before the rows, the rows before the jobs, the jobs before the graph.   *)
(***************************************************************************)
TrackedInv ==
    /\ NothingUntracked
    /\ \A id \in Ids : rows[id] # Absent => reg[id] # "none"

\* The one page is still to be read, or has been.
OnePage ==
    /\ twice = {}
    /\ offset = 0 => fetched = {}
    /\ offset # 0 => offset = Cardinality(Drafts)

(***************************************************************************)
(* The inductive invariant of WithdrawnByBuildWasReplaced, when the drafts *)
(* fit in one page: what is fetched was promoted, each draft once, and a   *)
(* draft that precedence dropped has its replacement.                      *)
(***************************************************************************)
ReplacedInv ==
    /\ TypeOK
    /\ OnePage
    /\ \A d \in Drafts : promotedAt[d] > 0 <=> status[d] \in {"promoted", "withdrawn"}
    /\ \A d \in fetched \cup superseded : promotedAt[d] > 0
    /\ \A d \in superseded : \E e \in Drafts : Replaces(e, d)

-----------------------------------------------------------------------------
(***************************************************************************)
(* The graph.  A job keeps its file, URL, rows and end for good, so what   *)
(* has been loaded, and in which order, can be read off `jobs`.            *)
(***************************************************************************)
Gone == {Absent, Tombstone}

Ended(j) == jobs[j].status # "RUNNING"

\* What jobs that have not ended may still write into a node.
Coming(id) == {jobs[j].rows[id] : j \in {k \in DOMAIN jobs : ~Ended(k)}} \ {Absent}

\* The build is through with the file: waited for, skipped, or empty.
FileDone(file) ==
    \/ pc \in {"confirm", "settle"}
    \/ pc \in Loading /\ \A i \in fileNo..3 : EXPORT_FILE_ORDER[i] # file

\* The upload of the file in hand is known.
InHand == pc \in {"decide", "record", "wait"}

\* The URL of this run may have been given to the file.
UrlUsed(file) ==
    \/ pc \in {"idle", "snapshot"}
    \/ FileDone(file)
    \/ InHand /\ file = FileName

(***************************************************************************)
(* The URL of an upload says what is in it: a run uploads a file once, and *)
(* records it with its content.  A job has the rows of its upload.         *)
(***************************************************************************)
UrlPart ==
    /\ \A u \in uploads : u.url <= Run /\ (u.url = Run => UrlUsed(u.file))
    /\ \A j \in DOMAIN jobs : jobs[j].url <= Run /\ (jobs[j].url = Run => UrlUsed(jobs[j].file))
    /\ \A u, v \in uploads : u.file = v.file /\ u.url = v.url => u.sha = v.sha
    /\ \A u \in uploads, j \in DOMAIN jobs :
          jobs[j].file = u.file /\ jobs[j].url = u.url => jobs[j].rows = u.sha
    /\ InHand => [file |-> FileName, sha |-> Sha, url |-> url] \in uploads
    /\ force /\ pc = "decide" => Reusable = {}

\* A row is sent for the ids the registry says so, and the target is in it.
RowsPart ==
    Planned => \A id \in Ids :
        /\ reg[id] = "live" <=> TargetRows(kept)[id] # Absent
        /\ rows[id] = TargetRows(kept)[id] \/ (reg[id] # "live" /\ rows[id] = Tombstone)
        /\ rows[id] = Tombstone => reg[id] = IF pc = "settle" THEN "confirmed" ELSE "pending"
        /\ rows[id] = Absent => reg[id] \in {"none", "confirmed"}

\* The job waited for has the rows of the file, also when it was taken over.
JobPart ==
    /\ pc \in {"record", "wait"} => jobs[job].rows = Sha /\ (force => job = Len(jobs))
    /\ pc = "wait" => buildJobs # <<>> /\ buildJobs[Len(buildJobs)].sha = Sha

\* What is recorded as finished was finished by a job with these rows.
RecordPart ==
    \A i \in DOMAIN buildJobs : buildJobs[i].status = "FINISH" =>
        \E j \in DOMAIN jobs : jobs[j].status = "FINISH" /\ jobs[j].rows = buildJobs[i].sha

\* The rows of the files done have been loaded by a job, now or earlier.
LoadedPart ==
    \A id \in Ids : FileDone(id[1]) /\ rows[id] # Absent => LoadedBy(id, rows[id]) # {}

\* OpenSPG in order: the jobs that have ended are the first ones.
OrderPart ==
    "reorders" \notin Faults =>
        \A k \in DOMAIN jobs : Ended(k) => \A i \in 1..(k - 1) : Ended(i)

\* The content a finished job loaded stays until another row or a purge comes.
WrittenPart ==
    \A j \in DOMAIN jobs, id \in Ids :
        jobs[j].status = "FINISH" /\ jobs[j].rows[id] \notin Gone
            => graph[id] \in {jobs[j].rows[id], Absent} \/ Overwritten(id, j)

\* Row v is in the node, or OpenSPG ran another job after the one that loaded it.
Stands(id, v) ==
    \/ graph[id] = v
    \/ /\ "reorders" \in Faults
       /\ \E j \in LoadedBy(id, v) : Overwritten(id, j)

\* A forced build loads its files itself; in order, its job is the last one.
ForcedPart ==
    force => \A id \in Ids :
        /\ pc \in {"record", "wait"} /\ jobs[job].status = "FINISH" /\ Sha[id] \notin Gone
              => Stands(id, Sha[id])
        /\ FileDone(id[1]) /\ rows[id] \notin Gone
              => Stands(id, rows[id]) /\ ("reorders" \notin Faults => Coming(id) = {})

\* The target of a clean base was loaded, and it is all the registry calls live.
CleanLoadedPart ==
    dirty = 0 => \A id \in Ids :
        IF id \in GraphIdsOf(Promoted)
        THEN reg[id] = "live" /\ LoadedBy(id, TargetRows(Promoted)[id]) # {}
        ELSE reg[id] # "live"

LoadInv ==
    /\ UrlPart /\ RowsPart /\ JobPart /\ RecordPart /\ LoadedPart
    /\ ConfirmedWasDelivered /\ ForcedPart

HistoryInv == OrderPart /\ WrittenPart

(***************************************************************************)
(* The inductive invariant of ConfirmedWasDelivered, ForcedBuildLoads and, *)
(* with MirrorInv, of CleanUnlessReloaded: the registry and the rows of    *)
(* the build agree, an upload is known by its URL, a file that is done has *)
(* been loaded by a job with its rows, and the content a job loaded stays  *)
(* until another row comes.  It holds whatever OpenSPG does.               *)
(***************************************************************************)
GraphInv == LoadInv /\ HistoryInv /\ CleanLoadedPart

=============================================================================
