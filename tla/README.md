# PomagierKB in TLA+

A model of the parts of PomagierKB whose correctness depends on order: what is
concurrent, what may die in the middle, what comes late, what fills up. The modules
were written from the code of the repository; `PROJECT.json` names, for every
definition, the lines it stands for.

Contents: [the system](#the-system), [the plan](#the-plan),
[modules and code](#modules-and-code), [runs](#runs), [fairness](#fairness),
[what is proved](#what-is-proved), [where the code disagrees with itself](#where-the-code-disagrees-with-itself),
[what is left out](#what-is-left-out).

## The system

Everything shares one SQLite database in WAL mode. `panel-api` (one Node process)
serves the panel and runs the intake worker; long actions run in detached child
processes or as jobs inside the panel; `mcp-server` answers agents; OpenSPG is an
outside service that loads CSV files into a graph; shell scripts under `deploy/` make
the snapshots.

| Component | State it keeps | Operations | Talks to | Module |
|---|---|---|---|---|
| Intake queue and worker (`services/intakes.ts`, `pipeline/intake-worker.ts`, `routes/content.ts`) | `intakes`, runs in memory | submit, retry, tick, sweep of stale rows, stages | creates drafts | `Intake` |
| Draft inbox (`repos/drafts.ts`, `services/drafts.ts`) | `drafts` | create (with `supersedes`), promote, reject, withdraw | marks the base dirty, closes gaps | `KbBuild`, `LearningGaps` |
| Text pipeline (`pipeline/chunker.ts`, `extract.ts`, `clean.ts`, `analyze.ts`) | none | cut a text into chunks | intake worker, build | `Chunker` |
| Build (`jobs/build-kb.ts`, `pipeline/exporter.ts`, `graph-ids.ts`, `kb-dirty.ts`) | `export_runs`, `upload_records`, `build_jobs`, `graph_ids`, `chunks_mirror`, `graph_edges`, the dirty flag | export, upload, submit or skip or take over a job, wait, confirm tombstones, withdraw superseded drafts, settle the flag | drafts, OpenSPG | `KbBuild`, `Precedence`, `ApplyPrecedence` |
| OpenSPG (external) | projects, schemas, builder jobs, graph | run a job, upsert its rows, create a project | — | in `KbBuild`, `Provisioning` |
| Actions runner (`services/actions-runner.ts`, `jobs/run-job.ts`, `jobs/kb-runner.ts`, `server.ts`) | `actions`, child processes | start, end, cancel, close event, orphan sweep | runs builds and provisioning | `Actions`, `ActionTable` |
| Circuit breaker (`llm/breaker.ts`) | `breakers` | admit, succeed, fail, reset | wraps every call of a model or of OpenSPG | `Breaker` |
| Registry and provisioning (`kbRegistry.ts`, `create-kb.ts`, `schema-sync.ts`) | `kb_registry`, OpenSPG projects | create, resume, sync, change status | actions runner, OpenSPG | `Provisioning` |
| Answers (`answer/*`) | answers in memory, under a versioned key | retrieve, answer, cache | mirror, graph, breaker | `AnswerCache` |
| Learning gaps (`learningGaps.ts`, `services/learning.ts`) | `learning_gaps` | record, merge, close, reopen, draft | answers, inbox | `LearningGaps` |
| MCP server: keys, profiles (`auth.ts`, `profiles.ts`, `server.ts`) | caches of keys and profiles | admit, show bases, forget | panel's routes | `McpAccess` |
| Rate limits (`rate-limit.ts`) | sliding windows per key, tool and address | check, evict | MCP server | `RateLimiter` |
| Accounts, sessions, API keys (`users.ts`, `sessions.ts`, `plugins/session.ts`, `routes/auth.ts`) | `users`, `sessions`, `mcp_keys`, refreshes in memory | sign in, refresh, admit, handle, disable, anonymize, rotate | identity provider | `Accounts` |
| Originals and retention (`services/retention.ts`) | files by hash, `intakes` | upload, fetch, purge | intake queue | `Retention` |
| Backup (`deploy/scripts/backup.sh`, `services/backup.ts`) | snapshot directories, lock, request marker | make, prune, request | everything, as files | `Backup` |
| Audit chain, quality gate, scheduler, web client, deployment | see [what is left out](#what-is-left-out) | | | — |

### What is hard here

* **The inbox moves while a build runs.** A build reads the promoted drafts in
  pages, writes the registry of ids, the mirror and three files, waits for three
  jobs, and only then settles a flag whose meaning is "nothing changed since I
  started".
* **OpenSPG only upserts**, executes late what its client gave up, and may lose a
  project. Removal is a tombstone row whose delivery must be remembered across
  crashes; the record of what was loaded is a table of ours.
* **Deadlines do not stop anything.** An intake past its deadline keeps running;
  a build that gives up waiting leaves its job running; a cancelled job of the panel
  goes on.
* **Processes die separately.** A child outlives the panel, or dies before it
  writes its end; the panel dies between two statements, or between a file and its row.
* **Answers come late.** A call admitted before the breaker opened still records; an
  answer computed before a rebuild is cached after it.
* **Several processes keep copies.** Roles are copied into sessions, keys and
  profiles into the MCP server, and the message that says "forget" may be lost.
* **Things are shared.** Intakes of one content share a file; questions share a gap;
  all callers share one map of windows that forgets when it is full.

### What makes each component correct

* Build: a clean base is what readers see in the mirror, and in the graph as far as
  nothing overwrote what was loaded; a forced build brings the graph to its target;
  nothing is in the graph that no later build could remove; a confirmed tombstone was
  delivered; a build withdraws only what it replaced; every build ends.
* Precedence: two loops with order-dependent bookkeeping compute a rule that does
  not depend on order. Chunker: chunks hold the document, within the limit, with fences,
  headings and characters whole.
* Intake: one run and one draft per intake; a drafted intake stays so; everything
  submitted settles.
* Actions: one worker per type and resource; a running row has an owner and ends; the
  table is what `ActionTable` says. Breaker: one probe; cooldowns that grow; never open
  for good.
* Provisioning: at most one project per base; what the registry says of it is so; every
  provisioning ends; a job does not bring back what an admin set aside.
* Answer cache: no answer older than what the graph and the mirror hold.
* Gaps: one open gap per question, and no question lost; a promoted draft resolves its
  gaps.
* Accounts: a disabled account is out, whatever was under way; one refresh per session;
  an administrator stays. MCP: changes in the panel hold after the term of the caches.
  Rate limits: no key over its allowance.
* Retention: no file taken from an intake that needs it, none left without a name.
  Backup: every month with a success keeps a complete snapshot.

## The plan

Written and checked, in this order:

1. `Precedence`, `ApplyPrecedence`: the rule and the loops.
2. `KbBuild`: inbox, build, OpenSPG and crashes. It extends `Precedence`, the
   abstract form of the loops, which is what the build's proofs use.
3. `Intake`: routes and worker.
4. `Actions`, and `ActionTable`, the abstract specification it implements; `Breaker`.
5. `Provisioning`, `AnswerCache`, `LearningGaps`, `Accounts`, `McpAccess`,
   `RateLimiter`, `Retention`, `Backup`, `Chunker`.

6. What the chunker's operators return for every text (`ChunkerProofs`).

Left, in this order:

7. `KnowledgeBase`, a set of readable documents that a build replaces by the promoted
   set, as an abstract specification of `KbBuild`; `CleanMeansMirrorMatches` is its
   core, the steps between two clean moments are what is missing.
8. The composition of `Provisioning` with `Actions` (its jobs are rows without pids)
   and of `KbBuild` with `AnswerCache`, which now has an abstract build of its own.

The runs of related questions share a configuration: `MCServices` and `MCPanel` choose
one of their parts at the start and check them one at a time, so that their states add
up and do not multiply.

## Modules and code

| Module | What it is |
|---|---|
| `Precedence` | `applyPrecedence` as sets: explicit victims, then older versions of a source |
| `ApplyPrecedence` | the same as the code's two passes over a list |
| `MCPrecedence` | every small list and relation; compares the two |
| `KbBuild`, `MCKbBuild` | drafts, registry, export, file loop, OpenSPG; the drafts TLC explores |
| `KbBuildInvariants` | what a build knows at each place, of the mirror and of the graph: the inductive invariants the proofs use (`build_mirror` checks `MirrorInv`) |
| `Intake`, `MCIntake` | the intake routes and worker |
| `ActionTable` | what the actions table promises, without processes |
| `Actions` | the table and its workers, children, signals and restarts; implements `ActionTable` |
| `Breaker` | the circuit breaker |
| `Provisioning` | a base, its jobs and an unreliable OpenSPG |
| `AnswerCache` | questions under way while bases are rebuilt |
| `LearningGaps` | gaps, their drafts, the panel's death between two transactions |
| `Accounts` | accounts, sessions, refreshes, requests admitted and handled later |
| `McpAccess` | keys, profiles, bases and the two caches of the MCP server |
| `RateLimiter` | sliding windows in a capped map |
| `Retention` | intakes that share originals, uploads, fetches, purges |
| `Backup` | snapshots, their lock, retention and requests |
| `Chunker` | the cutting of a text of shaped lines |
| `MCPanel`, `MCServices` | one part at a time: what must end; what must never happen |
| `DataLemmas` | what proofs need of naturals, of inductions over naturals and sequences, and of the sums, folds and joins of the community modules |
| `KbBuildProofs` | theorems about `Precedence`, and about `KbBuild`: types, mirror, graph, tombstones, withdrawals |
| `ChunkerProofs` | theorems about `Chunker`, pass by pass, and about the cutting of a document |
| `IntakeProofs` | theorems about `Intake` |
| `PanelProofs` | theorems about `Actions`, `Breaker`, `Provisioning` and `MCPanel` |
| `AccessProofs` | theorems about `McpAccess`, `Accounts` and `RateLimiter` |
| `KnowledgeProofs` | theorems about `ApplyPrecedence`, `AnswerCache` and `LearningGaps` |
| `ServicesProofs` | theorems about `Retention`, `Backup` and `MCServices` |

**`KbBuild`.** One action per transaction or OpenSPG call. `pc` is the place of
`runBuildKb`: `snapshot`, then `count`/`page` (the two queries of `listDrafts` for
each page), `rows` (building rows, the check for duplicates, `syncGraphIds`),
`mirror`, `edges`, then for each file `file`, `decide`, `record`, `wait`, and last
`confirm` and `settle`. A document's identity is `DocOf` (the hash of source and
content); a chunk and a document row carry the draft they come from, so two versions
of a row are distinguishable and equality of contents is the equality of shas.
`graph` and `jobs` belong to OpenSPG; `Faults` names what may go wrong outside, and
each run enables what its question needs. Inserting the draft and withdrawing its
`supersedes` target are two steps, as in the code, with any decision in between.

**`Intake`.** A run is a record with its stage; `live` is FALSE once the deadline has
passed and the worker no longer waits for it. `aged` holds the rows old enough for
the sweep. `disturbed` is history: the intakes that had a late run, or one that was
cut off between `createDraft` and `drafted`. The properties about drafts exclude
exactly those, and the violation run `intake_late` shows why they must.

**`Actions`.** `worker` is the child (or the job in the panel), `listening` the
children whose `close` event will be handled, `pids` the rows whose pid was written.
Cancelling is two steps, since a child may end between the signal and the
transaction. `Restart` chooses which children outlive the panel and which dead pids
are reused. SQLite errors are not modelled: every transaction commits. `ActionTable`
keeps only the rows and the set of actions whose work was done, under the same names,
so the refinement mapping is the identity on them.

**`Breaker`.** Time is relative: what is left until `retry_after`, and until each
probe's deadline. The three decisions are atomic because each is one
`BEGIN IMMEDIATE` transaction; the two reads outside of them (the fast path and
`isPristine`) only skip a write that would change nothing. Failures are counted up
to `Cap`, from where on the cooldown no longer changes.

**`Provisioning`.** `task` is the job that runs, with its place between two calls and
what it read before; `late` is a creation the client gave up and the server may still
execute. A schema is the number of the template of the running release, so an older
schema is distinguishable from a newer one. The jobs die with the panel (`deserted`).

**`AnswerCache`.** What a base says is a version number, in the mirror and in the graph
separately, since a build replaces them at two moments. A question is five steps: key,
search, mirror, generation, put. `rebuiltClean` is history, the bases a forced rebuild
replaced although they were not dirty (a change of chunking): for them nothing warns,
and the property leaves them out.

**`LearningGaps`.** A gap has a question, a status, its evidence and its draft. `vain`
counts what was asked, `forgotten` what retention deleted, `cutOff` the drafts whose
promotion the panel's death cut from its gaps.

**`Accounts`.** A request is admitted with the role its session has, and handled later,
whatever became of the session: `admitted` holds what was let through. A grant is a
refresh under way, with the token it sent. Roles change at the provider only, and reach
the panel with sign-ins and refreshes.

**`McpAccess`.** Of a cached entry only the time it has left is kept, and of the truth
the time for which it has been bad, hidden or good: the property relates the two.
**`RateLimiter`.** A hit is the time left of its window; `letThrough` is history: what a
bucket was allowed since it was forgotten as one of the least used.

**`Retention`, `Backup`.** Ages are in days. `torn` holds the files whose save or purge
the panel's death cut in two. A snapshot is complete when its manifest is; `proven`
remembers in which months a complete one was made.

**`Chunker`.** A character knows its place and its kind: only the kinds the code tells
apart exist. A document is a sequence of lines of given shapes, at most `MaxLines`. The
passes are folds and recursive functions, as in the code; what is kept of a sequence is
a fold too (`Filtered`), and not `SelectSeq`, which is recursive where the prover needs a
definition.

Some definitions are alternatives that no specification uses, each under a comment
`A fault: ...`: they are plausible mistakes, substituted one at a time to see that a
property notices.

## Runs

| Run | Configuration | Distinct states | What it shows |
|---|---|---|---|
| `build_mirror` | 3 drafts, pages of 2, 2 builds, crashes | 2.3 million | a clean base has the promoted content in its mirror; nothing reaches a job or the graph that the registry does not know |
| `build_graph` | 2 versions of a source, one of them tagged, one page, 3 builds, each forced or not, time-outs, purges, lost tombstones | 1.3 million | what a clean base says of its graph; what a forced build leaves; what a confirmed tombstone means; withdrawals |
| `build_live` | 3 drafts, pages of 1, 1 build, OpenSPG failing in every way | 134,485 | every build ends |
| `intake_worker` | 2 intakes, 2 contents, 1 restart, one attempt, all faults | 396,400 | one run, one draft; every intake settles |
| `services` | the nine parts of `MCServices` | 1.3 million | what must never happen in precedence, chunks, cached answers, gaps, originals, accounts, MCP caches, rate limits and snapshots |
| `panel` | the three parts of `MCPanel` | 133,972 | actions implement their table and end; one probe, growing cooldowns, never stuck; one project per base, a truthful registry, provisioning ends |
| `build_stale_sha` | 2 drafts, 3 builds, no fault | violation | see below |
| `build_paging` | 3 drafts, pages of 1 | violation | see below |
| `intake_late` | 1 intake, slow stages | violation | see below |
| `retention_shared_blob` | 3 intakes of one content | violation | see below |
| `provision_resume` | an admin who repeats the POST | violation | see below |
| `chunk_fence` | 2 lines, one of them a fence with its code | violation | see below |

### Why the bounds are enough

* Build: three drafts give a source with two versions and a draft that names another,
  or a document submitted again next to an unrelated one. Pages of one or two make a
  promotion fall between two pages; pages of three keep that hazard out where the
  question is another one (`build_graph`). Two builds are the least for which a node
  loaded by one is removed by the other, or a job left by one is met by the other.
  Three let a content leave and return: in `build_stale_sha` between two unrelated
  drafts with one tag, in `build_graph` as two versions of a source take turns. There
  each build may be forced or not, so skipped files, uploads from the cache and jobs
  taken over from a build that gave up all occur; deaths are left to `build_mirror`,
  where one may come at any place, and OpenSPG's disorder to `build_live` and the
  proofs, which hold for every set of faults.
* Intake: two intakes and two slots are the least where the worker fills a slot beside a
  running one, `Concurrency` being 2 in the code. The bound of one attempt (3 in the
  code) makes exhaustion reachable, at the sweep's first repetition; the proofs hold
  for any.
* Precedence: three drafts, one source or none, two times, any `supersedes` and lists of
  up to four with repetitions: every case of the rule has a witness with two drafts and
  a bystander, over all relations and not chosen ones.
* Chunker: a limit of 12 characters is the least that a fence of two markers and a
  line fits in; four lines of six shapes open, fill, close and follow a block.
* Answers: two bases whose builds overlap, two builds and one edit; one entry makes the
  cache evict. Gaps: one question with two gaps is a twin to merge; two drafts and three
  askings let a reopened gap meet a new one. Originals: two intakes share a file while
  a third comes; terms of one and two days order all the terms of the code.
* Accounts: two people who disable each other, each with a session, two requests
  admitted and not yet handled, three tokens (a first, a refreshed and a stale one).
  MCP: a term of 6 and a negative term of 1, the ratio of the code's 60 s and 10 s.
  Rates: three buckets in a map of two, a limit of two and batches of up to three, one
  more than fits. Backup: five days with months of three, retention of one: a month
  ends, its copy is kept, the next one begins.
* Actions: three actions are two of one key and a third started after one was disowned;
  two restarts let a child survive one sweep and meet another. Breaker: three calls are a
  probe, a second candidate and a late answer; cooldowns 2, 4, 8 are two doublings and
  the cap. Provisioning: two projects make a duplicate possible; two releases make a
  schema stale; two models make a freeze observable.

`CHECK_DEADLOCK FALSE` is stated where the bounds on lists, runs, intakes, actions,
days or restarts leave a state with nothing to do.

## Fairness

* `build_live`: weak fairness of `BuildStep` only. The child process runs on once it
  is started, and `waitForJob` ends by its own timeout (`gives_up`) when OpenSPG never
  answers. People, OpenSPG and crashes owe nothing.
* `intake_worker`: the interval timer ticks; time passes, so a midstage row grows old
  (`Age`); a live run goes on, throws or meets its deadline. A run behind the worker's
  back owes nothing.
* `panel`, actions: a job ends (each has time limits), a child that has finished records
  its end, close events arrive, a cancellation that has signalled records. Starts, deaths,
  survivals and restarts owe nothing; a killed child may take its time to die.
* `panel`, breaker: time passes, each call returns or dies (all have timeouts), and
  callers keep trying: strong fairness of "some call is admitted", which demands an
  admission only if one is possible again and again.
* `panel`, provisioning: weak fairness of a job's next step, since every call of the
  client ends within its timeout. Admins, the server and restarts owe nothing;
  `provision_resume` adds an admin who insists, to show that this is not enough.

The other properties are about safety and assume nothing.

## What is proved

All for any value of the constants that satisfies the named assumptions. Every safety
property that a passing run checks has its theorem.

| Theorem | Says | Argument |
|---|---|---|
| `PrecedenceSettles`, `SupersededHasReplacement` | what precedence keeps is stable, what it drops lost to somebody | directly from the rule; `Newer` is a strict order |
| `TypeCorrect` | types of `KbBuild`, and the place of the build fits its memory | `TypeOK` is inductive, one lemma per group of actions |
| `MirrorInvariant`, `MirrorIsClean` | `CleanMeansMirrorMatches` | below |
| `GraphIsTracked` | `NothingUntracked` | ids are registered before rows exist, rows before jobs, jobs before nodes (`TrackedInv`) |
| `GraphInvariant`, `ConfirmedIsDelivered`, `CleanIsLoaded`, `ForcedIsLoaded` | `GraphInv`, `ConfirmedWasDelivered`, `CleanUnlessReloaded`, `ForcedBuildLoads`, for any builds and any faults | below |
| `LoopsAreTheRule` | `LoopsComputeTheRule` | below |
| `OnePageWithdrawals` | `WithdrawnByBuildWasReplaced` if the drafts fit one page | `ReplacedInv`: what was fetched was promoted, once; the hypothesis is needed (`build_paging`) |
| `OwnerInvariant`, `OneRunAtATime`, `DraftedOnce`, `DraftedStays` | the safety of the worker | `OwnerInv`: a row's status is where its only run left it; a row with a draft is `drafted` |
| `ActionInvariant`, `WorkersExclusive`, `RunningIsOwned` | the safety of actions | `ActionInv`: one running row per key, and a worker whose row is not running is disowned |
| `TableIsImplemented` | `Actions` implements `ActionTable` | the initial states are the same; under `ActionInv` each action lets a row appear, lets running rows end, or leaves the table alone; the exclusion of running rows is a part of `ActionInv` |
| `BreakerInvariant`, `OneProbe`, `BackoffGrows` | the safety of the breaker | `BreakerInv`: unless closed, `retry_after` is not before any probe's deadline, and the last cooldown is at most that of the failures counted |
| `OneProject`, `RegistryIsTrue`, `SetAsideStays` | the safety of provisioning | `ProvInv`: `create_kb` runs once, from the base's birth, and while it looks there is no project and no late request, so a creation makes the first; what a job carries agrees with the server |
| `PanelInvariant` | `PanelInv` | the three parts have their invariants side by side; for the types, a project's number stays known and no schema is ahead of the release (`BoundPart`) |
| `ServedIsCurrent` | `ServedAnswersAreCurrent` | below |
| `AllowanceIsKept` | `AllowanceHolds` | `HitsInv`: the hits of a bucket are in the order of their times and within the limit, and what was let through in the window is what the bucket remembers; so a forgotten bucket has nothing in the window or is the excepted victim |
| `CachesForget` | `CachesForgetInTime` | `CacheInv`: what a wrong entry has left and the time it has been wrong fit into its term |
| `DisabledIsOut`, `OneRefresh`, `AdminStays` | `DisabledMeansOut`, `OneRefreshAtATime`, `AnAdminStays` | `AccountInv`: an account that is not active has no keys, every session belongs to an active one, and a grant carries its session's newest token; one step disables one account, and the last active admin is refused |
| `OneOpenGap`, `PromotionResolves` | `OneOpenGapPerQuestion`, `PromotedMeansResolved` | `GapsInv`: two open rows of one question are the same row, and a gap waits only for a draft that exists and may still be promoted |
| `EvidenceIsKept` | `NothingAskedIsLost` | `LedgerInv`: each step moves evidence between the rows of one question, or from a row to `forgotten`; that a sum over the rows splits and follows one changed row is proved in `DataLemmas` |
| `PurgesSpare`, `NoOrphans` | `NamedFilesExist`, `EveryFileIsNamed` | `FilesInv`: a row that is absent or purged names no file, so the rows a purge spares are the only ones that still need theirs |
| `MonthsKeepOne` | `EveryMonthKeepsOne` | `SnapshotsInv`: directories of a day are numbered without a gap, so names are distinct and a month's first copy exists; the first success of a month is not later than any complete snapshot of it, so the copy is younger than what `proven` allows |
| `SectionsOfDocument`, `LongParagraph`, `LongFence` | what `splitSections`, `splitLongParagraph` and `splitLongFence` return for any text | each is a fold or a recursion that decreases, followed by an invariant of its rounds |
| `ChunkerInvHolds`, `DocumentsAreKept` | `ChunksKeepTheDocument`, if no fence opens with a line longer than the limit | below |
| `ServicesTypes` | `ServicesTypeOK` | the invariants of the seven parts that have types here, and their bounds: room, attempts, keys, buckets |

**The mirror.** `CleanMeansMirrorMatches` says nothing of a dirty base, so it is not
inductive: a build clears the flag at its end on the strength of what it read at its
start. `MirrorInv` says what holds in between *if the version has not moved since the
snapshot*: the pages read so far are the newest promoted drafts, each once
(`PagesPart`); the kept and the dropped share them out (`PlanPart`); the mirror and the
edges hold the kept as far as they are written (`MirrorPart`); a clean base has nothing
left to drop (`CleanPart`). Every step of the inbox either moves the version or changes
no promoted draft, so the conditional parts survive; at the end the code's own
comparison of versions supplies the condition. `PrecedenceSettles` closes the argument:
after the build withdraws what it dropped, precedence has nothing more to say.

**The graph.** A run's jobs are only the last writers of a graph that older jobs, of
runs that died or gave up, may still write, and a build may skip a file because of a
job that finished long ago. `GraphInv` says what is true all the same, forced or not,
whatever OpenSPG reorders, fails or loses. `LoadInv` follows a file through a build: an
upload is known by its URL, so a job taken over has the rows of the file in hand
(`UrlPart`); rows and registry agree, id by id (`RowsPart`); the job waited for, and any
recorded as finished, had the rows of its file (`JobPart`, `RecordPart`); so a file that
is done was loaded by a finished job, now or earlier (`LoadedPart`), and so was a
tombstone before it is confirmed (`ConfirmedWasDelivered`). A forced build never meets a
job of its own, its jobs are the last ones, and what they wrote stands (`ForcedPart`).
`HistoryInv` is about jobs alone: in order, those that ended are the first ones
(`OrderPart`); content that a job loaded stays until another row or a purge comes
(`WrittenPart`). `CleanLoadedPart` joins this with `MirrorInv`: while the flag is clear,
the target was loaded, and only the target is live in the registry.

The exceptions in the properties are the cases where the code does not hold what it
logs. `CleanUnlessReloaded` leaves out a node that another row reached after its content
was loaded - the defect of `build_stale_sha`, or a late job - and a node that was purged
while it was out of the target: the next build skips the file that would bring it back. `ForcedBuildLoads` leaves out jobs that OpenSPG ran in another order than
it got them. Both hold with `loses_tombstones`, for a search drops what the registry does
not call live (`Readable`).

**The loops.** `applyPrecedence` keeps, round by round, a winner of each source and a
set of drafts to withdraw. After the first `k` places of the list these are, in closed
form: the newest of each source among the drafts met that nobody names (`Leaders`); and
the named, the beaten and those met twice (`Gone`). One round takes the form of `k`
places to that of `k + 1` (`RoundIs`), and at the end of the list the form is the rule.
Induction is over the set of the `k` for which the form holds (`NatSetInduction`), since
a predicate as a parameter is beyond the provers.

**Cached answers.** What a question reads it reads at three moments, and a build writes
at three others. `AnswerInv` carries one fact through them: with `v` the version in the
key, taken before anything was read, either an export finished after `v` (and the key no
longer matches), or no build that began before is under way and what was read is still
there or the base is dirty (`StandsWith`). Every step of a base keeps it of every
version up to now (`KbKeeps`), which needs no knowledge of who is asking.

**Chunks.** The state of `Chunker` is small and its operators are not, so the proof is
about data: what each pass returns for a text of any length. Three notions carry it. A
text is *sound* if it breaks neither a surrogate pair nor a row of backticks (`Sound`).
Its *body* is what is seen of it outside of fence markers, in order (`Body`, `Bodies`).
Its *marks* are the fence lines it holds (`Marks`), which are even where its fences are
closed. Trimming, joining with newlines, splitting into lines, cutting at a safe index
and packing keep a text sound, keep the body, and add up the marks; so each pass, from
the inside out - a hard cut, a long fence, a long paragraph, the pieces of a paragraph,
the packing of a section, the sections of a document - returns sound texts within the
limit, whose bodies are together the body it was given. `ChunkerInv` says of a document
cut in part: the chunks made and the sections left, each of lines under its heading and
each with even marks if the document's are, show together what the document shows.
`InvNothingIsLost` and its four siblings turn that into the words of the property.
Of the shapes the proof uses only that a line is a row of three backticks or has none
and breaks no pair (`Lined`). The limit is any number above 9, room for two markers
and a line; the code's is never below 200 (`pipeline-settings.ts:34`). The hypothesis
on shapes leaves out the line `oneliner`, a fence opening longer than the limit, and
cannot be dropped: `chunk_fence` is the counterexample.

The provers cannot instantiate a theorem that takes a predicate, so the inductions of
`DataLemmas` are stated with the set of the places (`NatSetInduction`) or sequences
(`SeqSetInduction`) that have the property, a fold with a step that is a function, and
each fold of `Chunker` is matched with one (`FoldMatch`).

**Assumptions.** Each is a named `ASSUME` in the module that declares the constant and
is evaluated in every run of that module. They are about types of constants and the finiteness of sets,
plus: drafts of one document share their source (the hash includes it); the longest
cooldown is not below the first and is reached at `Cap`; the terms of retention are
within the ages told apart; and the powers of two up to 2^30, the code's limit
(`PowersAssumption`), which the provers do not compute.

**Only model-checked.** Liveness (`BuildEnds`, `IntakeSettles`, `ActionEnds`,
`NeverStuck`, `ProvisioningEnds`) and `ENABLED` are outside the prover.

## Where the code disagrees with itself

Each of these is a run that stops at a counterexample.

* **`build_stale_sha`**: `findFinishedBuildJob` accepts any finished job with the same
  file and sha, however old, and `topic.csv` can return to an earlier form, since a
  topic's row has only its name and its `usageCount`. Two unrelated drafts with one tag
  and three builds are enough: promote one, build, promote the other, build, withdraw
  one, build. The count goes 1, 2, 1; the third build skips the file, declares the graph
  in step, and the topic keeps 2. TLC stops at a shorter trace of the same kind: the
  first draft is withdrawn just after the preflight of the second build, which therefore
  loads a tombstone for the topic, and the other draft is promoted during it; the third
  build skips the `topic.csv` of the first. (`withdrawn` is final, so no draft comes back
  itself.) A purge while the content is away has the same effect: the file is
  skipped although its nodes are gone.
* **`build_paging`**: a promotion between two pages shifts the list; the draft at the
  border is read twice, becomes its own newer version and is withdrawn (or, without a
  source, stops the build as a duplicate identity).
* **`intake_late`**: the guard against a second draft reads a status its own run has
  just overwritten.
* **`retention_shared_blob`**: two intakes of one content, both past their term, each
  keep the file for the other, on every run.
* **`provision_resume`**: a base whose project OpenSPG lost never gets one again: the only
  route that starts `create_kb` refuses a namespace that exists.
* **`chunk_fence`**: a fence with its code on one line longer than a chunk loses all
  that lies beyond the limit.

Others were met while modelling and are kept here, without a run of their own:

* A base without promoted drafts may never be built (`preflight.ts:277`), so the content
  of the last withdrawn draft stays searchable; `docs/operator-manual.md:23` and
  `docs/data-governance.md:241` promise a build.
* `graph-ids.ts:83` says of confirmed tombstones "są już w grafie", as `build-kb.ts:230`
  does, and `build-kb.ts:233` logs "nagrobki potwierdzone w grafie"; `graph-ids.ts:109-112`
  says that confirmed means only that the builder's job succeeded, and that in production
  it left the nodes with their full content. The model has this as the fault
  `loses_tombstones`, which `build_graph` enables: a confirmed tombstone was delivered
  (`ConfirmedWasDelivered`), and more is not true.
* A failed newest intake hides an older useful one from the deduplication
  (`intakes.ts:195-200` against the comment at `:187`).
* A late success of an old call closes an open breaker, and a late failure counts as the
  probe's; `breaker.ts:12` speaks of the probe only.
* A refresh compares the provider's role with the session's, not the account's
  (`plugins/session.ts:76`), so two sessions may leave an older role in the account.
* A session without a refresh token lives on to its `absolute_expires_at`, says
  `docs/design/backend-mcp.md:652`; `plugins/session.ts:49-51,77-80` ends it with its
  access token.
* Retention deletes export directories after 30 days, also the newest run's
  (`retention.ts:290-291`), which the quality gate then reports as missing
  (`quality-gate.ts:265-281`).
* `backup.sh:70-75` calls `warn` before its definition under `set -e`: with
  `coldNeo4jEnabled` false the monthly cold run ends without a snapshot, where the comment
  above expects a hot one. `verify_backup.sh:70` takes the newest directory, also one still
  being written. `backup_request.sh` drops a request while the unit is active.
* Without being a contradiction: an archived base stays visible over MCP up to the term
  of the caches, as nobody announces it; a base created as `draft` can never be
  provisioned; a gap waits `in_draft` for a draft that was rejected and deleted; the PII
  policy is not a part of the answer cache's key; in the chunker an opening fence longer
  than the limit makes every chunk of its block exceed it, and a preview may end in half
  a surrogate pair; a batch refused by the limiter may be refused again after its
  `retryAfter`, which counts one slot.

## What is left out

`PROJECT.json` lists every component with its reason. In short:

* **Audit chain**: each append is one immediate transaction that reads the last hash; the
  table forbids updates and deletions by triggers. What remains is the hash itself, of
  which a model keeps only equality.
* **Quality gate, quality report, scheduler**: one synchronous reading of the database and
  of files into a report; the scheduler compares an age and starts an action, whose
  exclusion is `Actions`.
* **Text**: extraction, cleaning, prompts, scoring and verification of answers are functions
  over text, tested on examples; the chunker, whose guarantees are structural, is modelled.
* **The panel's own request limits** are a library's; the throttle of audit entries for
  refused calls is a counter in a window.
* **Web client, outbound HTTP policy, crypto, PII, host scripts** other than the backup:
  rendering, checks of one input, and configuration.
* **Database errors, disk and clock changes**: transactions commit and time goes forward.
* **Edits**: the text of a draft, the names and routing of a base and bulk decisions change
  no order that the models are about. The purge script is one step.

Most of the lines of the repository are of these kinds (the panel's pages and
translations, text processing, listing endpoints, formatting), and so the share of lines
that a definition stands for stays small.
