------------------------------- MODULE Actions -------------------------------
(***************************************************************************)
(* Long-running actions of the panel: the rows of the actions table and    *)
(* what runs them (panel-api: services/actions-runner.ts, jobs/run-job.ts, *)
(* jobs/kb-runner.ts, server.ts; shared: db/repos/actions.ts).             *)
(*                                                                         *)
(* A key is a type with a resource, <<build_kb, kb:Docs>>.  An action of a *)
(* spawned key runs in a detached child process, which writes the end of   *)
(* its row itself; one of another key runs in the panel's own process.     *)
(* The panel is one JavaScript process, so its handlers do not overlap;    *)
(* the children, the operating system and a crash interleave with it.      *)
(***************************************************************************)
EXTENDS Integers, FiniteSets

CONSTANTS
    ActionIds,          \* actions, numbered in the order of their start
    Keys,         \* type and resource of an action
    Spawned,      \* keys whose actions run in a child process
    NoKey,        \* the row does not exist yet
    Nobody,       \* no cancellation is under way
    ActionFaults,       \* what may go wrong: a subset of AllActionFaults
    MaxRestarts   \* bound: restarts of the panel

(***************************************************************************)
(* "spawn": the child does not start; "dies": a child is killed, out of    *)
(* memory; "survives": children may outlive the panel (in the container    *)
(* they do not); "reuse": the pid of a dead child may belong to another    *)
(* process after a restart.                                                *)
(***************************************************************************)
AllActionFaults == {"spawn", "dies", "survives", "reuse"}

ASSUME ActionIdsAssumption == ActionIds \subseteq Nat \ {0} /\ IsFiniteSet(ActionIds) /\ Nobody \notin ActionIds
ASSUME KeysAssumption == Spawned \subseteq Keys /\ NoKey \notin Keys
ASSUME ActionFaultsAssumption == ActionFaults \subseteq AllActionFaults /\ MaxRestarts \in Nat

VARIABLES
    rowStatus, key,   \* the actions table
    pids,          \* rows whose pid was written
    worker,        \* the child, or the job in the panel
    listening,     \* children whose `close` event the panel will handle
    doomed,        \* children that were sent SIGTERM
    cancelling,    \* the row cancelRunningAction has read and signalled
    restarts,
    finished,      \* history: jobs that did their work
    orphans        \* history: rows whose child outlived its panel, or whose
                   \* pid another process has

actionVars == <<rowStatus, key, pids, worker, listening, doomed, cancelling, restarts,
                finished, orphans>>

Terminal == {"success", "error", "cancelled"}
Statuses == {"absent", "running"} \cup Terminal
Phases   == {"none", "working", "worked", "failed"}

ActionsInit ==
    /\ rowStatus = [a \in ActionIds |-> "absent"]
    /\ key = [a \in ActionIds |-> NoKey]
    /\ pids = {}
    /\ worker = [a \in ActionIds |-> "none"]
    /\ listening = {}
    /\ doomed = {}
    /\ cancelling = Nobody
    /\ restarts = 0
    /\ finished = {}
    /\ orphans = {}

Child(a) == worker[a] # "none" /\ key[a] \in Spawned

\* A fault: two actions of a key may run.
NeverBusy(k) == FALSE

Busy(k) == \E b \in ActionIds : key[b] = k /\ rowStatus[b] = "running"

\* A fault: the end of an action is written whatever its row says.
Overwrite(a, to) == rowStatus' = [rowStatus EXCEPT ![a] = to]

\* The transaction of terminate; the conflict is caught by every caller.
Terminate(a, to) ==
    rowStatus' = [rowStatus EXCEPT ![a] = IF @ = "running" THEN to ELSE @]

-----------------------------------------------------------------------------
(***************************************************************************)
(* Starting an action.                                                     *)
(***************************************************************************)

\* The partial unique index ux_actions_running lets the row in.
MayInsert(a, k) ==
    /\ cancelling = Nobody
    /\ rowStatus[a] = "absent"
    /\ \A b \in ActionIds : b < a => rowStatus[b] # "absent"
    /\ ~Busy(k)

\* The row of an action, with the status its start leaves it in.
Insert(a, k, s) ==
    /\ MayInsert(a, k)
    /\ rowStatus' = [rowStatus EXCEPT ![a] = s]
    /\ key' = [key EXCEPT ![a] = k]

StartChild(a, k) ==
    /\ k \in Spawned
    /\ Insert(a, k, "running")
    /\ pids' = pids \cup {a}
    /\ worker' = [worker EXCEPT ![a] = "working"]
    /\ listening' = listening \cup {a}
    /\ UNCHANGED <<doomed, cancelling, restarts, finished, orphans>>

\* The child process reports an error: there is no pid, its events will come.
SpawnError(a, k) ==
    /\ "spawn" \in ActionFaults
    /\ k \in Spawned
    /\ Insert(a, k, "running")
    /\ listening' = listening \cup {a}
    /\ UNCHANGED <<pids, worker, doomed, cancelling, restarts, finished, orphans>>

\* The log cannot be opened, or spawn throws.
StartFails(a, k) ==
    /\ "spawn" \in ActionFaults
    /\ k \in Spawned
    /\ Insert(a, k, "error")
    /\ UNCHANGED <<pids, worker, listening, doomed, cancelling, restarts, finished, orphans>>

\* launchKbAction.
StartInProcess(a, k) ==
    /\ k \in Keys \ Spawned
    /\ Insert(a, k, "running")
    /\ worker' = [worker EXCEPT ![a] = "working"]
    /\ UNCHANGED <<pids, listening, doomed, cancelling, restarts, finished, orphans>>

-----------------------------------------------------------------------------
(***************************************************************************)
(* The workers.                                                            *)
(***************************************************************************)

\* The child's job resolves or throws.
WorkEnds(a) ==
    /\ Child(a) /\ worker[a] = "working"
    /\ \/ worker' = [worker EXCEPT ![a] = "worked"] /\ finished' = finished \cup {a}
       \/ worker' = [worker EXCEPT ![a] = "failed"] /\ UNCHANGED finished
    /\ UNCHANGED <<rowStatus, key, pids, listening, doomed, cancelling, restarts, orphans>>

\* finishAction or failAction; the child exits.
ChildRecords(a) ==
    /\ Child(a) /\ worker[a] \in {"worked", "failed"}
    /\ Terminate(a, IF worker[a] = "worked" THEN "success" ELSE "error")
    /\ worker' = [worker EXCEPT ![a] = "none"]
    /\ doomed' = doomed \ {a}
    /\ UNCHANGED <<key, pids, listening, cancelling, restarts, finished, orphans>>

ChildDies(a) ==
    /\ Child(a)
    /\ a \in doomed \/ "dies" \in ActionFaults
    /\ worker' = [worker EXCEPT ![a] = "none"]
    /\ doomed' = doomed \ {a}
    /\ UNCHANGED <<rowStatus, key, pids, listening, cancelling, restarts, finished, orphans>>

\* A fault: the panel does not correct the row of a child that died.
IgnoreClose(a) == UNCHANGED rowStatus

FinalizeIfStillRunning(a) == Terminate(a, "error")

\* The `close` or `error` event of the child.
Closed(a) ==
    /\ cancelling = Nobody
    /\ a \in listening /\ worker[a] = "none"
    /\ listening' = listening \ {a}
    /\ FinalizeIfStillRunning(a)
    /\ UNCHANGED <<key, pids, worker, doomed, cancelling, restarts, finished, orphans>>

\* The job in the panel ends, and its row with it.
InProcessJobEnds(a) ==
    /\ cancelling = Nobody
    /\ worker[a] = "working" /\ key[a] \in Keys \ Spawned
    /\ \/ Terminate(a, "success") /\ finished' = finished \cup {a}
       \/ Terminate(a, "error") /\ UNCHANGED finished
    /\ worker' = [worker EXCEPT ![a] = "none"]
    /\ UNCHANGED <<key, pids, listening, doomed, cancelling, restarts, orphans>>

-----------------------------------------------------------------------------
(***************************************************************************)
(* Cancelling.                                                             *)
(***************************************************************************)

\* The row is read and its process group signalled; a job in the panel has
\* no pid, nothing stops it.
CancelSignal(a) ==
    /\ cancelling = Nobody
    /\ rowStatus[a] = "running"
    /\ cancelling' = a
    /\ doomed' = IF a \in pids /\ Child(a) THEN doomed \cup {a} ELSE doomed
    /\ UNCHANGED <<rowStatus, key, pids, worker, listening, restarts, finished, orphans>>

\* A fault: the status read before the signal is trusted.
CancelWithoutLooking(a) == Overwrite(a, "cancelled")

CancelAction(a) == Terminate(a, "cancelled")

CancelRecords(a) ==
    /\ cancelling = a
    /\ CancelAction(a)
    /\ cancelling' = Nobody
    /\ UNCHANGED <<key, pids, worker, listening, doomed, restarts, finished, orphans>>

-----------------------------------------------------------------------------
(***************************************************************************)
(* The panel dies and starts again.  Its jobs and listeners are gone; the  *)
(* children that outlive it are a subset.                                  *)
(***************************************************************************)
Survivors == IF "survives" \in ActionFaults THEN SUBSET {a \in ActionIds : Child(a)} ELSE {{}}
Reused == IF "reuse" \in ActionFaults THEN SUBSET pids ELSE {{}}

\* A fault: the sweep does not ask whether the process is alive.
SweepAll(alive) ==
    [a \in ActionIds |-> IF rowStatus[a] = "running" THEN "error" ELSE rowStatus[a]]

\* A fault: the sweep leaves out the rows without a pid.
SweepDeadPids(alive) ==
    [a \in ActionIds |-> IF rowStatus[a] = "running" /\ a \in pids \ alive
                   THEN "error" ELSE rowStatus[a]]

OrphanSweep(alive) ==
    [a \in ActionIds |-> IF rowStatus[a] = "running" /\ a \notin pids \cap alive
                   THEN "error" ELSE rowStatus[a]]

LeavePanel(kept) ==
    /\ restarts < MaxRestarts
    /\ restarts' = restarts + 1
    /\ listening' = {}
    /\ cancelling' = Nobody
    /\ doomed' = doomed \cap kept

Restart ==
    \E kept \in Survivors, reused \in Reused :
        /\ LeavePanel(kept)
        /\ rowStatus' = OrphanSweep(kept \cup reused)
        /\ worker' = [a \in ActionIds |-> IF a \in kept THEN worker[a] ELSE "none"]
        /\ orphans' = orphans \cup kept \cup reused
        /\ UNCHANGED <<key, pids, finished>>

\* It dies after spawn and before setActionPid: the sweep ends a row whose
\* child is alive.
RestartBeforePid(a, k) ==
    /\ "survives" \in ActionFaults
    /\ k \in Spawned
    /\ MayInsert(a, k)
    /\ \E kept \in Survivors :
        /\ LeavePanel(kept)
        /\ rowStatus' = [OrphanSweep(kept) EXCEPT ![a] = "error"]
        /\ worker' = [b \in ActionIds |-> IF b = a THEN "working"
                                    ELSE IF b \in kept THEN worker[b] ELSE "none"]
        /\ orphans' = orphans \cup kept \cup {a}
    /\ key' = [key EXCEPT ![a] = k]
    /\ UNCHANGED <<pids, finished>>

-----------------------------------------------------------------------------
Start == \E a \in ActionIds, k \in Keys :
    StartChild(a, k) \/ SpawnError(a, k) \/ StartFails(a, k) \/ StartInProcess(a, k)

Work == \E a \in ActionIds :
    WorkEnds(a) \/ ChildRecords(a) \/ ChildDies(a) \/ Closed(a) \/ InProcessJobEnds(a)

Cancel == \E a \in ActionIds : CancelSignal(a) \/ CancelRecords(a)

ActionsNext ==
    \/ Start
    \/ Work
    \/ Cancel
    \/ Restart
    \/ \E a \in ActionIds, k \in Keys : RestartBeforePid(a, k)

ActionsSpec == ActionsInit /\ [][ActionsNext]_actionVars

\* Jobs have time limits; a process that is alive goes on; events arrive.
ActionsFairness ==
    \A a \in ActionIds :
        /\ WF_actionVars(WorkEnds(a)) /\ WF_actionVars(ChildRecords(a))
        /\ WF_actionVars(Closed(a)) /\ WF_actionVars(InProcessJobEnds(a))
        /\ WF_actionVars(CancelRecords(a))

-----------------------------------------------------------------------------
(***************************************************************************)
(* Properties.                                                             *)
(***************************************************************************)

\* Every variable keeps its type.
ActionsTypeOK ==
    /\ rowStatus \in [ActionIds -> Statuses]
    /\ key \in [ActionIds -> Keys \cup {NoKey}]
    /\ worker \in [ActionIds -> Phases]
    /\ pids \subseteq ActionIds /\ listening \subseteq ActionIds /\ doomed \subseteq ActionIds
    /\ cancelling \in ActionIds \cup {Nobody}
    /\ restarts \in Nat
    /\ finished \subseteq ActionIds /\ orphans \subseteq ActionIds

(***************************************************************************)
(* Two workers of one type and resource are at work together only when one *)
(* of them was cancelled, or lost its panel before its pid was written:    *)
(* the index and the sweep leave no other way (ux_actions_running,         *)
(* orphanSweep).  A build relies on it: the exports of two builds of a     *)
(* base would overwrite each other.                                        *)
(***************************************************************************)
Disowned(a) == rowStatus[a] = "cancelled" \/ (key[a] \in Spawned /\ a \notin pids)

OneWorkerPerKey ==
    \A a, b \in ActionIds :
        a # b /\ key[a] = key[b] /\ worker[a] # "none" /\ worker[b] # "none"
            => Disowned(a) \/ Disowned(b)

(***************************************************************************)
(* A running row has somebody who will end it: its worker, the `close`     *)
(* event the panel waits for, or nobody only when its child outlived the   *)
(* panel (finalizeIfStillRunning, orphanSweep).                            *)
(***************************************************************************)
NothingHangs ==
    \A a \in ActionIds :
        rowStatus[a] = "running" => worker[a] # "none" \/ a \in listening \cup orphans

(***************************************************************************)
(* The table keeps its promise (module ActionTable): one running row of a  *)
(* type and resource; an end is written once, and neither a late child,    *)
(* nor its `close` event, nor a cancellation, nor the sweep overwrites it; *)
(* and a success is earned, whichever of the processes died (terminate).   *)
(***************************************************************************)
Table == INSTANCE ActionTable

ImplementsTable == Table!TableSpec

(***************************************************************************)
(* Every running action ends, or its child outlived the panel and died.    *)
(***************************************************************************)
ActionEnds ==
    \A a \in ActionIds :
        rowStatus[a] = "running" ~>
            rowStatus[a] # "running" \/ (a \in orphans /\ worker[a] = "none")

(***************************************************************************)
(* The inductive invariant behind OneWorkerPerKey, NothingHangs and        *)
(* ImplementsTable: a row exists when it has a key; one row of a key is    *)
(* running; a worker whose row is not running is disowned; a child that    *)
(* resolved has worked; a child is listened to, or has lost its panel.     *)
(***************************************************************************)
ActionInv ==
    /\ ActionsTypeOK
    /\ \A a \in ActionIds : rowStatus[a] = "absent" <=> key[a] = NoKey
    /\ \A a \in ActionIds : rowStatus[a] = "absent" =>
          worker[a] = "none" /\ a \notin pids \cup listening
    /\ \A a, b \in ActionIds :
          rowStatus[a] = "running" /\ rowStatus[b] = "running" /\ key[a] = key[b] => a = b
    /\ \A a \in ActionIds : worker[a] # "none" => rowStatus[a] = "running" \/ Disowned(a)
    /\ \A a \in ActionIds : worker[a] = "worked" \/ rowStatus[a] = "success" => a \in finished
    /\ \A a \in ActionIds : Child(a) => a \in listening \cup orphans
    /\ NothingHangs

=============================================================================
