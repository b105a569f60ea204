------------------------------- MODULE Backup -------------------------------
(***************************************************************************)
(* Snapshots of the whole system and their retention                       *)
(* (deploy/scripts: backup.sh, backup_request.sh; panel-api:               *)
(* services/backup.ts).                                                    *)
(*                                                                         *)
(* A run makes a directory named by its time, takes the lock, gathers the  *)
(* artifacts into it, writes the manifest, and last of all deletes the     *)
(* directories that are too old.  The timers start runs, and so does the   *)
(* panel, through a marker file.  A run may die anywhere; the lock dies    *)
(* with it and the directory stays.  Ages are in days and months are of    *)
(* equal length.  The copy outside of the host is left out, and so is the  *)
(* verification, which only reads.                                         *)
(***************************************************************************)
EXTENDS Integers, FiniteSets

CONSTANTS
    RetentionDays,    \* retentionDays
    MonthlyKeepDays,  \* monthlyRetentionMonths * 31
    DaysOfMonth,      \* scale: days in a month
    LastDay,          \* bound: days that pass
    RunsOfDay         \* bound: directories made in one day

ASSUME BackupAssumption ==
    /\ RetentionDays \in Nat /\ MonthlyKeepDays \in Nat /\ DaysOfMonth \in Nat \ {0}
    /\ LastDay \in Nat /\ RunsOfDay \in Nat

VARIABLES
    today,
    snapshots,    \* the directories under backups/nightly
    making,       \* the run that holds the lock, as a set of at most one
    marker,       \* backup-request.json is there
    proven        \* history: months a complete snapshot was made in, with its first day

backupVars == <<today, snapshots, making, marker, proven>>

Months == 0..(LastDay \div DaysOfMonth)
MonthOf(day) == day \div DaysOfMonth

\* `complete` is what snapshot_complete finds; `cold` is in the manifest.
Snapshot == [day : 0..LastDay, n : 1..RunsOfDay, complete : BOOLEAN, cold : BOOLEAN]

BackupInit ==
    /\ today = 0
    /\ snapshots = {} /\ making = {}
    /\ marker = FALSE
    /\ proven = [m \in Months |-> LastDay + 1]

MadeToday == Cardinality({d \in snapshots : d.day = today})

NewDirectory == [day |-> today, n |-> MadeToday + 1, complete |-> FALSE, cold |-> FALSE]

-----------------------------------------------------------------------------
(***************************************************************************)
(* A run.                                                                  *)
(***************************************************************************)

\* mkdir, then flock: the loser leaves its directory behind.
Run(cold) ==
    /\ MadeToday < RunsOfDay
    /\ snapshots' = snapshots \cup {NewDirectory}
    /\ making' = IF making = {} THEN {[of |-> NewDirectory, cold |-> cold, stage |-> "gather"]}
                 ELSE making

TimerRun(cold) == Run(cold) /\ UNCHANGED <<today, marker, proven>>

\* The manifest: ok when no required artifact is missing.
Manifest(r, ok) ==
    /\ r.stage = "gather"
    /\ snapshots' = (snapshots \ {r.of}) \cup
                    {[r.of EXCEPT !.complete = ok, !.cold = r.cold]}
    /\ making' = {[r EXCEPT !.stage = "prune"]}
    /\ proven' = [proven EXCEPT ![MonthOf(r.of.day)] =
                     IF ok /\ r.of.day < @ THEN r.of.day ELSE @]
    /\ UNCHANGED <<today, marker>>

Earlier(d, e) == d.day < e.day \/ (d.day = e.day /\ d.n < e.n)
First(D) == {d \in D : \A e \in D \ {d} : Earlier(d, e)}

\* A fault: the oldest directory of the month, whatever is in it.
AnyOfMonth(m) == {d \in snapshots : MonthOf(d.day) = m}

CompleteOfMonth(m) == {d \in snapshots : MonthOf(d.day) = m /\ d.complete}

\* month_keep: the first complete cold one, or else the first complete one
MonthlyCopy(m) ==
    LET cold == {d \in CompleteOfMonth(m) : d.cold}
    IN  IF cold # {} THEN First(cold) ELSE First(CompleteOfMonth(m))

Age(d) == today - d.day

Stays(d) ==
    \/ Age(d) <= RetentionDays
    \/ d \in MonthlyCopy(MonthOf(d.day)) /\ Age(d) <= MonthlyKeepDays

\* prune_snapshots, whether the run succeeded or not
Prune ==
    /\ \E r \in making : r.stage = "prune"
    /\ snapshots' = {d \in snapshots : Stays(d)}
    /\ making' = {}
    /\ UNCHANGED <<today, marker, proven>>

\* The run dies; some of the old directories may be gone.
RunDies ==
    /\ making # {}
    /\ \E gone \in SUBSET {d \in snapshots : ~Stays(d)} :
          /\ gone = {} \/ \E r \in making : r.stage = "prune"
          /\ snapshots' = snapshots \ gone
    /\ making' = {}
    /\ UNCHANGED <<today, marker, proven>>

DayEnds ==
    /\ today < LastDay
    /\ today' = today + 1
    /\ UNCHANGED <<snapshots, making, marker, proven>>

-----------------------------------------------------------------------------
(***************************************************************************)
(* The button of the panel.                                                *)
(***************************************************************************)

\* requestBackupRun: also over a marker the host left for two minutes
RequestBackupRun ==
    /\ marker' = TRUE
    /\ UNCHANGED <<today, snapshots, making, proven>>

\* backup_request.sh: the marker goes first; a late one, and one that finds
\* the unit at work, is dropped.
HandleRequest ==
    /\ marker /\ marker' = FALSE
    /\ \/ making = {} /\ Run(FALSE)
       \/ UNCHANGED <<snapshots, making>>
    /\ UNCHANGED <<today, proven>>

BackupNext ==
    \/ \E cold \in BOOLEAN : TimerRun(cold)
    \/ \E r \in making, ok \in BOOLEAN : Manifest(r, ok)
    \/ Prune \/ RunDies \/ DayEnds
    \/ RequestBackupRun \/ HandleRequest

BackupSpec == BackupInit /\ [][BackupNext]_backupVars

-----------------------------------------------------------------------------
(***************************************************************************)
(* Properties.                                                             *)
(***************************************************************************)

\* Every variable keeps its type, and one run at a time has the lock.
BackupTypeOK ==
    /\ today \in 0..LastDay
    /\ snapshots \subseteq Snapshot
    /\ \A r \in making : r.of \in Snapshot /\ r.stage \in {"gather", "prune"}
    /\ Cardinality(making) <= 1
    /\ marker \in BOOLEAN
    /\ proven \in [Months -> 0..(LastDay + 1)]

(***************************************************************************)
(* A month in which a backup succeeded keeps a complete snapshot for       *)
(* MonthlyKeepDays from the first one ("pierwszy KOMPLETNY snapshot        *)
(* miesiąca trzymany 6 mies.", backup.sh:7): runs that fail, die in the    *)
(* middle or lose the lock leave directories that may not be taken for it, *)
(* and a cold copy may take over from a hot one only once it is complete.  *)
(***************************************************************************)
EveryMonthKeepsOne ==
    \A m \in Months :
        today - proven[m] \in 0..MonthlyKeepDays =>
            \E d \in snapshots : MonthOf(d.day) = m /\ d.complete

=============================================================================
