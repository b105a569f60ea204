----------------------------- MODULE ActionTable -----------------------------
(***************************************************************************)
(* What the actions table promises to whoever reads it, the panel's pages, *)
(* the scheduler, the next start: nothing of processes, pids and signals.  *)
(* Module Actions implements it.                                           *)
(*                                                                         *)
(* In one step at most one row appears, and any number of running rows may *)
(* end (a sweep ends all that are orphaned).                               *)
(***************************************************************************)
CONSTANTS ActionIds, Keys, NoKey

VARIABLES
    rowStatus, key,   \* the actions table
    finished          \* the actions whose work was done

tableVars == <<rowStatus, key, finished>>

TableInit ==
    /\ rowStatus = [a \in ActionIds |-> "absent"]
    /\ key = [a \in ActionIds |-> NoKey]
    /\ finished = {}

Rests(a) == rowStatus'[a] = rowStatus[a] /\ key'[a] = key[a]

\* A row appears, running or already given up, and keeps its key.
Appears(a) ==
    /\ rowStatus[a] = "absent" /\ rowStatus'[a] \in {"running", "error"}
    /\ key[a] = NoKey /\ key'[a] \in Keys

\* A row ends once, and as a success only when the work was done.
Concludes(a) ==
    /\ rowStatus[a] = "running" /\ rowStatus'[a] \in {"success", "error", "cancelled"}
    /\ rowStatus'[a] = "success" => a \in finished'
    /\ key'[a] = key[a]

\* A type and a resource have one running row.
Exclusive ==
    \A a, b \in ActionIds :
        rowStatus[a] = "running" /\ rowStatus[b] = "running" /\ key[a] = key[b] => a = b

TableNext ==
    /\ \A a \in ActionIds : Rests(a) \/ Appears(a) \/ Concludes(a)
    /\ \A a, b \in ActionIds : Appears(a) /\ Appears(b) => a = b
    /\ finished \subseteq finished'
    /\ \A a \in finished' \ finished : rowStatus[a] # "absent"
    /\ Exclusive'

TableSpec == TableInit /\ [][TableNext]_tableVars

=============================================================================
