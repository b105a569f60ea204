---------------------------- MODULE PanelProofs -----------------------------
(***************************************************************************)
(* Proofs about the panel's own work, for any number of actions, types,    *)
(* restarts, calls, thresholds, models and releases, and any faults: the   *)
(* actions that run builds and other jobs, the breaker that every call to  *)
(* a model passes, and the provisioning of a base. ActionInv, BreakerInv   *)
(* and ProvInv are inductive; what the model checker looks at in one       *)
(* instance follows from them.                                             *)
(***************************************************************************)
EXTENDS MCPanel, TLAPS

(***************************************************************************)
(* The actions.                                                            *)
(***************************************************************************)
USE ActionIdsAssumption, KeysAssumption, ActionFaultsAssumption

LEMMA ActionInitInv == ActionsInit => ActionInv
BY DEF ActionsInit, ActionInv, ActionsTypeOK, Statuses, Phases, Disowned, NothingHangs, Terminal, Child

-----------------------------------------------------------------------------
LEMMA ActionStartInv ==
    ASSUME ActionInv, NEW a \in ActionIds, NEW k \in Keys,
           \/ StartChild(a, k) \/ SpawnError(a, k)
           \/ StartFails(a, k) \/ StartInProcess(a, k)
    PROVE  ActionInv'
<1> USE DEF ActionInv, ActionsTypeOK, Statuses, Phases, Disowned, NothingHangs, Terminal, Child,
            Insert, MayInsert, Busy
<1>1. CASE StartChild(a, k)
  BY <1>1 DEF StartChild
<1>2. CASE SpawnError(a, k)
  BY <1>2 DEF SpawnError
<1>3. CASE StartFails(a, k)
  BY <1>3 DEF StartFails
<1>4. CASE StartInProcess(a, k)
  BY <1>4 DEF StartInProcess
<1>5. QED
  BY <1>1, <1>2, <1>3, <1>4

LEMMA ActionWorkInv ==
    ASSUME ActionInv, NEW a \in ActionIds,
           \/ WorkEnds(a) \/ ChildRecords(a) \/ ChildDies(a)
           \/ Closed(a) \/ InProcessJobEnds(a)
    PROVE  ActionInv'
<1> USE DEF ActionInv, ActionsTypeOK, Statuses, Phases, Disowned, NothingHangs, Terminal, Child,
            Terminate
<1>1. CASE WorkEnds(a)
  <2>1. \A b \in ActionIds : worker'[b] # "none" => worker[b] # "none"
    BY <1>1 DEF WorkEnds
  <2>2. \A b \in ActionIds : worker[b] # "none" => worker'[b] # "none"
    BY <1>1 DEF WorkEnds
  <2>3. \A b \in ActionIds : worker'[b] = "worked" => b \in finished'
    BY <1>1 DEF WorkEnds
  <2>4. finished \subseteq finished' /\ ActionsTypeOK'
    BY <1>1 DEF WorkEnds
  <2>5. UNCHANGED <<rowStatus, key, pids, listening, orphans>>
    BY <1>1 DEF WorkEnds
  <2>6. QED
    BY <2>1, <2>2, <2>3, <2>4, <2>5
<1>2. CASE ChildRecords(a)
  BY <1>2 DEF ChildRecords
<1>3. CASE ChildDies(a)
  <2>1. ActionsTypeOK' /\ UNCHANGED <<rowStatus, key, pids, listening, finished, orphans>>
    BY <1>3 DEF ChildDies
  <2>2. \A b \in ActionIds : worker'[b] = IF b = a THEN "none" ELSE worker[b]
    BY <1>3 DEF ChildDies
  <2>3. NothingHangs'
    BY <1>3, <2>1, <2>2 DEF ChildDies
  <2>4. QED
    BY <2>1, <2>2, <2>3
<1>4. CASE Closed(a)
  <2>1. ActionsTypeOK' /\ UNCHANGED <<key, pids, worker, finished, orphans>>
    BY <1>4 DEF Closed, FinalizeIfStillRunning
  <2>2. \A b \in ActionIds : rowStatus'[b] = IF b = a /\ rowStatus[a] = "running" THEN "error" ELSE rowStatus[b]
    BY <1>4 DEF Closed, FinalizeIfStillRunning
  <2>3. worker[a] = "none" /\ listening' = listening \ {a}
    BY <1>4 DEF Closed
  <2>4. NothingHangs'
    BY <2>1, <2>2, <2>3
  <2>5. \A b \in ActionIds : Child(b)' => b \in (listening \cup orphans)'
    BY <2>1, <2>3
  <2>6. \A b \in ActionIds : worker'[b] # "none" => rowStatus'[b] = "running" \/ Disowned(b)'
    BY <2>1, <2>2, <2>3
  <2>7. \A b \in ActionIds : /\ rowStatus'[b] = "absent" <=> rowStatus[b] = "absent"
                             /\ rowStatus'[b] = "running" => rowStatus[b] = "running"
                             /\ rowStatus'[b] = "success" => rowStatus[b] = "success"
    BY <2>2
  <2>8. \A b \in ActionIds : rowStatus'[b] = "absent" <=> key'[b] = NoKey
    BY <2>1, <2>7
  <2>9. \A b \in ActionIds : rowStatus'[b] = "absent" =>
          worker'[b] = "none" /\ b \notin (pids \cup listening)'
    BY <2>1, <2>3, <2>7
  <2>10. \A b, c \in ActionIds :
           rowStatus'[b] = "running" /\ rowStatus'[c] = "running" /\ key'[b] = key'[c] => b = c
    BY <2>1, <2>7
  <2>11. \A b \in ActionIds : worker'[b] = "worked" \/ rowStatus'[b] = "success" => b \in finished'
    BY <2>1, <2>7
  <2>12. QED
    BY <2>1, <2>4, <2>5, <2>6, <2>8, <2>9, <2>10, <2>11
<1>5. CASE InProcessJobEnds(a)
  <2>1. ActionsTypeOK' /\ UNCHANGED <<key, pids, listening, orphans>>
    BY <1>5 DEF InProcessJobEnds
  <2>2. \A b \in ActionIds : worker'[b] = IF b = a THEN "none" ELSE worker[b]
    BY <1>5 DEF InProcessJobEnds
  <2>3. /\ \A b \in ActionIds : b # a => rowStatus'[b] = rowStatus[b]
        /\ rowStatus[a] = "running" => rowStatus'[a] \in {"success", "error"}
        /\ rowStatus[a] # "running" => rowStatus'[a] = rowStatus[a]
    BY <1>5 DEF InProcessJobEnds
  <2>4. /\ finished \subseteq finished'
        /\ rowStatus[a] = "running" /\ rowStatus'[a] = "success" => a \in finished'
    BY <1>5 DEF InProcessJobEnds
  <2>5. NothingHangs'
    BY <2>1, <2>2, <2>3
  <2>6. \A b \in ActionIds : worker'[b] # "none" => rowStatus'[b] = "running" \/ Disowned(b)'
    BY <2>1, <2>2, <2>3
  <2>7. \A b \in ActionIds : worker'[b] = "worked" \/ rowStatus'[b] = "success" => b \in finished'
    BY <2>2, <2>3, <2>4
  <2>8. \A b \in ActionIds : /\ rowStatus'[b] = "absent" <=> rowStatus[b] = "absent"
                             /\ rowStatus'[b] = "running" => rowStatus[b] = "running"
    BY <2>3
  <2>9. QED
    BY <2>1, <2>2, <2>5, <2>6, <2>7, <2>8
<1>6. QED
  BY <1>1, <1>2, <1>3, <1>4, <1>5

LEMMA ActionCancelInv ==
    ASSUME ActionInv, NEW a \in ActionIds, CancelSignal(a) \/ CancelRecords(a)
    PROVE  ActionInv'
<1> USE DEF ActionInv, ActionsTypeOK, Statuses, Phases, Disowned, NothingHangs, Terminal, Child,
            Terminate
<1>1. CASE CancelSignal(a)
  BY <1>1 DEF CancelSignal
<1>2. CASE CancelRecords(a)
  BY <1>2 DEF CancelRecords, CancelAction
<1>3. QED
  BY <1>1, <1>2

LEMMA ActionRestartInv == ASSUME ActionInv, Restart PROVE ActionInv'
<1> USE DEF ActionInv, ActionsTypeOK, Statuses, Phases, Disowned, NothingHangs, Terminal, Child
<1>1. PICK kept \in Survivors, reused \in Reused :
        /\ LeavePanel(kept)
        /\ rowStatus' = OrphanSweep(kept \cup reused)
        /\ worker' = [a \in ActionIds |-> IF a \in kept THEN worker[a] ELSE "none"]
        /\ orphans' = orphans \cup kept \cup reused
        /\ UNCHANGED <<key, pids, finished>>
  BY DEF Restart
<1>2. kept \subseteq {b \in ActionIds : Child(b)} /\ reused \subseteq ActionIds
  BY DEF Survivors, Reused
<1>3. ActionsTypeOK' /\ UNCHANGED <<key, pids, finished>>
  BY <1>1, <1>2 DEF LeavePanel, OrphanSweep
<1>4. \A a \in ActionIds :
        /\ rowStatus'[a] = IF rowStatus[a] = "running" /\ a \notin pids \cap (kept \cup reused)
                        THEN "error" ELSE rowStatus[a]
        /\ worker'[a] = IF a \in kept THEN worker[a] ELSE "none"
  BY <1>1 DEF OrphanSweep
<1>5. listening' = {} /\ orphans' = orphans \cup kept \cup reused
  BY <1>1 DEF LeavePanel
<1>6. NothingHangs'
  BY <1>4, <1>5
<1>7. \A a \in ActionIds : worker'[a] # "none" => rowStatus'[a] = "running" \/ Disowned(a)'
  BY <1>2, <1>3, <1>4
<1>8. \A a \in ActionIds : Child(a)' => a \in (listening \cup orphans)'
  BY <1>4, <1>5
<1>9. \A a \in ActionIds : /\ rowStatus'[a] = "absent" <=> rowStatus[a] = "absent"
                           /\ rowStatus'[a] = "running" => rowStatus[a] = "running"
                           /\ rowStatus'[a] = "success" => rowStatus[a] = "success"
                           /\ worker'[a] # "none" => worker'[a] = worker[a]
  BY <1>4
<1>10. \A a \in ActionIds : rowStatus'[a] = "absent" <=> key'[a] = NoKey
  BY <1>3, <1>9
<1>11. \A a \in ActionIds : rowStatus'[a] = "absent" =>
         worker'[a] = "none" /\ a \notin (pids \cup listening)'
  BY <1>3, <1>5, <1>9
<1>12. \A a, b \in ActionIds :
         rowStatus'[a] = "running" /\ rowStatus'[b] = "running" /\ key'[a] = key'[b] => a = b
  BY <1>3, <1>9
<1>13. \A a \in ActionIds : worker'[a] = "worked" \/ rowStatus'[a] = "success" => a \in finished'
  BY <1>3, <1>9
<1>14. QED
  BY <1>3, <1>6, <1>7, <1>8, <1>10, <1>11, <1>12, <1>13

LEMMA RestartBeforePidInv ==
    ASSUME ActionInv, NEW a \in ActionIds, NEW k \in Keys, RestartBeforePid(a, k)
    PROVE  ActionInv'
<1> USE DEF ActionInv, ActionsTypeOK, Statuses, Phases, Disowned, NothingHangs, Terminal, Child
<1>1. PICK kept \in Survivors :
        /\ LeavePanel(kept)
        /\ rowStatus' = [OrphanSweep(kept) EXCEPT ![a] = "error"]
        /\ worker' = [b \in ActionIds |-> IF b = a THEN "working"
                                    ELSE IF b \in kept THEN worker[b] ELSE "none"]
        /\ orphans' = orphans \cup kept \cup {a}
  BY DEF RestartBeforePid
<1>2. kept \subseteq {b \in ActionIds : Child(b)}
  BY DEF Survivors
<1>3. ActionsTypeOK' /\ UNCHANGED <<pids, finished>> /\ key' = [key EXCEPT ![a] = k]
  BY <1>1, <1>2 DEF LeavePanel, OrphanSweep, RestartBeforePid
<1>4. rowStatus[a] = "absent" /\ a \notin pids /\ k \in Spawned
  BY DEF RestartBeforePid, MayInsert
<1>5. \A b \in ActionIds :
        /\ rowStatus'[b] = IF b = a \/ (rowStatus[b] = "running" /\ b \notin pids \cap kept)
                        THEN "error" ELSE rowStatus[b]
        /\ worker'[b] = IF b = a THEN "working" ELSE IF b \in kept THEN worker[b] ELSE "none"
        /\ key'[b] = IF b = a THEN k ELSE key[b]
  BY <1>1, <1>3 DEF OrphanSweep
<1>6. listening' = {} /\ orphans' = orphans \cup kept \cup {a}
  BY <1>1 DEF LeavePanel
<1>7. NothingHangs'
  BY <1>5, <1>6
<1>8. \A b \in ActionIds : worker'[b] # "none" => rowStatus'[b] = "running" \/ Disowned(b)'
  BY <1>2, <1>3, <1>4, <1>5
<1>9. \A b \in ActionIds : rowStatus'[b] = "absent" =>
        worker'[b] = "none" /\ b \notin (pids \cup listening)'
  BY <1>3, <1>5, <1>6
<1>10. \A b \in ActionIds : Child(b)' => b \in (listening \cup orphans)'
  BY <1>5, <1>6
<1>11. \A b \in ActionIds : rowStatus'[b] = "absent" <=> key'[b] = NoKey
  BY <1>4, <1>5
<1>12. \A b, c \in ActionIds :
         rowStatus'[b] = "running" /\ rowStatus'[c] = "running" /\ key'[b] = key'[c] => b = c
  BY <1>5
<1>13. \A b \in ActionIds : worker'[b] = "worked" \/ rowStatus'[b] = "success" => b \in finished'
  BY <1>3, <1>5
<1>14. QED
  BY <1>3, <1>7, <1>8, <1>9, <1>10, <1>11, <1>12, <1>13

LEMMA ActionNextInv == ActionInv /\ [ActionsNext]_actionVars => ActionInv'
<1> SUFFICES ASSUME ActionInv, [ActionsNext]_actionVars PROVE ActionInv'
  OBVIOUS
<1>1. CASE Start
  BY <1>1, ActionStartInv DEF Start
<1>2. CASE Work
  BY <1>2, ActionWorkInv DEF Work
<1>3. CASE Cancel
  BY <1>3, ActionCancelInv DEF Cancel
<1>4. CASE Restart
  BY <1>4, ActionRestartInv
<1>5. CASE \E a \in ActionIds, k \in Keys : RestartBeforePid(a, k)
  BY <1>5, RestartBeforePidInv
<1>6. CASE UNCHANGED actionVars
  BY <1>6 DEF actionVars, ActionInv, ActionsTypeOK, Disowned, NothingHangs, Child
<1>7. QED
  BY <1>1, <1>2, <1>3, <1>4, <1>5, <1>6 DEF ActionsNext

-----------------------------------------------------------------------------
(***************************************************************************)
(* The inductive invariant holds in every state.                           *)
(***************************************************************************)
THEOREM ActionInvariant == ActionsSpec => []ActionInv
BY ActionInitInv, ActionNextInv, PTL DEF ActionsSpec

(***************************************************************************)
(* Two workers of one type and resource are at work together only when one *)
(* was cancelled or lost its panel before its pid was written.             *)
(***************************************************************************)
THEOREM WorkersExclusive == ActionsSpec => []OneWorkerPerKey
<1>1. ActionInv => OneWorkerPerKey
  BY DEF ActionInv, OneWorkerPerKey, ActionsTypeOK
<1>2. QED
  BY <1>1, ActionInvariant, PTL

(***************************************************************************)
(* A running row always has somebody who will end it, or a child that      *)
(* outlived the panel.                                                     *)
(***************************************************************************)
THEOREM RunningIsOwned == ActionsSpec => []NothingHangs
<1>1. ActionInv => NothingHangs
  BY DEF ActionInv
<1>2. QED
  BY <1>1, ActionInvariant, PTL

-----------------------------------------------------------------------------
(***************************************************************************)
(* The table implements its promise.  A step of a worker, of a handler or  *)
(* of the sweep changes rows in the ways ActionTable allows; that the rows *)
(* left running have different keys is a part of ActionInv.                *)
(***************************************************************************)
LEMMA StartIsATableStep ==
    ASSUME ActionInv, ActionInv', NEW a \in ActionIds, NEW k \in Keys,
           \/ StartChild(a, k) \/ SpawnError(a, k)
           \/ StartFails(a, k) \/ StartInProcess(a, k)
    PROVE  Table!TableNext
<1>1. Insert(a, k, "running") \/ Insert(a, k, "error")
  BY DEF StartChild, SpawnError, StartFails, StartInProcess
<1>2. finished' = finished
  BY DEF StartChild, SpawnError, StartFails, StartInProcess
<1>3. Table!Appears(a)
  BY <1>1 DEF Table!Appears, Insert, MayInsert, ActionInv, ActionsTypeOK
<1>4. \A b \in ActionIds \ {a} : Table!Rests(b)
  BY <1>1 DEF Table!Rests, Insert, ActionInv, ActionsTypeOK
<1>5. \A b \in ActionIds : Table!Appears(b) => b = a
  BY <1>4 DEF Table!Rests, Table!Appears
<1>6. Table!Exclusive'
  BY DEF Table!Exclusive, ActionInv
<1> QED BY <1>2, <1>3, <1>4, <1>5, <1>6 DEF Table!TableNext

\* Steps that neither add rows nor change keys.
LEMMA EndsAreATableStep ==
    ASSUME ActionInv, ActionInv', UNCHANGED key, finished \subseteq finished',
           \A a \in finished' \ finished : rowStatus[a] # "absent",
           \A a \in ActionIds :
               rowStatus'[a] = rowStatus[a] \/ (rowStatus[a] = "running" /\ rowStatus'[a] \in Terminal)
    PROVE  Table!TableNext
<1>1. \A a \in ActionIds : Table!Rests(a) \/ Table!Concludes(a)
  BY DEF Table!Rests, Table!Concludes, Terminal, ActionInv
<1>2. \A a \in ActionIds : ~Table!Appears(a)
  BY DEF Table!Appears
<1>3. Table!Exclusive'
  BY DEF Table!Exclusive, ActionInv
<1> QED BY <1>1, <1>2, <1>3 DEF Table!TableNext

LEMMA WorkIsATableStep ==
    ASSUME ActionInv, ActionInv', Work
    PROVE  Table!TableNext
<1>1. UNCHANGED key
  BY DEF Work, WorkEnds, ChildRecords, ChildDies, Closed, InProcessJobEnds
<1>2. PICK a \in ActionIds : \/ WorkEnds(a) \/ ChildRecords(a) \/ ChildDies(a)
                            \/ Closed(a) \/ InProcessJobEnds(a)
  BY DEF Work
<1>3. finished' = finished \/ (finished' = finished \cup {a} /\ worker[a] # "none")
  BY <1>2 DEF WorkEnds, ChildRecords, ChildDies, Closed, InProcessJobEnds
<1>4. worker[a] # "none" => rowStatus[a] # "absent"
  BY DEF ActionInv
<1>5. \A b \in ActionIds : \/ rowStatus'[b] = rowStatus[b]
                           \/ rowStatus[b] = "running" /\ rowStatus'[b] \in Terminal
  BY <1>2 DEF WorkEnds, ChildRecords, ChildDies, Closed, FinalizeIfStillRunning,
              InProcessJobEnds, Terminate, Terminal, ActionInv, ActionsTypeOK
<1> QED BY <1>1, <1>3, <1>4, <1>5, EndsAreATableStep

LEMMA RestartBeforePidIsATableStep ==
    ASSUME ActionInv, ActionInv', NEW a \in ActionIds, NEW k \in Keys, RestartBeforePid(a, k)
    PROVE  Table!TableNext
<1>1. finished' = finished /\ key' = [key EXCEPT ![a] = k]
  BY DEF RestartBeforePid
<1>2. Table!Appears(a)
  BY <1>1 DEF RestartBeforePid, Table!Appears, MayInsert, OrphanSweep, ActionInv, ActionsTypeOK
<1>3. \A b \in ActionIds \ {a} : Table!Rests(b) \/ Table!Concludes(b)
  BY <1>1 DEF RestartBeforePid, Table!Rests, Table!Concludes, OrphanSweep, ActionInv, ActionsTypeOK
<1>4. \A b \in ActionIds : Table!Appears(b) => b = a
  BY <1>3 DEF Table!Rests, Table!Concludes, Table!Appears
<1>5. Table!Exclusive'
  BY DEF Table!Exclusive, ActionInv
<1> QED BY <1>1, <1>2, <1>3, <1>4, <1>5 DEF Table!TableNext

(***************************************************************************)
(* However the children, the panel and the sweep interleave, the actions   *)
(* table behaves as ActionTable says (actions-runner.ts, repos/actions.ts).*)
(***************************************************************************)
THEOREM TableIsImplemented == ActionsSpec => ImplementsTable
<1>1. ActionsInit => Table!TableInit
  BY DEF ActionsInit, Table!TableInit
<1>2. ASSUME ActionInv, ActionInv', [ActionsNext]_actionVars
      PROVE  [Table!TableNext]_Table!tableVars
  <2>1. CASE Start
    BY <1>2, <2>1, StartIsATableStep DEF Start
  <2>2. CASE Work
    BY <1>2, <2>2, WorkIsATableStep
  <2>3. CASE Cancel
    <3>1. UNCHANGED <<key, finished>>
      BY <2>3 DEF Cancel, CancelSignal, CancelRecords
    <3>2. \A b \in ActionIds : \/ rowStatus'[b] = rowStatus[b]
                               \/ rowStatus[b] = "running" /\ rowStatus'[b] \in Terminal
      BY <1>2, <2>3 DEF Cancel, CancelSignal, CancelRecords, CancelAction, Terminate, Terminal,
                        ActionInv, ActionsTypeOK
    <3> QED BY <1>2, <3>1, <3>2, EndsAreATableStep
  <2>4. CASE Restart
    <3>1. UNCHANGED <<key, finished>>
      BY <2>4 DEF Restart
    <3>2. \A b \in ActionIds : \/ rowStatus'[b] = rowStatus[b]
                               \/ rowStatus[b] = "running" /\ rowStatus'[b] \in Terminal
      BY <2>4 DEF Restart, OrphanSweep, Terminal
    <3> QED BY <1>2, <3>1, <3>2, EndsAreATableStep
  <2>5. CASE \E a \in ActionIds, k \in Keys : RestartBeforePid(a, k)
    BY <1>2, <2>5, RestartBeforePidIsATableStep
  <2>6. CASE UNCHANGED actionVars
    BY <2>6 DEF actionVars, Table!tableVars
  <2> QED
    BY <1>2, <2>1, <2>2, <2>3, <2>4, <2>5, <2>6 DEF ActionsNext
<1> QED
  BY <1>1, <1>2, ActionInvariant, PTL DEF ActionsSpec, ImplementsTable, Table!TableSpec

-----------------------------------------------------------------------------
(***************************************************************************)
(* The cooldowns.                                                          *)
(***************************************************************************)
LEMMA DoublingsType == ASSUME NEW f \in Nat PROVE Doublings(f) \in 0..30
BY BreakerAssumption DEF Doublings, Least

LEMMA CooldownBounds ==
    ASSUME NEW f \in Nat
    PROVE  /\ Cooldown(f) \in Nat
           /\ Base <= Cooldown(f) /\ Cooldown(f) <= Longest
<1> DEFINE p == 2 ^ Doublings(f)
<1>1. p \in Nat \ {0}
  BY DoublingsType, PowersAssumption
<1>2. Base \in Nat \ {0} /\ Longest \in Nat /\ Longest >= Base
  BY BreakerAssumption
<1> HIDE DEF p
<1>3. Base * p \in Nat /\ Base * p >= Base
  BY <1>1, <1>2
<1>4. Cooldown(f) = Least(Longest, Base * p)
  BY DEF Cooldown, p
<1>5. QED
  BY <1>2, <1>3, <1>4 DEF Least

\* One failure more doubles the cooldown, up to the longest.
LEMMA CooldownDoubles ==
    ASSUME NEW f \in Nat, f >= Threshold, f < Cap
    PROVE  Cooldown(f + 1) >= Least(Longest, 2 * Cooldown(f))
<1> DEFINE p == 2 ^ Doublings(f)
           q == 2 ^ Doublings(f + 1)
<1>1. p \in Nat \ {0} /\ q \in Nat \ {0}
  <2>1. Doublings(f) \in 0..30 /\ Doublings(f + 1) \in 0..30
    BY DoublingsType
  <2>2. QED
    BY <2>1, PowersAssumption
<1>2. Base \in Nat \ {0} /\ Longest \in Nat /\ Threshold \in Nat /\ Cap \in Nat
  BY BreakerAssumption
<1>3. Cooldown(f) = Least(Longest, Base * p) /\ Cooldown(f + 1) = Least(Longest, Base * q)
  BY DEF Cooldown
<1>4. CASE f - Threshold < 30
  <2>1. Doublings(f + 1) = Doublings(f) + 1 /\ Doublings(f) \in 0..29
    BY <1>2, <1>4 DEF Doublings, Least
  <2>2. q = 2 * p
    BY <2>1, PowersAssumption
  <2> HIDE DEF p, q
  <2>3. Base * q = 2 * (Base * p) /\ Base * p \in Nat
    BY <1>1, <1>2, <2>2
  <2>4. QED
    BY <1>2, <1>3, <2>3 DEF Least
<1>5. CASE f - Threshold >= 30
  <2>1. Doublings(f) = 30 /\ Doublings(f + 1) = 30 /\ Doublings(Cap) = 30
    BY <1>2, <1>5 DEF Doublings, Least
  <2>2. Cooldown(f) = Cooldown(Cap) /\ Cooldown(f + 1) = Cooldown(Cap)
    BY <2>1 DEF Cooldown
  <2>3. Cooldown(Cap) = Longest
    BY BreakerAssumption
  <2>4. QED
    BY <1>2, <2>2, <2>3 DEF Least
<1>6. QED
  BY <1>2, <1>4, <1>5

\* What counting a failure does to the cooldown.
LEMMA CountedDoubles ==
    ASSUME failures \in 0..Cap, failures >= Threshold
    PROVE  /\ Cooldown(Counted) >= Least(Longest, 2 * Cooldown(failures))
           /\ Cooldown(Counted) >= Cooldown(failures)
<1>1. failures \in Nat /\ Counted \in Nat /\ Longest \in Nat /\ Cap \in Nat
  BY BreakerAssumption DEF Counted, Least
<1>2. /\ Cooldown(failures) \in Nat /\ Cooldown(failures) <= Longest
      /\ Cooldown(Counted) \in Nat
  BY <1>1, CooldownBounds
<1>3. Cooldown(Counted) >= Least(Longest, 2 * Cooldown(failures))
  <2>1. CASE failures = Cap
    <3>1. Counted = Cap
      BY <2>1, <1>1 DEF Counted, Least
    <3>2. Cooldown(Counted) = Longest
      BY <3>1, BreakerAssumption
    <3>3. QED
      BY <3>2, <1>1, <1>2 DEF Least
  <2>2. CASE failures < Cap
    <3>1. Counted = failures + 1
      BY <2>2, <1>1 DEF Counted, Least
    <3>2. QED
      BY <3>1, <2>2, <1>1, CooldownDoubles
  <2>3. QED
    BY <2>1, <2>2, <1>1
<1>4. QED
  BY <1>1, <1>2, <1>3 DEF Least

-----------------------------------------------------------------------------
(***************************************************************************)
(* The inductive invariant.                                                *)
(***************************************************************************)
LEMMA BreakerInitInv == BreakerInit => BreakerInv
BY BreakerAssumption DEF BreakerInit, BreakerInv, BreakerTypeOK, OneProbeAtATime

LEMMA BreakerAdmitInv ==
    ASSUME BreakerInv, NEW c \in Callers, Admit(c)
    PROVE  BreakerInv'
<1> USE BreakerAssumption DEF BreakerInv, BreakerTypeOK, OneProbeAtATime
<1>1. CASE AdmitClosed(c)
  BY <1>1 DEF AdmitClosed
<1>2. CASE AdmitProbe(c)
  <2>1. \A d \in Callers : left[d] = 0
    BY <1>2 DEF AdmitProbe, MayProbe
  <2>2. BreakerTypeOK'
    BY <1>2 DEF AdmitProbe, ProbeDeadline
  <2>3. \A d \in Callers : left'[d] = IF d = c THEN Base ELSE 0
    BY <1>2, <2>1 DEF AdmitProbe
  <2>4. /\ wait' = Base /\ failures >= Threshold /\ backoff <= Cooldown(failures)
        /\ UNCHANGED <<failures, backoff>>
    BY <1>2 DEF AdmitProbe, ProbeDeadline, MayProbe
  <2>5. c \in calling'
    BY <1>2 DEF AdmitProbe
  <2>6. QED
    BY <2>2, <2>3, <2>4, <2>5
<1>3. QED
  BY <1>1, <1>2 DEF Admit

\* An answer of c: what every ending leaves of the calls and their deadlines.
LEMMA ReturnsParts ==
    ASSUME BreakerInv, NEW c \in Callers, Returns(c)
    PROVE  /\ calling' \subseteq Callers
           /\ left' \in [Callers -> 0..Base]
           /\ OneProbeAtATime'
           /\ \A d \in Callers : left'[d] > 0 => d \in calling'
           /\ \A d \in Callers : left'[d] <= left[d]
BY BreakerAssumption DEF BreakerInv, BreakerTypeOK, OneProbeAtATime, Returns

LEMMA BreakerEndsInv ==
    ASSUME BreakerInv, NEW c \in Callers, Ends(c)
    PROVE  BreakerInv'
<1>1. Returns(c)
  BY DEF Ends, Succeeds, Fails, Dies
<1>2. /\ state \in {"closed", "open", "half_open"}
      /\ failures \in 0..Cap /\ wait \in Nat /\ backoff \in Nat
      /\ left \in [Callers -> 0..Base]
      /\ state # "closed" => /\ failures >= Threshold
                             /\ \A d \in Callers : left[d] <= wait
                             /\ backoff <= Cooldown(failures)
  BY DEF BreakerInv, BreakerTypeOK
<1>3. /\ Threshold \in Nat \ {0} /\ Base \in Nat /\ Cap \in Nat /\ Cap >= Threshold
      /\ Counted \in 0..Cap /\ Cooldown(Counted) \in Nat /\ Cooldown(Counted) >= Base
      /\ Cooldown(failures) \in Nat
  <2>1. Counted \in 0..Cap
    BY <1>2, BreakerAssumption DEF Counted, Least
  <2>2. QED
    BY <1>2, <2>1, CooldownBounds, BreakerAssumption
<1>4. CASE Succeeds(c)
  BY <1>1, <1>3, <1>4, ReturnsParts DEF BreakerInv, BreakerTypeOK, Succeeds, CloseRow
<1>5. CASE Dies(c)
  <2>1. UNCHANGED <<state, failures, wait, backoff>>
    BY <1>5 DEF Dies
  <2>2. \A d \in Callers : left'[d] \in 0..Base
    BY <1>1, ReturnsParts
  <2>3. state' # "closed" => \A d \in Callers : left'[d] <= wait'
    BY <1>1, <1>2, <1>3, <2>1, <2>2, ReturnsParts
  <2>4. QED
    BY <1>1, <1>2, <2>1, <2>3, ReturnsParts DEF BreakerInv, BreakerTypeOK
<1>6. CASE Fails(c) /\ OnlyCounts
  <2>1. failures' = Counted /\ UNCHANGED <<state, wait, backoff>>
    BY <1>6 DEF Fails
  <2>2. \A d \in Callers : left'[d] \in 0..Base
    BY <1>1, ReturnsParts
  <2>3. state' # "closed" => \A d \in Callers : left'[d] <= wait'
    BY <1>1, <1>2, <1>3, <2>1, <2>2, ReturnsParts
  <2>4. state' # "closed" => failures' >= Threshold /\ backoff' <= Cooldown(failures')
    <3> SUFFICES ASSUME state # "closed"
                 PROVE  Counted >= Threshold /\ backoff <= Cooldown(Counted)
      BY <2>1
    <3>1. Counted >= Threshold
      BY <1>2, <1>3 DEF Counted, Least
    <3>2. Cooldown(Counted) >= Cooldown(failures)
      BY <1>2, CountedDoubles
    <3>3. QED
      BY <1>2, <1>3, <3>1, <3>2
  <2>5. QED
    BY <1>1, <1>2, <1>3, <2>1, <2>3, <2>4, ReturnsParts DEF BreakerInv, BreakerTypeOK
<1>7. CASE Fails(c) /\ ~OnlyCounts
  <2>1. /\ state' = "open" /\ failures' = Counted
        /\ wait' = Cooldown(Counted) /\ backoff' = Cooldown(Counted)
    BY <1>7 DEF Fails, OpenRow
  <2>2. Counted >= Threshold
    BY <1>2, <1>3, <1>7 DEF OnlyCounts, Counted, Least
  <2>3. \A d \in Callers : left'[d] \in 0..Base
    BY <1>1, ReturnsParts
  <2>4. \A d \in Callers : left'[d] <= wait'
    BY <1>3, <2>1, <2>3
  <2>5. QED
    BY <1>1, <1>3, <2>1, <2>2, <2>4, ReturnsParts DEF BreakerInv, BreakerTypeOK
<1>8. QED
  BY <1>4, <1>5, <1>6, <1>7 DEF Ends

LEMMA BreakerResetInv == ASSUME BreakerInv, Reset PROVE BreakerInv'
BY BreakerAssumption DEF BreakerInv, BreakerTypeOK, OneProbeAtATime, Reset, CloseRow

LEMMA BreakerTickInv == ASSUME BreakerInv, Tick PROVE BreakerInv'
<1> USE BreakerAssumption DEF BreakerInv, BreakerTypeOK, OneProbeAtATime, Tick, Less
<1>1. /\ UNCHANGED <<state, failures, calling, backoff>>
      /\ wait' \in Nat /\ wait' = IF wait > 0 THEN wait - 1 ELSE 0
  OBVIOUS
<1>2. \A d \in Callers : /\ left'[d] \in 0..Base
                         /\ left'[d] = IF left[d] > 0 THEN left[d] - 1 ELSE 0
  OBVIOUS
<1>3. left' \in [Callers -> 0..Base]
  OBVIOUS
<1>4. \A d \in Callers : left'[d] > 0 => left[d] > 0
  BY <1>2
<1>5. state' # "closed" => \A d \in Callers : left'[d] <= wait'
  BY <1>1, <1>2
<1>6. QED
  BY <1>1, <1>3, <1>4, <1>5

LEMMA BreakerNextInv == BreakerInv /\ [BreakerNext]_breakerVars => BreakerInv'
<1> SUFFICES ASSUME BreakerInv, [BreakerNext]_breakerVars PROVE BreakerInv'
  OBVIOUS
<1>1. CASE \E c \in Callers : Admit(c) \/ Ends(c)
  BY <1>1, BreakerAdmitInv, BreakerEndsInv
<1>2. CASE Reset
  BY <1>2, BreakerResetInv
<1>3. CASE Tick
  BY <1>3, BreakerTickInv
<1>4. CASE UNCHANGED breakerVars
  BY <1>4 DEF breakerVars, BreakerInv, BreakerTypeOK, OneProbeAtATime
<1>5. QED
  BY <1>1, <1>2, <1>3, <1>4 DEF BreakerNext

-----------------------------------------------------------------------------
(***************************************************************************)
(* The inductive invariant holds in every state.                           *)
(***************************************************************************)
THEOREM BreakerInvariant == BreakerSpec => []BreakerInv
BY BreakerInitInv, BreakerNextInv, PTL DEF BreakerSpec

(***************************************************************************)
(* At most one probe is within its deadline, whatever answers come late,   *)
(* whoever dies and however often the breaker is reset (breaker.ts:12).    *)
(***************************************************************************)
THEOREM OneProbe == BreakerSpec => []OneProbeAtATime
<1>1. BreakerInv => OneProbeAtATime
  BY DEF BreakerInv
<1>2. QED
  BY <1>1, BreakerInvariant, PTL

(***************************************************************************)
(* Every opening waits at least twice as long as the one before, up to     *)
(* maxCooldownMs, until the breaker is closed (cooldownMs).                *)
(***************************************************************************)
THEOREM BackoffGrows == BreakerSpec => BackoffDoubles
<1>1. ASSUME BreakerInv, [BreakerNext]_breakerVars, state = "half_open", state' = "open"
      PROVE  wait' >= Least(Longest, 2 * backoff)
  <2>1. /\ failures \in 0..Cap /\ failures >= Threshold
        /\ backoff \in Nat /\ backoff <= Cooldown(failures)
    BY <1>1 DEF BreakerInv, BreakerTypeOK
  <2>2. wait' = Cooldown(Counted)
    BY <1>1 DEF BreakerNext, breakerVars, Admit, AdmitClosed, AdmitProbe, Ends, Succeeds, Fails, Dies,
                CloseRow, OpenRow, OnlyCounts, Reset, Tick
  <2>3. Cooldown(Counted) >= Least(Longest, 2 * Cooldown(failures))
    BY <2>1, CountedDoubles
  <2>4. Cooldown(failures) \in Nat /\ Cooldown(Counted) \in Nat /\ Longest \in Nat
    BY <2>1, CooldownBounds, BreakerAssumption DEF Counted, Least
  <2>5. QED
    BY <2>1, <2>2, <2>3, <2>4 DEF Least
<1>2. QED
  BY <1>1, BreakerInvariant, PTL DEF BreakerSpec, BackoffDoubles

-----------------------------------------------------------------------------
(***************************************************************************)
(* The provisioning: a base has one project at the server and the registry *)
(* tells the truth about it, whatever the server loses, repeats or         *)
(* executes late.                                                          *)
(***************************************************************************)
BaseStatuses == {"absent", "draft", "provisioning", "active", "error", "archived"}
Project  == [model : Models, schema : Nat, there : BOOLEAN]

LEMMA StatusesOfBase ==
    /\ DOMAIN MayBecome = BaseStatuses
    /\ \A from \in BaseStatuses : MayBecome[from] \subseteq BaseStatuses \ {"absent"}
    /\ \A from \in BaseStatuses : "active" \in MayBecome[from] => from = "provisioning"
BY DEF MayBecome, BaseStatuses

(***************************************************************************)
(* The inductive invariant.  create_kb runs once, from the base's birth,   *)
(* and while it looks for a project there is none: so a creation, in time  *)
(* or late, makes the first.  What a job carries agrees with the server.   *)
(***************************************************************************)
ShapePart ==
    /\ kb \in [status : BaseStatuses, project : Nat, model : Models \cup {NoModel}, schema : Nat]
    /\ task \in [pc : {"none", "find", "create", "commit", "finish", "sync", "record"},
                 project : Nat, model : Models \cup {NoModel}, schema : Nat]
    /\ projects \in Seq(Project) /\ Len(projects) <= 1
    /\ wanted \in Models /\ late \in Models \cup {NoModel}
    /\ release \in Nat

\* A project is made once, for a base that is there, and a task works on one
\* that is there.
BirthPart ==
    /\ kb.status = "absent" \/ task.pc \in {"find", "create"} =>
          projects = <<>> /\ late = NoModel /\ kb.project = NoProject
    /\ kb.status = "absent" => task.pc = "none"
    /\ late # NoModel => projects = <<>>
    /\ kb.project \in {NoProject} \cup DOMAIN projects
    /\ task.pc \in {"commit", "finish", "sync", "record"} => task.project \in DOMAIN projects

\* What a task carries and the base records is what its project has.
TruthPart ==
    /\ RecordedIsSo
    /\ task.pc \in {"create", "commit", "finish"} =>
          task.model \in Models /\ kb.model \in {NoModel, task.model}
    /\ task.pc \in {"commit", "finish"} => projects[task.project].model = task.model
    /\ task.pc \in {"finish", "record"} => projects[task.project].schema >= task.schema
    /\ task.pc \in {"sync", "record"} => kb.project = task.project
    /\ task.pc = "sync" => task.schema <= release

\* The inductive invariant of provisioning.
ProvInv == ShapePart /\ BirthPart /\ TruthPart

LEMMA ProvInitially == ProvisioningInit => ProvInv
BY ProvisioningAssumption
DEF ProvisioningInit, ProvInv, ShapePart, BirthPart, TruthPart, RecordedIsSo, NoKb, NoJob,
    NoProject, BaseStatuses, Project

-----------------------------------------------------------------------------
(***************************************************************************)
(* The steps.                                                              *)
(***************************************************************************)

\* A job that ends, well or badly, leaves the server as it is.
LEMMA ThrowKeeps ==
    ASSUME ProvInv, JobThrows, UNCHANGED projects
    PROVE  ProvInv'
<1>1. /\ kb' = kb \/ (kb.status = "provisioning" /\ kb' = [kb EXCEPT !.status = "error"])
      /\ task' = NoJob /\ UNCHANGED <<wanted, late, release>>
  BY DEF JobThrows, MarksError
<1> QED
  BY <1>1 DEF ProvInv, ShapePart, BirthPart, TruthPart, RecordedIsSo, NoJob, NoProject, BaseStatuses

LEMMA RoutesKeep ==
    ASSUME ProvInv,
           \/ \E c \in BOOLEAN : PostKb(c)
           \/ \E to \in DOMAIN MayBecome : PatchKb(to)
           \/ \E m \in Models : ChooseModel(m)
           \/ PostSchemaSync
    PROVE  ProvInv'
<1>1. ASSUME NEW c \in BOOLEAN, PostKb(c) PROVE ProvInv'
  BY <1>1 DEF PostKb, ProvInv, ShapePart, BirthPart, TruthPart, RecordedIsSo, NoJob, NoProject,
              BaseStatuses
<1>2. ASSUME NEW to \in DOMAIN MayBecome, PatchKb(to) PROVE ProvInv'
  <2>1. to \in BaseStatuses \ {"absent"} /\ kb.status # "absent" /\ kb' = [kb EXCEPT !.status = to]
    BY <1>2, StatusesOfBase DEF PatchKb, ProvInv, ShapePart, MayBecome
  <2> QED
    BY <1>2, <2>1 DEF PatchKb, ProvInv, ShapePart, BirthPart, TruthPart, RecordedIsSo, NoProject
<1>3. ASSUME NEW m \in Models, ChooseModel(m) PROVE ProvInv'
  BY <1>3 DEF ChooseModel, ProvInv, ShapePart, BirthPart, TruthPart, RecordedIsSo
<1>4. CASE PostSchemaSync
  <2>1. /\ task' = [pc |-> "sync", project |-> kb.project, model |-> NoModel, schema |-> release]
        /\ kb.project # NoProject /\ UNCHANGED <<kb, wanted, projects, late, release>>
    BY <1>4 DEF PostSchemaSync, NoJob
  <2>2. kb.project \in DOMAIN projects /\ kb.project \in Nat /\ release \in Nat
    BY <2>1 DEF ProvInv, ShapePart, BirthPart
  <2>3. ShapePart'
    BY <2>1, <2>2 DEF ProvInv, ShapePart
  <2>4. BirthPart'
    BY <1>4, <2>1, <2>2 DEF ProvInv, BirthPart, PostSchemaSync
  <2>5. TruthPart'
    BY <2>1, <2>2 DEF ProvInv, TruthPart, RecordedIsSo
  <2> QED
    BY <2>3, <2>4, <2>5 DEF ProvInv
<1> QED
  BY <1>1, <1>2, <1>3, <1>4

LEMMA FindKeeps == ASSUME ProvInv, FindProject PROVE ProvInv'
<1>1. projects = <<>> /\ DOMAIN projects = {}
  BY DEF ProvInv, BirthPart, FindProject
<1>2. /\ kb.model \in {NoModel, wanted} /\ task.pc = "find" /\ UNCHANGED projects
      /\ task' = [task EXCEPT !.pc = "create", !.model = wanted, !.project = NoProject]
      /\ UNCHANGED <<kb, wanted, late, release>>
  BY <1>1 DEF FindProject, JobGoes
<1> QED
  BY <1>2 DEF ProvInv, ShapePart, BirthPart, TruthPart, RecordedIsSo, NoProject

\* The first project, and nothing recorded of it yet.
LEMMA BornKeeps ==
    ASSUME NEW m \in Models, projects = <<>>, projects' = NewProject(m)
    PROVE  /\ projects' \in Seq(Project) /\ Len(projects') = 1 /\ DOMAIN projects' = {1}
           /\ projects'[1] = [model |-> m, schema |-> 0, there |-> TRUE]
BY DEF NewProject, Project

LEMMA CreateKeeps ==
    ASSUME ProvInv, CreateProject \/ CreateIsLate PROVE ProvInv'
<1>1. /\ task.pc = "create" /\ task.model \in Models /\ projects = <<>> /\ late = NoModel
      /\ kb.project = NoProject /\ kb.status # "absent" /\ kb.model \in {NoModel, task.model}
  BY DEF ProvInv, BirthPart, TruthPart, CreateProject, CreateIsLate
<1>2. CASE CreateProject
  <2>1. projects' = NewProject(task.model)
    BY <1>2 DEF CreateProject
  <2>2. /\ projects' \in Seq(Project) /\ Len(projects') = 1 /\ DOMAIN projects' = {1}
        /\ projects'[1] = [model |-> task.model, schema |-> 0, there |-> TRUE]
    BY <1>1, <2>1, BornKeeps
  <2>3. CASE JobGoes([task EXCEPT !.pc = "commit", !.project = Len(projects) + 1])
    <3>1. task' = [task EXCEPT !.pc = "commit", !.project = 1] /\ UNCHANGED <<kb, wanted, late, release>>
      BY <1>1, <2>3 DEF JobGoes
    <3>2. /\ task'.pc = "commit" /\ task'.project = 1
          /\ task'.model = task.model /\ task'.schema = task.schema
      BY <3>1 DEF ProvInv, ShapePart
    <3>3. ShapePart'
      <4>1. task' \in [pc : {"none", "find", "create", "commit", "finish", "sync", "record"},
                       project : Nat, model : Models \cup {NoModel}, schema : Nat]
        BY <3>1 DEF ProvInv, ShapePart
      <4>2. projects' \in Seq(Project) /\ Len(projects') <= 1
        BY <2>2
      <4> QED
        BY <3>1, <4>1, <4>2 DEF ProvInv, ShapePart
    <3>4. BirthPart'
      BY <1>1, <2>2, <3>1, <3>2 DEF ProvInv, BirthPart, NoProject
    <3>5. TruthPart'
      BY <1>1, <2>2, <3>1, <3>2 DEF ProvInv, TruthPart, RecordedIsSo
    <3> QED
      BY <3>3, <3>4, <3>5 DEF ProvInv
  <2>4. CASE JobThrows
    <3>1. /\ kb' = kb \/ (kb.status = "provisioning" /\ kb' = [kb EXCEPT !.status = "error"])
          /\ task' = NoJob /\ UNCHANGED <<wanted, late, release>>
      BY <2>4 DEF JobThrows, MarksError
    <3> QED
      BY <1>1, <2>2, <3>1
      DEF ProvInv, ShapePart, BirthPart, TruthPart, RecordedIsSo, NoProject, NoJob, BaseStatuses
  <2> QED
    BY <1>2, <2>3, <2>4 DEF CreateProject, GivesUp
<1>3. CASE CreateIsLate
  <2>1. /\ kb' = kb \/ (kb.status = "provisioning" /\ kb' = [kb EXCEPT !.status = "error"])
        /\ task' = NoJob /\ late' = task.model /\ UNCHANGED <<projects, wanted, release>>
    BY <1>3 DEF CreateIsLate, MarksError
  <2> QED
    BY <1>1, <2>1
    DEF ProvInv, ShapePart, BirthPart, TruthPart, RecordedIsSo, NoProject, NoJob, BaseStatuses
<1> QED
  BY <1>2, <1>3

LEMMA LateKeeps == ASSUME ProvInv, LateCreate PROVE ProvInv'
<1>1. /\ late \in Models /\ projects = <<>> /\ kb.project = NoProject /\ kb.status # "absent"
      /\ task.pc \in {"none"}
  BY DEF ProvInv, ShapePart, BirthPart, LateCreate
<1>2. /\ projects' \in Seq(Project) /\ Len(projects') = 1 /\ DOMAIN projects' = {1}
      /\ projects'[1] = [model |-> late, schema |-> 0, there |-> TRUE]
  BY <1>1, BornKeeps DEF LateCreate
<1> QED
  BY <1>1, <1>2 DEF LateCreate, ProvInv, ShapePart, BirthPart, TruthPart, RecordedIsSo, NoProject

\* A commit raises the schema of a project to the release and changes nothing else.
LEMMA CommitRaises ==
    ASSUME ProvInv, task.project \in DOMAIN projects, projects' = Committed
    PROVE  /\ projects' \in Seq(Project) /\ Len(projects') = Len(projects)
           /\ DOMAIN projects' = DOMAIN projects
           /\ projects'[task.project].schema >= release
           /\ \A p \in DOMAIN projects : /\ projects'[p].model = projects[p].model
                                         /\ projects'[p].schema >= projects[p].schema
<1>1. \A p \in DOMAIN projects : projects[p] \in Project
  BY DEF ProvInv, ShapePart
<1>2. \A p \in DOMAIN projects :
        projects'[p] = IF p = task.project
                       THEN [projects[p] EXCEPT !.schema = IF projects[p].schema < release
                                                           THEN release ELSE projects[p].schema]
                       ELSE projects[p]
  BY DEF Committed
<1>3. \A p \in DOMAIN projects : projects'[p] \in Project
  <2> SUFFICES ASSUME NEW p \in DOMAIN projects PROVE projects'[p] \in Project
    OBVIOUS
  <2>1. release \in Nat /\ projects[p] \in Project
    BY <1>1 DEF ProvInv, ShapePart
  <2>2. projects'[p] = projects[p] \/ projects'[p] = [projects[p] EXCEPT !.schema = release]
                      \/ projects'[p] = [projects[p] EXCEPT !.schema = projects[p].schema]
    BY <1>2
  <2> QED
    BY <2>1, <2>2 DEF Project
<1>4. Len(projects') = Len(projects) /\ DOMAIN projects' = DOMAIN projects
  BY DEF Committed, ProvInv, ShapePart
<1>5. projects' \in Seq(Project)
  BY <1>3, <1>4 DEF ProvInv, ShapePart, Committed
<1> QED
  BY <1>1, <1>2, <1>4, <1>5 DEF Project, ProvInv, ShapePart

LEMMA CommitKeeps ==
    ASSUME ProvInv, CommitSchema \/ SyncCommit PROVE ProvInv'
<1>1. task.pc \in {"commit", "sync"} /\ task.project \in DOMAIN projects /\ projects' = Committed
  BY DEF CommitSchema, SyncCommit, Exists
<1>2. /\ projects' \in Seq(Project) /\ Len(projects') = Len(projects)
      /\ DOMAIN projects' = DOMAIN projects
      /\ projects'[task.project].schema >= release
      /\ \A p \in DOMAIN projects : /\ projects'[p].model = projects[p].model
                                    /\ projects'[p].schema >= projects[p].schema
  BY <1>1, CommitRaises
<1>3. \A p \in DOMAIN projects : projects[p] \in Project /\ projects'[p] \in Project
  BY <1>2 DEF ProvInv, ShapePart
<1>4. projects # <<>> /\ projects' # <<>> /\ late = NoModel /\ kb.status # "absent"
  BY <1>1, <1>2 DEF ProvInv, ShapePart, BirthPart
<1>5. RecordedIsSo' \/ kb' # kb
  <2> SUFFICES ASSUME kb' = kb, kb.project # NoProject
               PROVE  projects'[kb.project].model = kb.model /\ projects'[kb.project].schema >= kb.schema
    BY DEF RecordedIsSo
  <2>1. kb.project \in DOMAIN projects /\ kb.schema \in Nat
    BY DEF ProvInv, BirthPart, ShapePart
  <2>2. projects[kb.project].model = kb.model /\ projects[kb.project].schema >= kb.schema
    BY DEF ProvInv, TruthPart, RecordedIsSo
  <2> QED
    BY <1>2, <1>3, <2>1, <2>2 DEF Project
<1>6. CASE task.pc = "commit" /\ JobGoes([task EXCEPT !.pc = "finish", !.schema = release])
  BY <1>1, <1>2, <1>3, <1>4, <1>5, <1>6
  DEF JobGoes, ProvInv, ShapePart, BirthPart, TruthPart
<1>7. CASE task.pc = "sync" /\ JobGoes([task EXCEPT !.pc = "record"])
  BY <1>1, <1>2, <1>3, <1>4, <1>5, <1>7
  DEF JobGoes, ProvInv, ShapePart, BirthPart, TruthPart, Project
<1>8. CASE JobThrows
  <2>1. /\ kb' = kb \/ (kb.status = "provisioning" /\ kb' = [kb EXCEPT !.status = "error"])
        /\ task' = NoJob /\ UNCHANGED <<wanted, late, release>>
    BY <1>8 DEF JobThrows, MarksError
  <2>2. kb'.project = kb.project /\ kb'.model = kb.model /\ kb'.schema = kb.schema
    BY <2>1 DEF ProvInv, ShapePart
  <2>3. RecordedIsSo'
    <3>1. kb.project # NoProject =>
            /\ kb.project \in DOMAIN projects /\ kb.schema \in Nat
            /\ projects[kb.project].model = kb.model /\ projects[kb.project].schema >= kb.schema
      BY DEF ProvInv, BirthPart, ShapePart, TruthPart, RecordedIsSo
    <3> QED
      BY <1>2, <1>3, <2>2, <3>1 DEF RecordedIsSo, Project
  <2>4. ShapePart'
    BY <1>2, <2>1 DEF ProvInv, ShapePart, NoJob, NoProject, BaseStatuses
  <2>5. BirthPart'
    BY <1>2, <1>4, <2>1, <2>2 DEF ProvInv, ShapePart, BirthPart, NoJob
  <2> QED
    BY <2>1, <2>3, <2>4, <2>5 DEF ProvInv, TruthPart, NoJob
<1> QED
  BY <1>1, <1>6, <1>7, <1>8 DEF CommitSchema, SyncCommit

LEMMA FinishKeeps == ASSUME ProvInv, Finish PROVE ProvInv'
BY DEF Finish, StillProvisioning, ProvInv, ShapePart, BirthPart, TruthPart, RecordedIsSo,
       NoJob, NoProject, BaseStatuses

LEMMA RecordKeeps == ASSUME ProvInv, SyncRecord PROVE ProvInv'
BY DEF SyncRecord, ProvInv, ShapePart, BirthPart, TruthPart, RecordedIsSo, NoJob, NoProject

LEMMA RestartKeeps == ASSUME ProvInv, PanelRestarts PROVE ProvInv'
<1>1. release' \in Nat /\ task' = NoJob /\ UNCHANGED <<kb, wanted, projects, late>>
  BY ProvisioningAssumption DEF PanelRestarts, ProvInv, ShapePart
<1> QED
  BY <1>1 DEF ProvInv, ShapePart, BirthPart, TruthPart, RecordedIsSo, NoJob, NoProject

LEMMA LossKeeps ==
    ASSUME ProvInv, NEW p \in DOMAIN projects, LoseProject(p) PROVE ProvInv'
<1>1. \A q \in DOMAIN projects : projects[q] \in Project
  BY DEF ProvInv, ShapePart
<1>2. /\ projects' \in Seq(Project) /\ Len(projects') = Len(projects)
      /\ DOMAIN projects' = DOMAIN projects
      /\ \A q \in DOMAIN projects : /\ projects'[q].model = projects[q].model
                                    /\ projects'[q].schema = projects[q].schema
  <2>1. projects' = [projects EXCEPT ![p] = [projects[p] EXCEPT !.there = FALSE]]
    BY DEF LoseProject
  <2>2. [projects[p] EXCEPT !.there = FALSE] \in Project
    BY <1>1 DEF Project
  <2>3. projects \in Seq(Project)
    BY DEF ProvInv, ShapePart
  <2> QED
    BY <1>1, <2>1, <2>2, <2>3 DEF Project
<1>3. task = NoJob /\ UNCHANGED <<kb, wanted, late, release, task>>
  BY DEF LoseProject
<1> QED
  BY <1>2, <1>3 DEF ProvInv, ShapePart, BirthPart, TruthPart, RecordedIsSo, NoJob, NoProject

LEMMA ProvStep == ProvInv /\ [ProvisioningNext]_provisioningVars => ProvInv'
<1> SUFFICES ASSUME ProvInv, [ProvisioningNext]_provisioningVars PROVE ProvInv'
  OBVIOUS
<1>1. CASE \/ \E c \in BOOLEAN : PostKb(c)
           \/ \E to \in DOMAIN MayBecome : PatchKb(to)
           \/ \E m \in Models : ChooseModel(m)
           \/ PostSchemaSync
  BY <1>1, RoutesKeep
<1>2. CASE CreateStep
  BY <1>2, FindKeeps, CreateKeeps, CommitKeeps, FinishKeeps, ThrowKeeps DEF CreateStep, CreateFails
<1>3. CASE SyncStep
  BY <1>3, CommitKeeps, RecordKeeps, ThrowKeeps DEF SyncStep, SyncFails
<1>4. CASE LateCreate \/ PanelRestarts \/ \E p \in DOMAIN projects : LoseProject(p)
  BY <1>4, LateKeeps, RestartKeeps, LossKeeps
<1>5. CASE UNCHANGED provisioningVars
  BY <1>5 DEF provisioningVars, ProvInv, ShapePart, BirthPart, TruthPart, RecordedIsSo
<1> QED
  BY <1>1, <1>2, <1>3, <1>4, <1>5 DEF ProvisioningNext

LEMMA ProvInvariant == ProvisioningSpec => []ProvInv
BY ProvInitially, ProvStep, PTL DEF ProvisioningSpec

-----------------------------------------------------------------------------
(***************************************************************************)
(* Whatever the server loses, repeats or does late, and wherever the panel *)
(* dies, the namespace has at most one project.                            *)
(***************************************************************************)
THEOREM OneProject == ProvisioningSpec => []OneProjectPerBase
<1>1. ProvInv => OneProjectPerBase
  BY DEF ProvInv, ShapePart, OneProjectPerBase
<1> QED
  BY <1>1, ProvInvariant, PTL

(***************************************************************************)
(* The model and the schema that the registry records are the project's.   *)
(***************************************************************************)
THEOREM RegistryIsTrue == ProvisioningSpec => []RecordedIsSo
<1>1. ProvInv => RecordedIsSo
  BY DEF ProvInv, TruthPart
<1> QED
  BY <1>1, ProvInvariant, PTL

Respect ==
    /\ kb.status \in {"archived", "error"} /\ task.pc # "none" => kb'.status # "active"
    /\ kb.model # NoModel => kb'.model = kb.model

(***************************************************************************)
(* A job brings no base back that an admin set aside, and the frozen model *)
(* stays.                                                                  *)
(***************************************************************************)
THEOREM SetAsideStays == ProvisioningSpec => JobsRespectTheRegistry
<1>1. ASSUME ProvInv, [ProvisioningNext]_provisioningVars PROVE Respect \/ UNCHANGED provisioningVars
  <2>1. CASE kb' = kb
    BY <1>1, <2>1 DEF Respect, ProvInv, TruthPart, ShapePart
  <2>2. ASSUME NEW to \in DOMAIN MayBecome, PatchKb(to) PROVE Respect
    <3>1. kb.status \in BaseStatuses /\ to \in MayBecome[kb.status] /\ kb' = [kb EXCEPT !.status = to]
      BY <1>1, <2>2 DEF PatchKb, ProvInv, ShapePart
    <3>2. to # "active" \/ kb.status = "provisioning"
      BY <3>1, StatusesOfBase
    <3> QED
      BY <1>1, <3>1, <3>2 DEF Respect, ProvInv, ShapePart
  <2>3. CASE \E c \in BOOLEAN : PostKb(c)
    BY <1>1, <2>3 DEF Respect, PostKb, ProvInv, ShapePart
  <2>4. CASE kb.status = "provisioning" /\ kb' = [kb EXCEPT !.status = "error"]
    BY <1>1, <2>4 DEF Respect, ProvInv, ShapePart
  <2>5. CASE Finish
    BY <1>1, <2>5 DEF Respect, Finish, StillProvisioning, ProvInv, TruthPart
  <2>6. CASE SyncRecord
    BY <1>1, <2>6 DEF Respect, SyncRecord, ProvInv, ShapePart
  <2>7. JobThrows => kb' = kb \/ (kb.status = "provisioning" /\ kb' = [kb EXCEPT !.status = "error"])
    BY DEF JobThrows, MarksError
  <2>8. CreateStep \/ SyncStep => kb' = kb \/ Finish \/ SyncRecord \/ JobThrows \/ CreateIsLate
    BY DEF CreateStep, SyncStep, FindProject, CreateProject, GivesUp, CommitSchema, CreateFails,
           SyncCommit, SyncFails, JobGoes
  <2>9. CreateIsLate => kb' = kb \/ (kb.status = "provisioning" /\ kb' = [kb EXCEPT !.status = "error"])
    BY DEF CreateIsLate, MarksError
  <2>10. CASE \/ \E m \in Models : ChooseModel(m)
              \/ PostSchemaSync \/ LateCreate \/ PanelRestarts
              \/ \E p \in DOMAIN projects : LoseProject(p)
    BY <2>1, <2>10 DEF ChooseModel, PostSchemaSync, LateCreate, PanelRestarts, LoseProject
  <2> QED
    BY <1>1, <2>1, <2>2, <2>3, <2>4, <2>5, <2>6, <2>7, <2>8, <2>9, <2>10 DEF ProvisioningNext
<1>2. ProvInv /\ [ProvisioningNext]_provisioningVars => [Respect]_provisioningVars
  BY <1>1
<1> QED
  BY <1>2, ProvInvariant, PTL DEF ProvisioningSpec, JobsRespectTheRegistry, Respect

-----------------------------------------------------------------------------
(***************************************************************************)
(* The rest of the types of a base: no row and no job records a schema     *)
(* that no release rendered, and a job's project is one of the server's.   *)
(***************************************************************************)
BoundPart ==
    /\ kb.schema <= release /\ task.schema <= release
    /\ task.project \in {NoProject} \cup DOMAIN projects
    /\ Len(projects) <= MaxProjects

LEMMA BoundInitially == ProvisioningInit => BoundPart
BY ProvisioningAssumption DEF ProvisioningInit, BoundPart, NoKb, NoJob, NoProject

\* A creation finds room, and a commit or a loss changes no number of projects.
LEMMA ProjectsStayKnown ==
    ASSUME ProvInv, BoundPart, [ProvisioningNext]_provisioningVars
    PROVE  DOMAIN projects \subseteq DOMAIN projects' /\ Len(projects') <= MaxProjects
<1>1. projects \in Seq(Project) /\ Len(projects) <= 1 /\ MaxProjects \in Nat
  BY ProvisioningAssumption DEF ProvInv, ShapePart
<1>2. CASE projects' = projects
  BY <1>2 DEF BoundPart
<1>3. CASE \/ projects' = Committed
           \/ \E p \in DOMAIN projects : projects' = [projects EXCEPT ![p].there = FALSE]
  <2>1. Len(projects') = Len(projects) /\ DOMAIN projects' = DOMAIN projects
    BY <1>1, <1>3 DEF Committed
  <2> QED
    BY <2>1 DEF BoundPart
<1>4. CASE \E m : projects' = NewProject(m) /\ Len(projects) < MaxProjects
  BY <1>1, <1>4 DEF NewProject
<1>5. CASE CreateStep
  BY <1>2, <1>3, <1>4, <1>5
  DEF CreateStep, FindProject, CreateProject, CreateIsLate, CommitSchema, Finish, CreateFails
<1>6. CASE SyncStep
  BY <1>2, <1>3, <1>6 DEF SyncStep, SyncCommit, SyncRecord, SyncFails
<1>7. CASE \/ \E c \in BOOLEAN : PostKb(c)
           \/ \E to \in DOMAIN MayBecome : PatchKb(to)
           \/ \E m \in Models : ChooseModel(m)
           \/ PostSchemaSync \/ PanelRestarts \/ UNCHANGED provisioningVars
  BY <1>2, <1>7
  DEF PostKb, PatchKb, ChooseModel, PostSchemaSync, PanelRestarts, provisioningVars
<1>8. CASE LateCreate
  BY <1>4, <1>8 DEF LateCreate
<1>9. CASE \E p \in DOMAIN projects : LoseProject(p)
  BY <1>3, <1>9 DEF LoseProject
<1> QED
  BY <1>5, <1>6, <1>7, <1>8, <1>9 DEF ProvisioningNext

\* What a step makes of the job that runs.
LEMMA JobSteps ==
    ASSUME ProvInv, [ProvisioningNext]_provisioningVars
    PROVE  \/ task' = task
           \/ task'.project = NoProject /\ task'.schema = 0
           \/ task'.schema = task.schema /\ task'.pc \in {"create", "commit", "record"}
              /\ (task'.pc = "create" => task'.project = NoProject)
           \/ task'.schema = release /\ task'.pc \in {"finish", "sync"}
<1> USE DEF NoJob, JobGoes, JobThrows, NoProject
<1>0. task \in [pc : {"none", "find", "create", "commit", "finish", "sync", "record"},
                project : Nat, model : Models \cup {NoModel}, schema : Nat]
  BY DEF ProvInv, ShapePart
<1>1. CASE FindProject
  BY <1>0, <1>1 DEF FindProject
<1>2. CASE CreateProject
  <2>1. \/ task' = [task EXCEPT !.pc = "commit", !.project = Len(projects) + 1]
        \/ task' = NoJob
    BY <1>2 DEF CreateProject, GivesUp
  <2>2. ASSUME NEW n, task' = [task EXCEPT !.pc = "commit", !.project = n]
        PROVE  task'.schema = task.schema /\ task'.pc = "commit"
    BY <1>0, <2>2
  <2>3. task' # NoJob => task'.schema = task.schema /\ task'.pc = "commit"
    BY <2>1, <2>2, Zenon
  <2> QED
    BY <2>3
<1>3. CASE CreateIsLate \/ Finish \/ CreateFails \/ SyncRecord \/ SyncFails
  BY <1>3 DEF CreateIsLate, Finish, CreateFails, SyncRecord, SyncFails
<1>4. CASE CommitSchema
  <2>1. task' = [task EXCEPT !.pc = "finish", !.schema = release] \/ task' = NoJob
    BY <1>4 DEF CommitSchema
  <2>2. task' # NoJob => task'.pc = "finish"
    BY <1>0, <2>1
  <2>3. task' # NoJob => task'.schema = release
    BY <1>0, <2>1
  <2> QED
    BY <2>1, <2>2, <2>3
<1>5. CASE SyncCommit
  BY <1>0, <1>5 DEF SyncCommit
<1>6. CASE \E c \in BOOLEAN : PostKb(c)
  BY <1>6 DEF PostKb
<1>7. CASE PostSchemaSync
  BY <1>7 DEF PostSchemaSync
<1>8. CASE \/ \E to \in DOMAIN MayBecome : PatchKb(to)
           \/ \E m \in Models : ChooseModel(m)
           \/ LateCreate \/ PanelRestarts \/ \E p \in DOMAIN projects : LoseProject(p)
           \/ UNCHANGED provisioningVars
  BY <1>8 DEF PatchKb, ChooseModel, LateCreate, PanelRestarts, LoseProject, provisioningVars
<1> QED
  BY <1>1, <1>2, <1>3, <1>4, <1>5, <1>6, <1>7, <1>8 DEF ProvisioningNext, CreateStep, SyncStep

\* A version is recorded as the release it was rendered by, and releases only grow.
LEMMA SchemasAreReleased ==
    ASSUME ProvInv, BoundPart, [ProvisioningNext]_provisioningVars
    PROVE  kb'.schema <= release' /\ task'.schema <= release'
<1>1. kb.schema \in Nat /\ task.schema \in Nat /\ release \in Nat
      /\ kb.schema <= release /\ task.schema <= release
  BY DEF ProvInv, ShapePart, BoundPart
<1>2. kb' = kb \/ kb'.schema = kb.schema \/ kb'.schema = task.schema
  BY DEF ProvisioningNext, PostKb, PatchKb, ChooseModel, PostSchemaSync, CreateStep, FindProject,
         CreateProject, GivesUp, JobGoes, JobThrows, MarksError, CreateIsLate, CommitSchema, Finish,
         CreateFails, SyncStep, SyncCommit, SyncRecord, SyncFails, LateCreate, PanelRestarts,
         LoseProject, provisioningVars, ProvInv, ShapePart
<1>3. \/ task' = task \/ task'.schema = task.schema \/ task'.schema = 0
      \/ task'.schema = release
  BY JobSteps DEF ProvInv, ShapePart
<1>4. release' \in Nat /\ release <= release'
  BY <1>1, ProvisioningAssumption
  DEF ProvisioningNext, PostKb, PatchKb, ChooseModel, PostSchemaSync, CreateStep, FindProject,
         CreateProject, GivesUp, JobGoes, JobThrows, MarksError, CreateIsLate, CommitSchema, Finish,
         CreateFails, SyncStep, SyncCommit, SyncRecord, SyncFails, LateCreate, PanelRestarts,
         LoseProject, provisioningVars
<1> QED
  BY <1>1, <1>2, <1>3, <1>4

\* A job that goes on keeps its project, or takes one that it found or made.
LEMMA JobsProjectIsKnown ==
    ASSUME ProvInv, ProvInv', BoundPart, [ProvisioningNext]_provisioningVars
    PROVE  task'.project \in {NoProject} \cup DOMAIN projects'
<1>1. \/ task' = task \/ task'.project = NoProject
      \/ task'.pc \in {"commit", "finish", "sync", "record"}
  BY JobSteps DEF ProvInv, ShapePart, NoProject
<1>2. task'.pc \in {"commit", "finish", "sync", "record"} => task'.project \in DOMAIN projects'
  BY DEF ProvInv, BirthPart
<1> QED
  BY <1>1, <1>2, ProjectsStayKnown DEF BoundPart

LEMMA BoundStep ==
    ProvInv /\ ProvInv' /\ BoundPart /\ [ProvisioningNext]_provisioningVars => BoundPart'
BY ProjectsStayKnown, SchemasAreReleased, JobsProjectIsKnown DEF BoundPart

LEMMA ProvisioningTypes == ProvInv /\ BoundPart => ProvisioningTypeOK
<1> SUFFICES ASSUME ProvInv, BoundPart PROVE ProvisioningTypeOK
  OBVIOUS
<1>1. kb.schema \in Nat /\ release \in Nat /\ kb.schema <= release
  BY DEF ProvInv, ShapePart, BoundPart
<1> QED
  BY <1>1, StatusesOfBase DEF ProvInv, ShapePart, BirthPart, BoundPart, ProvisioningTypeOK

-----------------------------------------------------------------------------
(***************************************************************************)
(* The three parts side by side: whichever of them moves, all their types  *)
(* and the invariants of the actions table and of the breaker hold.        *)
(***************************************************************************)
THEOREM PanelInvariant == PanelSpec => []PanelInv
<1> DEFINE Parts3 == ActionInv /\ BreakerInv /\ ProvInv /\ BoundPart
           vars == <<part, actionVars, breakerVars, provisioningVars>>
<1>1. PanelInit => Parts3
  BY ActionInitInv, BreakerInitInv, ProvInitially, BoundInitially DEF PanelInit
<1>2. ASSUME Parts3, [PanelNext]_vars PROVE Parts3'
  <2>1. /\ [ActionsNext]_actionVars /\ [BreakerNext]_breakerVars
        /\ [ProvisioningNext]_provisioningVars
    BY <1>2 DEF PanelNext
  <2>2. ActionInv' /\ BreakerInv' /\ ProvInv'
    BY <1>2, <2>1, ActionNextInv, BreakerNextInv, ProvStep
  <2> QED
    BY <1>2, <2>1, <2>2, BoundStep
<1>3. Parts3 => PanelInv
  BY ProvisioningTypes DEF PanelInv
<1> QED
  BY <1>1, <1>2, <1>3, PTL DEF PanelSpec

=============================================================================
