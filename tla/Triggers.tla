------------------------------- MODULE Triggers -------------------------------
(***************************************************************************)
(* What runs extensions: the schedule, the phases of the services and of   *)
(* supd, and users. Where their runs meet, in the trackers and executors,  *)
(* ActionTracker and ExtensionRun model it; here they have no state in     *)
(* common, so that what holds of one with the others at rest holds of all  *)
(* together: a behaviour is one of one of them.                            *)
(***************************************************************************)
EXTENDS Cron, Dispatch, TaskHistory

VARIABLE trigger    \* which of them

vars == <<trigger, cronVars, dispatchVars, historyVars>>

Trigger == {"on_schedule", "lifecycle", "on_demand"}

TypeOK == trigger \in Trigger /\ CronTypeOK /\ DispatchTypeOK /\ HistoryTypeOK

\* Where it plays no part there are no jobs and no extensions.
Init ==
    /\ trigger \in Trigger
    /\ CronInit /\ (trigger # "on_schedule" => \A k \in Keys : entries[k] = None)
    /\ DispatchInit /\ (trigger # "lifecycle" => found = NothingFound)
    /\ HistoryInit

Next ==
    \/ trigger = "on_schedule" /\ CronNext /\ UNCHANGED <<trigger, dispatchVars, historyVars>>
    \/ trigger = "lifecycle" /\ DispatchNext /\ UNCHANGED <<trigger, cronVars, historyVars>>
    \/ trigger = "on_demand" /\ HistoryNext /\ UNCHANGED <<trigger, cronVars, dispatchVars>>

Spec == Init /\ [][Next]_vars
=============================================================================
