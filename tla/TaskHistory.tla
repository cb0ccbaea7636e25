------------------------------ MODULE TaskHistory ------------------------------
(***************************************************************************)
(* Runs on demand and the history of runs: RunExtension                    *)
(* (api/extension_provider.go) shows the run as running and starts a       *)
(* goroutine that executes it and shows its result; progress is shown in   *)
(* between (extension/task_manager.go, task_history.go). Users clear the   *)
(* history and cancel runs (api/task_provider.go). Each record that is     *)
(* written removes those that are too old, whatever their state.           *)
(***************************************************************************)
EXTENDS Naturals, FiniteSets

CONSTANTS
    RunIds,
    MaxProgress     \* bounds the progress an extension reports

ASSUME HistoryAssumption == MaxProgress \in Nat \ {0}

VARIABLES
    history,        \* TaskHistory.runs
    stage,          \* how far the goroutine of a run is
    stopped,        \* the runs whose context is cancelled
    old,            \* the runs that began before the retention
    said,           \* the progress the extension has reported
    result,         \* the result Execute returned, with the progress it had
    asked,          \* the runs whose cancellation has looked at the history
    shown           \* history: the progress a run was last shown with

historyVars == <<history, stage, stopped, old, said, result, asked, shown>>

NoRecord == [state |-> "none", progress |-> 0]
Terminal == {"success", "failed", "canceled"}
Progress == 0..MaxProgress

HistoryTypeOK ==
    /\ history \in [RunIds -> [state : {"none", "running"} \cup Terminal, progress : Progress]]
    /\ stage \in [RunIds -> {"idle", "called", "queued", "running", "ended", "merged", "over"}]
    /\ stopped \cup old \cup asked \subseteq RunIds
    /\ said \in [RunIds -> SUBSET Progress]
    /\ result \in [RunIds -> [state : {"none"} \cup Terminal, progress : Progress]]
    /\ shown \in [RunIds -> Progress]

HistoryInit ==
    /\ history = [r \in RunIds |-> NoRecord] /\ stage = [r \in RunIds |-> "idle"]
    /\ stopped = {} /\ old = {} /\ asked = {}
    /\ said = [r \in RunIds |-> {0}] /\ result = [r \in RunIds |-> NoRecord]
    /\ shown = [r \in RunIds |-> 0]

Goto(r, s) == stage' = [stage EXCEPT ![r] = s]

\* TaskHistory.Add: the record, and lazyCleanupLocked.
Add(r, rec) ==
    history' = [x \in RunIds |-> IF x \in old THEN NoRecord ELSE IF x = r THEN rec ELSE history[x]]

-----------------------------------------------------------------------------
\* RunExtension shows the run as running and answers.
RunExtension(r) ==
    /\ stage[r] = "idle" /\ Goto(r, "called")
    /\ Add(r, [state |-> "running", progress |-> 0])
    /\ UNCHANGED <<stopped, old, said, result, asked, shown>>

\* The tracker lets the run begin, has it wait or refuses it.
ExecuteOnDemand(r) ==
    /\ stage[r] = "called"
    /\ \/ \E s \in {"queued", "running"} : Goto(r, s) /\ UNCHANGED result
       \/ /\ Goto(r, "ended")
          /\ result' = [result EXCEPT ![r] = [state |-> "failed", progress |-> 0]]
    /\ UNCHANGED <<history, stopped, old, said, asked, shown>>

\* Its turn comes, or it is taken out of the queue.
Dequeue(r) ==
    /\ stage[r] = "queued"
    /\ \/ Goto(r, "running") /\ UNCHANGED result
       \/ /\ Goto(r, "ended")
          /\ result' = [result EXCEPT ![r] = [state |-> "canceled", progress |-> 0]]
    /\ UNCHANGED <<history, stopped, old, said, asked, shown>>

\* The extension reports progress, more than before; UpdateProgress shows it.
UpdateProgress(r) ==
    /\ stage[r] = "running"
    /\ \E p \in {p \in Progress : \A q \in said[r] : p > q} :
          /\ said' = [said EXCEPT ![r] = @ \cup {p}]
          /\ IF history[r] = NoRecord THEN UNCHANGED <<history, shown>>
             ELSE /\ history' = [history EXCEPT ![r].progress = p]
                  /\ shown' = [shown EXCEPT ![r] = p]
    /\ UNCHANGED <<stage, stopped, old, result, asked>>

\* Execute returns. The result has some progress that was reported: updates may have
\* been dropped on the way to it.
ExecuteReturns(r) ==
    /\ stage[r] = "running" /\ Goto(r, "ended")
    /\ \E s \in IF r \in stopped THEN {"canceled"} ELSE Terminal, p \in said[r] :
          result' = [result EXCEPT ![r] = [state |-> s, progress |-> p]]
    /\ UNCHANGED <<history, stopped, old, said, asked, shown>>

\* A bug variant: the progress of the result replaces what was shown.
MergeNothing(r) ==
    /\ stage[r] = "ended" /\ Goto(r, "merged")
    /\ UNCHANGED <<history, stopped, old, said, result, asked, shown>>

\* The goroutine looks for progress that was shown and is not in the result.
Merge(r) ==
    /\ stage[r] = "ended" /\ Goto(r, "merged")
    /\ result' = [result EXCEPT ![r].progress = IF history[r].progress > @
                                                THEN history[r].progress ELSE @]
    /\ UNCHANGED <<history, stopped, old, said, asked, shown>>

\* It shows the result.
RecordRun(r) ==
    /\ stage[r] = "merged" /\ Goto(r, "over")
    /\ Add(r, result[r])
    /\ UNCHANGED <<stopped, old, said, result, asked, shown>>

-----------------------------------------------------------------------------
\* CancelRun: the run is there and not terminal, says its record;
CancelLooks(r) ==
    /\ history[r].state = "running" /\ asked' = asked \cup {r}
    /\ UNCHANGED <<history, stage, stopped, old, said, result, shown>>

\* then a tracker has it among its runs, or the user is told it may have completed, of
\* one that waits to begin, too.
CancelRun(r) ==
    /\ r \in asked /\ asked' = asked \ {r}
    /\ stopped' = IF stage[r] = "running" THEN stopped \cup {r} ELSE stopped
    /\ UNCHANGED <<history, stage, old, said, result, shown>>

\* ClearRuns, with a filter, leaves what runs alone.
ClearRuns ==
    /\ \E c \in SUBSET {r \in RunIds : history[r].state \in Terminal} \ {{}} :
          history' = [r \in RunIds |-> IF r \in c THEN NoRecord ELSE history[r]]
    /\ UNCHANGED <<stage, stopped, old, said, result, asked, shown>>

\* Days pass.
Ages(r) ==
    /\ stage[r] # "idle" /\ old' = old \cup {r}
    /\ UNCHANGED <<history, stage, stopped, said, result, asked, shown>>

HistoryNext ==
    \/ \E r \in RunIds :
          \/ RunExtension(r) \/ ExecuteOnDemand(r) \/ Dequeue(r) \/ UpdateProgress(r) \/ ExecuteReturns(r)
          \/ Merge(r) \/ RecordRun(r) \/ CancelLooks(r) \/ CancelRun(r) \/ Ages(r)
    \/ ClearRuns

-----------------------------------------------------------------------------
\* RunExtension's goroutine, UpdateProgress, ClearRuns and lazyCleanupLocked: what the
\* history says of a run is so, whoever cleared or cleaned it in between: it is not
\* shown as running when it is over, nor as over when it is not, and a result does not
\* take back progress that was shown.
HistoryIsTrue ==
    \A r \in RunIds :
        /\ history[r].state \in Terminal <=> stage[r] = "over" /\ history[r] # NoRecord
        /\ history[r].state = "running" => stage[r] \notin {"idle", "over"}
        /\ history[r].state \in Terminal => history[r].progress >= shown[r]
=============================================================================
