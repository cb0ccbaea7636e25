---------------------------- MODULE ActionTracker ----------------------------
(***************************************************************************)
(* The concurrency policies of an extension's action: ActionTracker and    *)
(* the part of ConcurrencyManager that keeps the trackers of one action    *)
(* (extension/concurrency.go), with the timer of the policy debounce       *)
(* (extension/debounce.go).                                                *)
(*                                                                         *)
(* A trigger calls GetTracker and then Apply; each section under the       *)
(* tracker's mutex is one action. The execution of the task itself is in   *)
(* module ExtensionRun: here it begins and ends, at any time. The end of   *)
(* a caller's context matters only to a call that waits in the queue, where *)
(* it is CancelPending.                                                    *)
(***************************************************************************)
EXTENDS Integers, Sequences, FiniteSets, SequencesExt

CONSTANTS
    MaxTriggers,    \* the calls of Apply: bounds the run of TLC
    MaxTrackers,    \* the trackers made for the action, one after each removal: a bound too
    Policies,       \* the policies an execution of the model chooses from
    MaxQueue        \* maxSerializeQueue, 16 in the code

Policy == {"replace", "serialize", "parallel", "debounce"}

ASSUME PoliciesAssumption == Policies \subseteq Policy
ASSUME MaxQueueAssumption == MaxQueue \in Nat
ASSUME BoundsAssumption == MaxTriggers \in Nat /\ MaxTrackers \in Nat

\* The run ids and the trackers, numbered in the order in which they come to be.
Triggers == 1..MaxTriggers
Trackers == 1..MaxTrackers

NoTrigger == 0      \* a nil *debouncePendingInfo
NoTracker == 0      \* no tracker yet

VARIABLES
    policy,         \* ActionTracker.policy, the same in every tracker of the action
    made,           \* how many trackers have been made
    mapped,         \* the last of them is in ConcurrencyManager.trackers
    tracker,        \* the tracker a trigger was given
    stage,          \* how far a trigger is: see Stage
    running,        \* runningRuns of each tracker
    pending,        \* pendingRuns of each tracker
    debounced,      \* debouncePending of each tracker
    armed,          \* the timer of each tracker is set
    firing,         \* the number of its callbacks that are past the check of the epoch
    cancelled       \* the runs whose context has been cancelled

managerVars == <<policy, made, mapped, tracker>>
vars == <<managerVars, stage, running, pending, debounced, armed, firing, cancelled>>

(* History. *)
VARIABLE executions     \* how often a trigger's task was begun

\* "tracked" has a tracker, "pending" waits in a queue or for the timer, "started" is in
\* runningRuns and may wait for those it replaced, "finished" has ended and is not yet
\* out of runningRuns; "ran", "canceled" and "full" are the answers Apply returns.
Answer == {"ran", "canceled", "full"}
Stage == {"idle", "tracked", "pending", "started", "executing", "finished"} \cup Answer

TypeOK ==
    /\ policy \in Policies
    /\ made \in 0..MaxTrackers
    /\ mapped \in BOOLEAN
    /\ tracker \in [Triggers -> Trackers \cup {NoTracker}]
    /\ stage \in [Triggers -> Stage]
    /\ running \in [Trackers -> SUBSET Triggers]
    /\ pending \in [Trackers -> Seq(Triggers)]
    /\ \A k \in Trackers : Len(pending[k]) <= MaxQueue
    /\ debounced \in [Trackers -> Triggers \cup {NoTrigger}]
    /\ armed \in [Trackers -> BOOLEAN]
    /\ firing \in [Trackers -> Nat]
    /\ cancelled \subseteq Triggers
    /\ executions \in [Triggers -> Nat]

Init ==
    /\ policy \in Policies
    /\ made = 0
    /\ mapped = FALSE
    /\ tracker = [t \in Triggers |-> NoTracker]
    /\ stage = [t \in Triggers |-> "idle"]
    /\ running = [k \in Trackers |-> {}]
    /\ pending = [k \in Trackers |-> <<>>]
    /\ debounced = [k \in Trackers |-> NoTrigger]
    /\ armed = [k \in Trackers |-> FALSE]
    /\ firing = [k \in Trackers |-> 0]
    /\ cancelled = {}
    /\ executions = [t \in Triggers |-> 0]

InStage(s) == {t \in Triggers : stage[t] = s}

-----------------------------------------------------------------------------
(* The manager. *)

\* The tracker in the map, or a new one.
GetTracker(t) ==
    /\ InStage("idle") = t..MaxTriggers
    /\ mapped' = TRUE
    /\ made' = IF mapped THEN made ELSE made + 1
    /\ made' <= MaxTrackers
    /\ tracker' = [tracker EXCEPT ![t] = made']
    /\ stage' = [stage EXCEPT ![t] = "tracked"]
    /\ UNCHANGED <<policy, running, pending, debounced, armed, firing, cancelled, executions>>

\* A hot reload has removed the extension: Stop, and out of the map. The runs that
\* are being executed are left alone.
RemoveExtension ==
    /\ mapped
    /\ mapped' = FALSE
    /\ stage' = [t \in Triggers |->
                    IF stage[t] = "pending" /\ tracker[t] = made THEN "canceled" ELSE stage[t]]
    /\ pending' = [pending EXCEPT ![made] = <<>>]
    /\ debounced' = [debounced EXCEPT ![made] = NoTrigger]
    /\ armed' = [armed EXCEPT ![made] = FALSE]
    /\ UNCHANGED <<policy, made, tracker, running, firing, cancelled, executions>>

\* CancelRun finds the runs of the tracker in the map.
CancelRun(t) ==
    /\ mapped
    /\ t \in running[made]
    /\ cancelled' = cancelled \cup {t}
    /\ UNCHANGED <<managerVars, stage, running, pending, debounced, armed, firing, executions>>

-----------------------------------------------------------------------------
(* Apply. *)

\* A bug variant of ApplyReplace: the runs it takes over from are not cancelled.
ApplyReplaceUncancelled(k, t) ==
    /\ policy = "replace"
    /\ running' = [running EXCEPT ![k] = {t}]
    /\ stage' = [stage EXCEPT ![t] = "started"]
    /\ UNCHANGED <<pending, debounced, armed, cancelled>>

ApplyReplace(k, t) ==
    /\ policy = "replace"
    /\ cancelled' = cancelled \cup running[k]
    /\ running' = [running EXCEPT ![k] = {t}]
    /\ stage' = [stage EXCEPT ![t] = "started"]
    /\ UNCHANGED <<pending, debounced, armed>>

ApplyParallel(k, t) ==
    /\ policy = "parallel"
    /\ running' = [running EXCEPT ![k] = @ \cup {t}]
    /\ stage' = [stage EXCEPT ![t] = "started"]
    /\ UNCHANGED <<pending, debounced, armed, cancelled>>

(* Bug variants of SerializeEnqueues and SerializeStarts. *)

\* The limit of the queue is looked at too late by one.
SerializeEnqueuesOneMore(k, t) ==
    /\ running[k] # {}
    /\ Len(pending[k]) <= MaxQueue
    /\ pending' = [pending EXCEPT ![k] = Append(@, t)]
    /\ stage' = [stage EXCEPT ![t] = "pending"]
    /\ UNCHANGED running

\* The queue is looked at instead of the runs.
SerializeStartsIfQueueEmpty(k, t) ==
    /\ pending[k] = <<>>
    /\ running' = [running EXCEPT ![k] = @ \cup {t}]
    /\ stage' = [stage EXCEPT ![t] = "started"]
    /\ UNCHANGED pending

SerializeStarts(k, t) ==
    /\ running[k] = {}
    /\ running' = [running EXCEPT ![k] = {t}]
    /\ stage' = [stage EXCEPT ![t] = "started"]
    /\ UNCHANGED pending

SerializeEnqueues(k, t) ==
    /\ running[k] # {}
    /\ Len(pending[k]) < MaxQueue
    /\ pending' = [pending EXCEPT ![k] = Append(@, t)]
    /\ stage' = [stage EXCEPT ![t] = "pending"]
    /\ UNCHANGED running

SerializeRefuses(k, t) ==
    /\ running[k] # {}
    /\ Len(pending[k]) >= MaxQueue
    /\ stage' = [stage EXCEPT ![t] = "full"]
    /\ UNCHANGED <<pending, running>>

ApplySerialize(k, t) ==
    /\ policy = "serialize"
    /\ SerializeStarts(k, t) \/ SerializeEnqueues(k, t) \/ SerializeRefuses(k, t)
    /\ UNCHANGED <<debounced, armed, cancelled>>

\* The trigger that waited for the timer is answered, this one takes its place and
\* sets the timer anew.
ApplyDebounce(k, t) ==
    /\ policy = "debounce"
    /\ debounced' = [debounced EXCEPT ![k] = t]
    /\ armed' = [armed EXCEPT ![k] = TRUE]
    /\ stage' = [u \in Triggers |-> CASE u = t            -> "pending"
                                      [] u = debounced[k] -> "canceled"
                                      [] OTHER            -> stage[u]]
    /\ UNCHANGED <<running, pending, cancelled>>

Apply(t) ==
    /\ stage[t] = "tracked"
    /\ LET k == tracker[t]
       IN  ApplyReplace(k, t) \/ ApplySerialize(k, t) \/ ApplyParallel(k, t) \/ ApplyDebounce(k, t)
    /\ UNCHANGED <<managerVars, firing, executions>>

-----------------------------------------------------------------------------
(* The timer of debounce. *)

\* The timer expires and finds the epoch to be its own.
TimerExpires(k) ==
    /\ armed[k]
    /\ firing' = [firing EXCEPT ![k] = @ + 1]
    /\ armed' = [armed EXCEPT ![k] = FALSE]
    /\ UNCHANGED <<managerVars, stage, running, pending, debounced, cancelled, executions>>

\* A bug variant of ExecuteDebouncePending: the pending task is not taken away.
ExecuteDebouncePendingKept(k) ==
    /\ firing[k] > 0
    /\ firing' = [firing EXCEPT ![k] = @ - 1]
    /\ debounced[k] # NoTrigger
    /\ cancelled' = cancelled \cup running[k]
    /\ running' = [running EXCEPT ![k] = {debounced[k]}]
    /\ stage' = [stage EXCEPT ![debounced[k]] = "started"]
    /\ UNCHANGED <<managerVars, pending, debounced, armed, executions>>

\* The callback takes whatever task is pending when it has the mutex.
ExecuteDebouncePending(k) ==
    /\ firing[k] > 0
    /\ firing' = [firing EXCEPT ![k] = @ - 1]
    /\ \/ /\ debounced[k] # NoTrigger
          /\ debounced' = [debounced EXCEPT ![k] = NoTrigger]
          /\ cancelled' = cancelled \cup running[k]
          /\ running' = [running EXCEPT ![k] = {debounced[k]}]
          /\ stage' = [stage EXCEPT ![debounced[k]] = "started"]
       \/ /\ debounced[k] = NoTrigger
          /\ UNCHANGED <<debounced, cancelled, running, stage>>
    /\ UNCHANGED <<managerVars, pending, armed, executions>>

-----------------------------------------------------------------------------
(* The task. *)

\* The runs it took over from have ended, or the five seconds of waiting have.
Execute(t) ==
    /\ stage[t] = "started"
    /\ stage' = [stage EXCEPT ![t] = "executing"]
    /\ executions' = [executions EXCEPT ![t] = @ + 1]
    /\ UNCHANGED <<managerVars, running, pending, debounced, armed, firing, cancelled>>

\* execute returns and the run is marked done.
Finish(t) ==
    /\ stage[t] = "executing"
    /\ stage' = [stage EXCEPT ![t] = "finished"]
    /\ UNCHANGED <<managerVars, running, pending, debounced, armed, firing, cancelled, executions>>

\* startPendingRunLocked is given the runs that are left.
StartPending(k, left, t) ==
    IF policy = "serialize" /\ pending[k] # <<>> /\ left = {}
    THEN /\ pending' = [pending EXCEPT ![k] = Tail(@)]
         /\ running' = [running EXCEPT ![k] = {Head(pending[k])}]
         /\ stage' = [stage EXCEPT ![t] = "ran", ![Head(pending[k])] = "started"]
    ELSE /\ running' = [running EXCEPT ![k] = left]
         /\ stage' = [stage EXCEPT ![t] = "ran"]
         /\ UNCHANGED pending

(* Bug variants of Cleanup. *)

\* The map is emptied instead of the run's own entry being deleted.
CleanupAll(t) ==
    /\ stage[t] = "finished"
    /\ StartPending(tracker[t], {}, t)
    /\ cancelled' = cancelled \ {t}
    /\ UNCHANGED <<managerVars, debounced, armed, firing, executions>>

\* Nobody looks at the queue.
CleanupOnly(t) ==
    /\ stage[t] = "finished"
    /\ running' = [running EXCEPT ![tracker[t]] = @ \ {t}]
    /\ stage' = [stage EXCEPT ![t] = "ran"]
    /\ cancelled' = cancelled \ {t}
    /\ UNCHANGED <<managerVars, pending, debounced, armed, firing, executions>>

\* The newest of the queue is started instead of the oldest.
CleanupStartsNewest(t) ==
    LET k == tracker[t]
        newest == pending[k][Len(pending[k])]
    IN  /\ stage[t] = "finished"
        /\ running' = [running EXCEPT ![k] = (@ \ {t}) \cup
                            (IF pending[k] = <<>> THEN {} ELSE {newest})]
        /\ stage' = [u \in Triggers |-> CASE u = t -> "ran"
                                          [] pending[k] # <<>> /\ u = newest -> "started"
                                          [] OTHER -> stage[u]]
        /\ pending' = [pending EXCEPT ![k] = IF @ = <<>> THEN @ ELSE Front(@)]
    /\ cancelled' = cancelled \ {t}
    /\ UNCHANGED <<managerVars, debounced, armed, firing, executions>>

\* The run leaves runningRuns, the next of the queue is started and Apply returns.
Cleanup(t) ==
    /\ stage[t] = "finished"
    /\ StartPending(tracker[t], running[tracker[t]] \ {t}, t)
    /\ cancelled' = cancelled \ {t}
    /\ UNCHANGED <<managerVars, debounced, armed, firing, executions>>

\* The caller's context ends while its call is in the queue.
CancelPending(t) ==
    /\ policy = "serialize"
    /\ stage[t] = "pending"
    /\ \E i \in DOMAIN pending[tracker[t]] :
          /\ pending[tracker[t]][i] = t
          /\ pending' = [pending EXCEPT ![tracker[t]] = RemoveAt(@, i)]
    /\ stage' = [stage EXCEPT ![t] = "canceled"]
    /\ UNCHANGED <<managerVars, running, debounced, armed, firing, cancelled, executions>>

-----------------------------------------------------------------------------
Next ==
    \/ \E t \in Triggers :
        \/ GetTracker(t) \/ Apply(t) \/ CancelRun(t)
        \/ Execute(t) \/ Finish(t) \/ Cleanup(t) \/ CancelPending(t)
    \/ \E k \in Trackers :
        TimerExpires(k) \/ ExecuteDebouncePending(k)
    \/ RemoveExtension

Spec == Init /\ [][Next]_<<vars, executions>>

\* The goroutines of the callers and of the timers run, a task ends (module ExtensionRun:
\* its timeout and the hard limit see to that), and timers expire. Nothing makes a caller
\* trigger an action, give up or remove an extension.
Fairness ==
    /\ \A t \in Triggers : WF_vars(Apply(t) \/ Execute(t) \/ Finish(t) \/ Cleanup(t))
    /\ \A k \in Trackers : WF_vars(TimerExpires(k) \/ ExecuteDebouncePending(k))

FairSpec == Spec /\ Fairness

-----------------------------------------------------------------------------
InProgress(k) == {t \in Triggers : tracker[t] = k /\ stage[t] \in {"started", "executing"}}

\* serialize: "the next task is run when the one before it has ended": of the triggers
\* given the same tracker at most one is in progress.
Serialized ==
    policy = "serialize" =>
        \A k \in Trackers : \A t, u \in InProgress(k) : t = u

\* serialize is what its documentation promises: a line that is served from the head.
LineOf(k) ==
    IF policy = "serialize" THEN SetToSeq(running[k]) \o pending[k] ELSE <<>>

Lines == INSTANCE SerialLines WITH
    Lines  <- Trackers,
    line   <- [k \in Trackers |-> LineOf(k)],
    served <- IF policy = "serialize" THEN InStage("ran") ELSE {}

ServedInLine == Lines!Spec

\* replace and debounce: "cancel the task before, start the new one": of the runs of
\* one tracker all but one have been cancelled, at any moment of any replacement.
LatestWins ==
    policy \in {"replace", "debounce"} =>
        \A k \in Trackers : \A t, u \in InProgress(k) \ cancelled : t = u

\* A run in progress that nobody has cancelled is one that CancelRun finds, as long as
\* the extension is there: no cleanup of another run and no replacement hides it.
RunsAreReachable ==
    \A k \in Trackers : InProgress(k) \ cancelled \subseteq running[k]

\* What is in progress under one tracker: one run under serialize, one that is not
\* cancelled under replace and debounce, and none that CancelRun does not find,
\* whichever run ends, is replaced, gives up or is removed in the meantime.
RunsAreInHand == Serialized /\ LatestWins /\ RunsAreReachable

\* A trigger whose answer is its result was executed once, one that was turned away or
\* superseded was not, whatever the timer, the queue and a removal do at the same time.
ExecutedAsAnswered ==
    \A t \in Triggers :
        executions[t] = IF stage[t] \in {"executing", "finished", "ran"} THEN 1 ELSE 0

\* Every call of Apply returns: nothing is forgotten in a queue or behind a timer.
CallsReturn ==
    \A t \in Triggers : stage[t] = "tracked" ~> stage[t] \in Answer

=============================================================================
