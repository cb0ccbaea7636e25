-------------------------------- MODULE Cron --------------------------------
(***************************************************************************)
(* Extensions that run on a schedule: CronScheduler                        *)
(* (extension/cron_scheduler.go), the retries of CronTrigger               *)
(* (extension/trigger_cron.go), what a reload and what the shutdown do to  *)
(* both.                                                                   *)
(*                                                                         *)
(* A key is an extension and an action. The goroutine of a job that fired  *)
(* runs the extension and deals with the result; a failed run may leave a  *)
(* goroutine that waits to run it again. One slot stands for a scheduled   *)
(* run and the retries that follow from it. What the tracker and the       *)
(* executor do with a run is in ActionTracker and ExtensionRun: here it    *)
(* ends well, it fails or times out, or it is cancelled or refused.        *)
(* Extensions have different names: jobs of the same name share a key, and *)
(* the later one registered takes the place of the earlier.                *)
(***************************************************************************)
EXTENDS Naturals, FiniteSets

CONSTANTS
    Keys,
    MaxRetries,     \* retry_on_failure.max_retries, 0 for none
    Slots,          \* bounds the scheduled runs under way with their retries
    MaxFires,       \* bound on the times the clock makes a job fire
    MaxReloads

ASSUME CronAssumption ==
    MaxRetries \in Nat /\ MaxFires \in Nat /\ MaxReloads \in Nat

VARIABLES
    entries,    \* CronScheduler.entries: the reload each job was added by
    attempts,   \* CronTrigger.retryAttempts
    gen,        \* reloads so far; each has a retryCtx and a discovery
    todo,       \* jobs registerCronJobs has yet to add
    slot,
    cron,       \* the clock: "on", "stopping" or "off"
    shut,       \* the shutdown: "up", "cron", "wait" or "exited"
    awaited,    \* the runs WaitForAllRunning found
    fires,
    due,        \* runs whose failure may be retried since the last reload
    used,       \* retries granted since
    cutShort    \* a wait of the shutdown timed out

cronVars == <<entries, attempts, gen, todo, slot, cron, shut, awaited, fires, due, used, cutShort>>

None == MaxReloads + 1
Free == [pc |-> "free"]
Busy == [pc     : {"run", "handle", "exhaust", "wait"},
         key    : Keys,
         retry  : BOOLEAN,              \* a retry, or the scheduled run
         ctx    : 0..MaxReloads,        \* the retryCtx it waits under
         failed : BOOLEAN]

Busies == {s \in Slots : slot[s].pc # "free"}
Runs == {s \in Slots : slot[s].pc = "run"}
InJob(s) == slot[s].pc \in {"run", "handle", "exhaust"} /\ ~slot[s].retry

CronTypeOK ==
    /\ entries \in [Keys -> 0..None] /\ attempts \in [Keys -> 0..MaxRetries]
    /\ gen \in 0..MaxReloads /\ todo \subseteq Keys
    /\ \A s \in Slots : slot[s] = Free \/ slot[s] \in Busy
    /\ cron \in {"on", "stopping", "off"} /\ shut \in {"up", "cron", "wait", "exited"}
    /\ awaited \subseteq Slots /\ fires \in 0..MaxFires /\ cutShort \in BOOLEAN
    /\ due \in [Keys -> Nat] /\ used \in [Keys -> Nat]
    \* the clock is stopped by the shutdown alone, and a job is of the latest reload
    /\ cron = "on" <=> shut = "up"
    /\ \A k \in Keys : entries[k] \in {gen, None}

CronInit ==
    /\ entries \in [Keys -> {0, None}]
    /\ attempts = [k \in Keys |-> 0] /\ gen = 0 /\ todo = {}
    /\ slot = [s \in Slots |-> Free]
    /\ cron = "on" /\ shut = "up" /\ awaited = {} /\ fires = 0
    /\ due = [k \in Keys |-> 0] /\ used = [k \in Keys |-> 0]
    /\ cutShort = FALSE

Set(s, v) == slot' = [slot EXCEPT ![s] = v]
Go(s, pc) == slot' = [slot EXCEPT ![s].pc = pc]

----------------------------------------------------------------------------
\* The clock fires a job in a goroutine of its own.
Fire(k, s) ==
    /\ cron = "on" /\ entries[k] # None /\ slot[s] = Free
    /\ fires < MaxFires /\ fires' = fires + 1
    /\ Set(s, [pc |-> "run", key |-> k, retry |-> FALSE, ctx |-> gen, failed |-> FALSE])
    /\ due' = [due EXCEPT ![k] = @ + 1]
    /\ UNCHANGED <<entries, attempts, gen, todo, cron, shut, awaited, used, cutShort>>

\* executeWithConcurrency returns. A result that is not a success goes to
\* HandleResult if the job has a retry configuration.
JobEnds(s) ==
    /\ slot[s].pc = "run"
    /\ \/ Set(s, Free)
       \/ /\ MaxRetries > 0
          /\ \E failed \in BOOLEAN :
               Set(s, [slot[s] EXCEPT !.pc = "handle", !.failed = failed])
    /\ awaited' = awaited \ {s}
    /\ UNCHANGED <<entries, attempts, gen, todo, cron, shut, fires, due, used, cutShort>>

\* The variant of HandleResult that counts the scheduled runs and not the retries.
HandleResultUncounted(s) ==
    LET k == slot[s].key IN
    /\ slot[s].pc = "handle"
    /\ IF slot[s].failed /\ attempts[k] < MaxRetries
       THEN /\ attempts' = [attempts EXCEPT ![k] = IF slot[s].retry THEN @ ELSE @ + 1]
            /\ used' = [used EXCEPT ![k] = @ + 1]
            /\ Set(s, [slot[s] EXCEPT !.pc = "wait", !.ctx = gen])
       ELSE /\ IF attempts[k] > 0 /\ attempts[k] >= MaxRetries THEN Go(s, "exhaust") ELSE Set(s, Free)
            /\ UNCHANGED <<attempts, used>>
    /\ UNCHANGED <<entries, gen, todo, cron, shut, awaited, fires, due, cutShort>>

\* HandleResult, ShouldRetry: the count is of the key, not of the run. A retry
\* waits under the retryCtx of the moment, whichever reload its job is of.
HandleResult(s) ==
    LET k == slot[s].key IN
    /\ slot[s].pc = "handle"
    /\ IF slot[s].failed /\ attempts[k] < MaxRetries
       THEN /\ attempts' = [attempts EXCEPT ![k] = @ + 1]
            /\ used' = [used EXCEPT ![k] = @ + 1]
            /\ Set(s, [slot[s] EXCEPT !.pc = "wait", !.ctx = gen])
       ELSE /\ IF attempts[k] > 0 /\ attempts[k] >= MaxRetries THEN Go(s, "exhaust") ELSE Set(s, Free)
            /\ UNCHANGED <<attempts, used>>
    /\ UNCHANGED <<entries, gen, todo, cron, shut, awaited, fires, due, cutShort>>

\* The lock has been released in between: others may have counted.
ForgetAttempts(s) ==
    /\ slot[s].pc = "exhaust"
    /\ attempts' = [attempts EXCEPT ![slot[s].key] = 0]
    /\ Set(s, Free)
    /\ UNCHANGED <<entries, gen, todo, cron, shut, awaited, fires, due, used, cutShort>>

\* The interval is over: executeRetry. When the retryCtx is done as well the
\* select may still take the timer, and the run is cancelled by its context.
ExecuteRetry(s) ==
    /\ slot[s].pc = "wait"
    /\ Set(s, [slot[s] EXCEPT !.pc = "run", !.retry = TRUE, !.failed = FALSE])
    /\ UNCHANGED <<entries, attempts, gen, todo, cron, shut, awaited, fires, due, used, cutShort>>

RetryDropped(s) ==
    /\ slot[s].pc = "wait" /\ slot[s].ctx < gen
    /\ Set(s, Free)
    /\ UNCHANGED <<entries, attempts, gen, todo, cron, shut, awaited, fires, due, used, cutShort>>

----------------------------------------------------------------------------
\* The variant of ClearAllJobs that removes the jobs the new discovery has.
ClearAllJobsKept ==
    /\ gen < MaxReloads /\ gen' = gen + 1 /\ todo = {}
    /\ todo' \in SUBSET Keys
    /\ entries' = [k \in Keys |-> IF k \in todo' THEN None ELSE entries[k]]
    /\ attempts' = [k \in Keys |-> 0]
    /\ used' = [k \in Keys |-> 0]
    /\ due' = [k \in Keys |-> Cardinality({s \in Busies : slot[s].key = k})]
    /\ UNCHANGED <<slot, cron, shut, awaited, fires, cutShort>>

\* applyReload: ClearAllJobs with ClearRetryState, and then AddJob for each
\* extension with a schedule. What runs goes on, and may be retried.
ClearAllJobs ==
    /\ gen < MaxReloads /\ gen' = gen + 1 /\ todo = {}
    /\ entries' = [k \in Keys |-> None]
    /\ attempts' = [k \in Keys |-> 0]
    /\ todo' \in SUBSET Keys
    /\ used' = [k \in Keys |-> 0]
    /\ due' = [k \in Keys |-> Cardinality({s \in Busies : slot[s].key = k})]
    /\ UNCHANGED <<slot, cron, shut, awaited, fires, cutShort>>

\* AddJob. An entry of the same key, a reload that came in between put it there,
\* is replaced.
AddJob(k) ==
    /\ k \in todo /\ todo' = todo \ {k}
    /\ entries' = [entries EXCEPT ![k] = gen]
    /\ UNCHANGED <<attempts, gen, slot, cron, shut, awaited, fires, due, used, cutShort>>

----------------------------------------------------------------------------
\* The shutdown: MarkDraining, which nobody looks at, and CronScheduler.Stop.
StopCron ==
    /\ shut = "up"
    /\ shut' = "cron" /\ cron' = "stopping"
    /\ UNCHANGED <<entries, attempts, gen, todo, slot, awaited, fires, due, used, cutShort>>

\* The variant of CronStopped that does not wait for the jobs that fired.
CronStoppedEarly ==
    /\ shut = "cron"
    /\ UNCHANGED cutShort
    /\ cron' = "off" /\ shut' = "wait" /\ awaited' = {}
    /\ UNCHANGED <<entries, attempts, gen, todo, slot, fires, due, used>>

\* The jobs that fired have returned, or the budget is used up. The services
\* are stopped then, and WaitForAllRunning looks for the runs there are.
CronStopped ==
    /\ shut = "cron"
    /\ \/ (\A s \in Slots : ~InJob(s)) /\ UNCHANGED cutShort
       \/ cutShort' = TRUE
    /\ cron' = "off" /\ shut' = "wait" /\ awaited' = Runs
    /\ UNCHANGED <<entries, attempts, gen, todo, slot, fires, due, used>>

Exit ==
    /\ shut = "wait"
    /\ \/ awaited = {} /\ UNCHANGED cutShort
       \/ cutShort' = TRUE
    /\ shut' = "exited"
    /\ UNCHANGED <<entries, attempts, gen, todo, slot, cron, awaited, fires, due, used>>

CronNext ==
    /\ shut # "exited"
    /\ \/ \E s \in Slots :
            \/ \E k \in Keys : Fire(k, s)
            \/ JobEnds(s) \/ HandleResult(s) \/ ForgetAttempts(s)
            \/ ExecuteRetry(s) \/ RetryDropped(s)
       \/ ClearAllJobs \/ \E k \in Keys : AddJob(k)
       \/ StopCron \/ CronStopped \/ Exit

----------------------------------------------------------------------------
\* "max_retries 用尽后不再重试" (trigger_cron.go:56) cannot be said of one run,
\* the count being that of the action: the retries of one run may use up those
\* of another, and the one that finds the count at its limit clears it for the
\* others. Of all together it holds: since the last reload an action has been
\* granted no more than max_retries for each of its runs that could fail.
RetriesAreWithinBudget ==
    \A k \in Keys : used[k] <= MaxRetries * due[k]

\* When supd exits and no wait of its shutdown was cut short, no run that the
\* schedule began goes on: the clock is stopped first, the jobs are waited for.
\* Retries are not: one may begin when everything has been waited for.
OnlyRetriesOutliveSupd ==
    shut = "exited" /\ ~cutShort => \A s \in Runs : slot[s].retry

\* What the schedule sets off stays within bounds: the retries within the
\* budget of the runs that failed, and the runs it began within supd's life.
ScheduleIsBounded == RetriesAreWithinBudget /\ OnlyRetriesOutliveSupd
=============================================================================
