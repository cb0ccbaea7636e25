------------------------------ MODULE Operations ------------------------------
(***************************************************************************)
(* An execution of an operation (extension/operation_runner.go), its runs  *)
(* as RunGateway carries them out (extension/run_gateway.go), and its rows *)
(* in the store (store/commands.go), which outlive supd: it may be killed  *)
(* at any point, and the next supd recovers what it finds.                 *)
(*                                                                         *)
(* A command of the store is a transaction of the single writer, hence one *)
(* step.  It may fail without effect; when the store closes, the caller is *)
(* told that it failed though the writer may still carry it out            *)
(* (store/writer.go).  One execution: two share nothing but the trackers   *)
(* of their actions, which are in module ActionTracker.                    *)
(***************************************************************************)
EXTENDS Integers, Sequences, FiniteSets, SequencesExt

CONSTANTS
    Runs,           \* the run ids
    Plans,          \* the snapshots the registry may give: see Plan
    Slots,          \* servicePhaseConcurrency, 4 in the code
    MaxCrashes      \* a bound for TLC

\* The runs of the global phase in their order, and those of each service in theirs.
\* Every run has an id of its own.
Plan ==
    {p \in [global : Seq(Runs), groups : Seq(Seq(Runs))] :
        \A g \in DOMAIN p.groups :
            /\ Range(p.groups[g]) \cap Range(p.global) = {}
            /\ \A h \in DOMAIN p.groups : g # h => Range(p.groups[g]) \cap Range(p.groups[h]) = {}}

ASSUME PlansAssumption == Plans \subseteq Plan
ASSUME SlotsAssumption == Slots \in Nat \ {0}
ASSUME MaxCrashesAssumption == MaxCrashes \in Nat

Runner == "runner"  \* the goroutine of runTwoPhase, beside one for each service
ASSUME RunnerAssumption == Runner \notin Runs

(* The rows. *)
VARIABLES
    execution,      \* the row of operation_execution
    finishedAt,     \* its column is not NULL
    interruptedAt,  \* the same
    row,            \* the state of each row of operation_run
    topic           \* the row of notification_topic

storeVars == <<execution, finishedAt, interruptedAt, row, topic>>

(* What supd has in memory. *)
VARIABLES
    supd,           \* the life of supd
    plan,           \* the frozen snapshot
    at,             \* where runTwoPhase is
    launched,       \* how many of the services have their goroutine
    stage,          \* how far submitOne is with each run
    inFlight        \* who had a command in the queue when the store was closed

memoryVars == <<supd, plan, at, launched, stage, inFlight>>

(* The processes of the runs, which survive supd. *)
VARIABLE process

(* History. *)
VARIABLES
    attempted,      \* the runs handed to the gateway
    lost,           \* the kinds of commands the store has refused
    crashes

vars == <<storeVars, memoryVars, process, attempted, lost, crashes>>

Terminal == {"ended", "failed"}     \* what a run reported; it was never begun
RowState == {"absent", "pending"} \cup Terminal
Stage == {"waiting", "submitted", "executing", "ended", "failed", "done"}

TypeOK ==
    /\ execution \in {"absent", "present", "deleted"}
    /\ finishedAt \in BOOLEAN
    /\ interruptedAt \in BOOLEAN
    /\ row \in [Runs -> RowState]
    /\ topic \in {"absent", "open", "closed", "deleted"}
    /\ supd \in {"down", "recovering", "serving", "closing"}
    /\ plan \in Plans
    /\ at \in {"idle", "global", "service", "finish", "close"}
    /\ launched \in 0..Len(plan.groups)
    /\ stage \in [Runs -> Stage]
    /\ inFlight \subseteq Runs \cup {Runner}
    /\ process \in [Runs -> {"none", "running", "exited"}]
    /\ attempted \subseteq Runs
    /\ lost \subseteq {"plan", "row", "end"}
    /\ crashes \in 0..MaxCrashes

Init ==
    /\ execution = "absent"
    /\ finishedAt = FALSE
    /\ interruptedAt = FALSE
    /\ row = [r \in Runs |-> "absent"]
    /\ topic = "absent"
    /\ supd = "serving"
    /\ plan \in Plans
    /\ at = "idle"
    /\ launched = 0
    /\ stage = [r \in Runs |-> "waiting"]
    /\ inFlight = {}
    /\ process = [r \in Runs |-> "none"]
    /\ attempted = {}
    /\ lost = {}
    /\ crashes = 0

-----------------------------------------------------------------------------
GlobalRuns == Range(plan.global)
ServiceRuns == UNION {Range(plan.groups[g]) : g \in DOMAIN plan.groups}

\* No run before the i-th of a sequence is still to be done.
Turn(s, i) == \A j \in 1..i - 1 : stage[s[j]] = "done"
AllDone(runs) == \A r \in runs : stage[r] = "done"

\* The services whose goroutine has a place in the semaphore.
Active == {g \in 1..launched : ~AllDone(Range(plan.groups[g]))}

-----------------------------------------------------------------------------
(* The three ways in which a command of the store comes back to its submitter. *)

Commits(who) ==
    /\ supd = "serving" \/ who \in inFlight
    /\ inFlight' = inFlight \ {who}
    /\ UNCHANGED lost

Refused(who, kind) ==
    /\ supd \in {"serving", "closing"}
    /\ inFlight' = inFlight \ {who}
    /\ lost' = lost \cup {kind}
    /\ UNCHANGED storeVars

\* The writer carries it out, and the submitter is told errStoreClosed.
CommitsUnseen(who, kind) ==
    /\ who \in inFlight
    /\ inFlight' = inFlight \ {who}
    /\ lost' = lost \cup {kind}

(* What the commands do to the rows. *)

InsertRows(runs) == row' = [r \in Runs |-> IF r \in runs THEN "pending" ELSE row[r]]

CreateExecution ==
    /\ execution = "absent"
    /\ execution' = "present"
    /\ topic' = "open"
    /\ InsertRows(GlobalRuns)
    /\ UNCHANGED <<finishedAt, interruptedAt>>

\* A row of operation_run refers to its execution.
AddPlannedRuns ==
    /\ execution = "present"
    /\ InsertRows(ServiceRuns)
    /\ UNCHANGED <<execution, finishedAt, interruptedAt, topic>>

\* allowedTransition: forward only; a row that is gone is not brought back.
UpdateRunState(r, s) ==
    /\ row' = [row EXCEPT ![r] = IF @ = "pending" THEN s ELSE @]
    /\ UNCHANGED <<execution, finishedAt, interruptedAt, topic>>

FinishExecution ==
    /\ finishedAt' = (finishedAt \/ execution = "present")
    /\ UNCHANGED <<execution, interruptedAt, row, topic>>

CloseTopic ==
    /\ topic' = IF topic = "open" THEN "closed" ELSE topic
    /\ UNCHANGED <<execution, finishedAt, interruptedAt, row>>

InterruptExecution ==
    /\ interruptedAt' = TRUE
    /\ UNCHANGED <<execution, finishedAt, row, topic>>

-----------------------------------------------------------------------------
(* StartExecution and runTwoPhase. *)

\* The place after beginExecution: with no responder there is nothing but to finish.
FirstPlace == IF plan.global = <<>> /\ plan.groups = <<>> THEN "finish" ELSE "global"

\* A bug variant of StartExecution: the API is open before the recovery is over.
StartExecutionEarly ==
    /\ at = "idle"
    /\ CreateExecution
    /\ \/ /\ supd \in {"serving", "recovering"}
          /\ at' = FirstPlace
          /\ UNCHANGED <<inFlight, lost>>
       \/ /\ CommitsUnseen(Runner, "plan")
          /\ UNCHANGED at
    /\ UNCHANGED <<supd, plan, launched, stage, process, attempted, crashes>>

\* If the creation fails the request does, and nothing has happened.
StartExecution ==
    /\ at = "idle"
    /\ CreateExecution
    /\ \/ /\ supd = "serving"
          /\ Commits(Runner)
          /\ at' = FirstPlace
       \/ /\ CommitsUnseen(Runner, "plan")
          /\ UNCHANGED at
    /\ UNCHANGED <<supd, plan, launched, stage, process, attempted, crashes>>

\* A bug variant of ServicePhaseBegins: the error is only logged.
ServicePhaseBeginsAnyway ==
    /\ at = "global"
    /\ plan.groups # <<>>
    /\ AllDone(GlobalRuns)
    /\ \/ Commits(Runner) /\ AddPlannedRuns
       \/ Refused(Runner, "plan")
    /\ at' = "service"
    /\ UNCHANGED <<supd, plan, launched, stage, process, attempted, crashes>>

\* A bug variant of ServicePhaseBegins: the first global run that fails ends the phase.
ServicePhaseBeginsOnFailure ==
    /\ at = "global"
    /\ plan.groups # <<>>
    /\ AllDone(GlobalRuns) \/ \E r \in GlobalRuns : row[r] = "failed"
    /\ Commits(Runner)
    /\ AddPlannedRuns
    /\ at' = "service"
    /\ UNCHANGED <<supd, plan, launched, stage, process, attempted, crashes>>

\* The second transaction: without the rows nothing is run.
ServicePhaseBegins ==
    /\ at = "global"
    /\ plan.groups # <<>>
    /\ AllDone(GlobalRuns)
    /\ \/ Commits(Runner) /\ AddPlannedRuns /\ at' = "service"
       \/ Refused(Runner, "plan") /\ at' = "finish"
       \/ CommitsUnseen(Runner, "plan") /\ AddPlannedRuns /\ at' = "finish"
    /\ UNCHANGED <<supd, plan, launched, stage, process, attempted, crashes>>

\* A bug variant of Launch: one place too many in the semaphore.
LaunchOneMore ==
    /\ at = "service"
    /\ launched < Len(plan.groups)
    /\ Cardinality(Active) <= Slots
    /\ launched' = launched + 1
    /\ UNCHANGED <<storeVars, supd, plan, at, stage, inFlight, process, attempted, lost, crashes>>

\* A bug variant of Launch: one goroutine too many.
LaunchPastTheEnd ==
    /\ at = "service"
    /\ launched <= Len(plan.groups)
    /\ Cardinality(Active) < Slots
    /\ launched' = launched + 1
    /\ UNCHANGED <<storeVars, supd, plan, at, stage, inFlight, process, attempted, lost, crashes>>

\* The next service gets its goroutine when there is a place in the semaphore.
Launch ==
    /\ at = "service"
    /\ launched < Len(plan.groups)
    /\ Cardinality(Active) < Slots
    /\ launched' = launched + 1
    /\ UNCHANGED <<storeVars, supd, plan, at, stage, inFlight, process, attempted, lost, crashes>>

\* A bug variant of PhasesOver: nobody waits for the goroutines of the services.
LaunchedIsOver ==
    \/ at = "finish"
    \/ at = "global" /\ plan.groups = <<>> /\ AllDone(GlobalRuns)
    \/ at = "service" /\ launched = Len(plan.groups)

PhasesOver ==
    \/ at = "finish"
    \/ at = "global" /\ plan.groups = <<>> /\ AllDone(GlobalRuns)
    \/ at = "service" /\ launched = Len(plan.groups) /\ AllDone(ServiceRuns)

Finish ==
    /\ PhasesOver
    /\ \/ Commits(Runner) /\ FinishExecution
       \/ Refused(Runner, "end")
       \/ CommitsUnseen(Runner, "end") /\ FinishExecution
    /\ at' = "close"
    /\ UNCHANGED <<supd, plan, launched, stage, process, attempted, crashes>>

Close ==
    /\ at = "close"
    /\ \/ Commits(Runner) /\ CloseTopic
       \/ Refused(Runner, "end")
       \/ CommitsUnseen(Runner, "end") /\ CloseTopic
    /\ at' = "idle"
    /\ UNCHANGED <<supd, plan, launched, stage, process, attempted, crashes>>

-----------------------------------------------------------------------------
(* submitOne and the gateway. *)

\* The goroutine that carries out the run has come to it.
IsNext(r) ==
    \/ /\ at = "global"
       /\ \E i \in DOMAIN plan.global : plan.global[i] = r /\ Turn(plan.global, i)
    \/ /\ at = "service"
       /\ \E g \in DOMAIN plan.groups : \E i \in DOMAIN plan.groups[g] :
                g <= launched /\ plan.groups[g][i] = r /\ Turn(plan.groups[g], i)

\* OnRunTerminal and SubmitRun: the callback is there before there can be a result.
Submit(r) ==
    /\ stage[r] = "waiting"
    /\ IsNext(r)
    /\ stage' = [stage EXCEPT ![r] = "submitted"]
    /\ attempted' = attempted \cup {r}
    /\ UNCHANGED <<storeVars, supd, plan, at, launched, inFlight, process, lost, crashes>>

\* Not accepted: a reload has removed the extension or the action, or Apply has failed.
\* Accepted but never executed: replaced, or its queue was full.
EndsUnexecuted(r) ==
    /\ stage[r] = "submitted"
    /\ \E s \in {"failed", "ended"} : stage' = [stage EXCEPT ![r] = s]
    /\ UNCHANGED <<storeVars, supd, plan, at, launched, inFlight, process, attempted, lost, crashes>>

Execute(r) ==
    /\ stage[r] = "submitted"
    /\ stage' = [stage EXCEPT ![r] = "executing"]
    /\ process' = [process EXCEPT ![r] = "running"]
    /\ UNCHANGED <<storeVars, supd, plan, at, launched, inFlight, attempted, lost, crashes>>

ProcessExits(r) ==
    /\ process[r] = "running"
    /\ process' = [process EXCEPT ![r] = "exited"]
    /\ UNCHANGED <<storeVars, memoryVars, attempted, lost, crashes>>

ExecuteReturns(r) ==
    /\ stage[r] = "executing"
    /\ process[r] = "exited"
    /\ stage' = [stage EXCEPT ![r] = "ended"]
    /\ UNCHANGED <<storeVars, supd, plan, at, launched, inFlight, process, attempted, lost, crashes>>

\* A bug variant of Terminates: only the callback ends the wait of submitOne.
TerminatesIfAccepted(r) ==
    /\ stage[r] = "ended"
    /\ \/ Commits(r) /\ UpdateRunState(r, stage[r])
       \/ Refused(r, "row")
    /\ stage' = [stage EXCEPT ![r] = "done"]
    /\ UNCHANGED <<supd, plan, at, launched, process, attempted, crashes>>

\* The terminal callback, or what submitOne does if the run is not accepted: an error
\* of the store is ignored.
Terminates(r) ==
    /\ stage[r] \in Terminal
    /\ \/ Commits(r) /\ UpdateRunState(r, stage[r])
       \/ Refused(r, "row")
       \/ CommitsUnseen(r, "row") /\ UpdateRunState(r, stage[r])
    /\ stage' = [stage EXCEPT ![r] = "done"]
    /\ UNCHANGED <<supd, plan, at, launched, process, attempted, crashes>>

-----------------------------------------------------------------------------
(* Requests of users, and the retention. *)

\* A record is deleted with its rows, whether or not the execution is over.
DeleteExecution ==
    /\ supd = "serving"
    /\ execution = "present"
    /\ execution' = "deleted"
    /\ row' = [r \in Runs |-> "absent"]
    /\ UNCHANGED <<finishedAt, interruptedAt, topic>>
    /\ UNCHANGED <<memoryVars, process, attempted, lost, crashes>>

DeleteTopic ==
    /\ supd = "serving"
    /\ topic \in {"open", "closed"}
    /\ topic' = "deleted"
    /\ UNCHANGED <<execution, finishedAt, interruptedAt, row>>
    /\ UNCHANGED <<memoryVars, process, attempted, lost, crashes>>

-----------------------------------------------------------------------------
(* The life of supd. *)

\* Who may have a command in the queue of the writer.
Submitting ==
    {r \in Runs : stage[r] \in Terminal} \cup
    {w \in {Runner} : \/ at = "idle" /\ execution = "absent"
                      \/ at = "global" /\ AllDone(GlobalRuns)
                      \/ at = "close"
                      \/ PhasesOver}

\* At the end of the shutdown: commands that have been queued may still be carried out.
CloseStore ==
    /\ supd = "serving"
    /\ supd' = "closing"
    /\ \E queued \in SUBSET Submitting : inFlight' = queued
    /\ UNCHANGED <<storeVars, plan, at, launched, stage, process, attempted, lost, crashes>>

\* supd ends, is killed or crashes.
Crash ==
    /\ supd # "down"
    /\ crashes < MaxCrashes
    /\ crashes' = crashes + 1
    /\ supd' = "down"
    /\ at' = "idle"
    /\ launched' = 0
    /\ stage' = [r \in Runs |-> "waiting"]
    /\ inFlight' = {}
    /\ UNCHANGED <<storeVars, plan, process, attempted, lost>>

Restart ==
    /\ supd = "down"
    /\ supd' = "recovering"
    /\ UNCHANGED <<storeVars, plan, at, launched, stage, inFlight, process, attempted, lost, crashes>>

\* A bug variant of Unfinished: an execution without a pending row is taken to be over.
UnfinishedByRows ==
    /\ execution = "present" /\ ~finishedAt /\ ~interruptedAt
    /\ \E r \in Runs : row[r] = "pending"

\* ListUnfinishedExecutions
Unfinished == execution = "present" /\ ~finishedAt /\ ~interruptedAt

\* RecoverInterruptedExecutions, before the API is opened; an error is only logged.
Recover ==
    /\ supd = "recovering"
    /\ supd' = "serving"
    /\ \/ Unfinished /\ InterruptExecution /\ UNCHANGED lost
       \/ ~Unfinished /\ UNCHANGED <<storeVars, lost>>
       \/ Unfinished /\ lost' = lost \cup {"end"} /\ UNCHANGED storeVars
    /\ UNCHANGED <<plan, at, launched, stage, inFlight, process, attempted, crashes>>

-----------------------------------------------------------------------------
RunnerStep == StartExecution \/ ServicePhaseBegins \/ Launch \/ Finish \/ Close

RunStep(r) == Submit(r) \/ EndsUnexecuted(r) \/ Execute(r) \/ ExecuteReturns(r) \/ Terminates(r)

Next ==
    \/ RunnerStep
    \/ \E r \in Runs : RunStep(r) \/ ProcessExits(r)
    \/ DeleteExecution \/ DeleteTopic
    \/ CloseStore \/ Crash \/ Restart \/ Recover

Spec == Init /\ [][Next]_vars

\* The goroutines run and a process ends (its timeout sees to that); nobody has to start an
\* execution, to delete one, to stop supd or to start it again.
Fairness ==
    /\ WF_vars(ServicePhaseBegins \/ Launch \/ Finish \/ Close)
    /\ \A r \in Runs : WF_vars(RunStep(r)) /\ WF_vars(ProcessExits(r))

FairSpec == Spec /\ Fairness

-----------------------------------------------------------------------------
(* Properties. *)

Planned == GlobalRuns \cup ServiceRuns
Running == {r \in Runs : process[r] = "running"}

\* The history does not part from what is run (operation_runner.go:247): whatever is
\* executed was written down before, and is written down unless somebody has deleted it.
RowsBeforeRuns ==
    \A r \in Runs : process[r] # "none" => execution = "deleted" \/ row[r] # "absent"

\* An execution that is recorded as finished, or whose topic is closed, is over: none of its
\* processes is alive, and all its rows are terminal but for those that could not be written.
FinishedIsFinal ==
    finishedAt \/ topic = "closed" =>
        /\ Running = {}
        /\ "row" \notin lost => \A r \in attempted : row[r] # "pending"

\* An execution ends in one way, whenever supd crashes: finished or interrupted.
EndsOnce == ~(finishedAt /\ interruptedAt)

\* Global runs one by one, then the services, no more than Slots at a time, and each of
\* them one run after the other.  A crash leaves the processes of its moment behind.
PhasesInOrder ==
    at # "idle" =>
        /\ Cardinality(Running) <= Slots
        /\ Running \cap GlobalRuns # {} => /\ Cardinality(Running) = 1
                                           /\ attempted \cap ServiceRuns = {}
        /\ \A g \in DOMAIN plan.groups :
                Cardinality(Running \cap Range(plan.groups[g])) <= 1

\* A failure stays alone: an execution that has finished has tried every run of the
\* global phase and, if its rows could be written, every run of the services.
NothingSkipped ==
    finishedAt =>
        /\ GlobalRuns \subseteq attempted
        /\ ServiceRuns \subseteq attempted \/ attempted \cap ServiceRuns = {}
        /\ \A r \in Planned : row[r] # "absent" => r \in attempted

\* An execution that the history shows as under way is under way, unless the store
\* refused to write its end: after a restart too, as soon as there is an API to ask.
OpenIsRunning ==
    supd = "serving" /\ execution = "present" /\ ~finishedAt /\ ~interruptedAt =>
        at # "idle" \/ "end" \in lost

\* However often and wherever supd crashes, recovery included, an execution has one
\* end at most, and has none only while it is under way.
EndIsRecordedTruly == EndsOnce /\ OpenIsRunning

\* Whatever fails, what is executed keeps to its place, and "finished" means that
\* all of the plan was tried, is over and is written down.
PhasesAreCarriedOut == PhasesInOrder /\ NothingSkipped /\ FinishedIsFinal

\* The runner comes to its end, whatever becomes of the runs and whatever the store refuses.
RunnersEnd == (at # "idle") ~> (at = "idle")
=============================================================================
