--------------------------- MODULE OperationsProofs ---------------------------
(***************************************************************************)
(* What the history tells about executions, proved for every set of runs   *)
(* and plans and for any number of crashes.                                *)
(***************************************************************************)
EXTENDS Operations, TLAPS, FiniteSetTheorems

\* A runner is at work in one life of supd, on an execution that nobody has marked as
\* interrupted, and before it closes the topic it has recorded the end or failed to.
RunnerInv ==
    /\ execution \in {"absent", "present", "deleted"}
    /\ finishedAt \in BOOLEAN
    /\ interruptedAt \in BOOLEAN
    /\ execution = "absent" => ~finishedAt /\ ~interruptedAt
    /\ at # "idle" => supd \in {"serving", "closing"} /\ ~interruptedAt
    /\ at = "close" => finishedAt \/ "end" \in lost \/ execution # "present"
    /\ inFlight # {} => supd = "closing"

RecordInv == RunnerInv /\ EndsOnce /\ OpenIsRunning

LEMMA RecordInit == Init => RecordInv
BY DEF Init, RecordInv, RunnerInv, EndsOnce, OpenIsRunning

LEMMA RecordNext == RecordInv /\ [Next]_vars => RecordInv'
<1> SUFFICES ASSUME RecordInv, [Next]_vars PROVE RecordInv'
  OBVIOUS
<1> USE DEF RecordInv, RunnerInv, EndsOnce, OpenIsRunning
<1>1. CASE StartExecution
  BY <1>1 DEF StartExecution, CreateExecution, Commits, CommitsUnseen, FirstPlace
<1>2. CASE ServicePhaseBegins
  BY <1>2 DEF ServicePhaseBegins, AddPlannedRuns, Commits, CommitsUnseen, Refused, storeVars
<1>3. CASE Launch
  BY <1>3 DEF Launch, storeVars
<1>4. CASE Finish
  <2>1. at # "idle" /\ at' = "close" /\ UNCHANGED supd
    BY <1>4 DEF Finish, PhasesOver
  <2>2. CASE FinishExecution
    <3>1. finishedAt' \in BOOLEAN /\ (execution = "present" => finishedAt')
      BY <2>2, Zenon DEF FinishExecution
    <3>2. UNCHANGED <<execution, interruptedAt>> /\ (finishedAt' => finishedAt \/ execution =
                      "present")
      BY <2>2, Zenon DEF FinishExecution
    <3>3. inFlight' \subseteq inFlight
      BY <1>4 DEF Finish, Commits, CommitsUnseen, Refused
    <3> QED
      BY <2>1, <3>1, <3>2, <3>3
  <2>3. CASE Refused(Runner, "end")
    BY <2>1, <2>3 DEF Refused, storeVars
  <2> QED
    BY <1>4, <2>2, <2>3 DEF Finish
<1>5. CASE Close
  BY <1>5 DEF Close, CloseTopic, Commits, CommitsUnseen, Refused, storeVars
<1>6. ASSUME NEW r \in Runs, RunStep(r) \/ ProcessExits(r) PROVE RecordInv'
  BY <1>6 DEF RunStep, Submit, EndsUnexecuted, Execute, ExecuteReturns, Terminates,
              UpdateRunState, Commits, CommitsUnseen, Refused, ProcessExits,
              storeVars, memoryVars
<1>7. CASE DeleteExecution \/ DeleteTopic
  BY <1>7 DEF DeleteExecution, DeleteTopic, memoryVars
<1>8. CASE CloseStore \/ Crash \/ Restart
  BY <1>8 DEF CloseStore, Crash, Restart, storeVars
<1>9. CASE Recover
  <2>1. /\ at = "idle" /\ at' = at
        /\ inFlight = {} /\ inFlight' = inFlight
        /\ supd' = "serving"
    BY <1>9 DEF Recover
  <2>2. CASE Unfinished /\ InterruptExecution
    BY <2>1, <2>2 DEF Unfinished, InterruptExecution
  <2>3. CASE ~Unfinished /\ UNCHANGED <<storeVars, lost>>
    BY <2>1, <2>3 DEF Unfinished, storeVars
  <2>4. CASE "end" \in lost' /\ UNCHANGED storeVars
    BY <2>1, <2>4 DEF storeVars
  <2> QED
    BY <1>9, <2>2, <2>3, <2>4 DEF Recover
<1>10. CASE UNCHANGED vars
  BY <1>10 DEF vars, storeVars, memoryVars
<1> QED
  BY <1>1, <1>2, <1>3, <1>4, <1>5, <1>6, <1>7, <1>8, <1>9, <1>10 DEF Next, RunnerStep

\* An execution is recorded as finished or as interrupted but never as both, and one that is
\* recorded as neither is under way, unless the store refused to write its end.
THEOREM RecordsAreTrue == Spec => []EndIsRecordedTruly
<1>1. RecordInv => EndIsRecordedTruly
  BY DEF RecordInv, EndIsRecordedTruly
<1> QED
  BY RecordInit, RecordNext, <1>1, PTL DEF Spec

-----------------------------------------------------------------------------
\* The row of a run has been written, and is still there unless somebody has deleted it.
Written(r) == execution = "deleted" \/ row[r] # "absent"

\* A phase begins when the rows of its runs are written.
WrittenInv ==
    /\ row \in [Runs -> RowState]
    /\ at \in {"global", "service"} => \A r \in Runs \cap GlobalRuns : Written(r)
    /\ at = "service" => \A r \in Runs \cap ServiceRuns : Written(r)
    /\ \A r \in Runs : stage[r] = "submitted" => Written(r)

StageType == stage \in [Runs -> Stage]
ProcessType == process \in [Runs -> {"none", "running", "exited"}]

HistoryInv == StageType /\ ProcessType /\ WrittenInv /\ RowsBeforeRuns

LEMMA HistoryInit == Init => HistoryInv
BY DEF Init, HistoryInv, StageType, ProcessType, WrittenInv, RowsBeforeRuns, Stage, RowState,
       Terminal

\* Rows go only with their execution, and a deleted execution does not come back.
LEMMA RowsStay ==
    ASSUME HistoryInv, [Next]_vars
    PROVE  /\ row' \in [Runs -> RowState]
           /\ \A r \in Runs : Written(r) => Written(r)'
<1> USE DEF HistoryInv, WrittenInv, Written
<1>1. CASE StartExecution
  BY <1>1 DEF StartExecution, CreateExecution, InsertRows, RowState
<1>2. CASE ServicePhaseBegins
  BY <1>2 DEF ServicePhaseBegins, AddPlannedRuns, InsertRows, Refused, RowState, storeVars
<1>3. CASE Launch \/ Finish \/ Close
  BY <1>3 DEF Launch, Finish, Close, FinishExecution, CloseTopic, Refused, storeVars
<1>4. ASSUME NEW r \in Runs, Terminates(r)
      PROVE  /\ row' \in [Runs -> RowState]
             /\ \A s \in Runs : Written(s) => Written(s)'
  BY <1>4 DEF Terminates, UpdateRunState, Refused, RowState, Terminal, storeVars
<1>5. ASSUME NEW r \in Runs,
             Submit(r) \/ EndsUnexecuted(r) \/ Execute(r) \/ ExecuteReturns(r) \/ ProcessExits(r)
      PROVE  UNCHANGED storeVars
  BY <1>5 DEF Submit, EndsUnexecuted, Execute, ExecuteReturns, ProcessExits
<1>6. CASE DeleteExecution \/ DeleteTopic
  BY <1>6 DEF DeleteExecution, DeleteTopic, RowState
<1>7. CASE CloseStore \/ Crash \/ Restart \/ Recover
  BY <1>7 DEF CloseStore, Crash, Restart, Recover, InterruptExecution, storeVars
<1>8. CASE UNCHANGED vars
  BY <1>8 DEF vars, storeVars
<1> QED
  BY <1>1, <1>2, <1>3, <1>4, <1>5, <1>6, <1>7, <1>8 DEF Next, RunnerStep, RunStep, storeVars

LEMMA TypesStay == HistoryInv /\ [Next]_vars => StageType' /\ ProcessType'
<1> SUFFICES ASSUME HistoryInv, [Next]_vars PROVE StageType' /\ ProcessType'
  OBVIOUS
<1> USE DEF HistoryInv, StageType, ProcessType, Stage
<1>1. CASE RunnerStep \/ CloseStore \/ Restart \/ Recover
  BY <1>1 DEF RunnerStep, StartExecution, ServicePhaseBegins, Launch, Finish, Close, CloseStore,
              Restart, Recover
<1>2. ASSUME NEW r \in Runs, RunStep(r) \/ ProcessExits(r) PROVE StageType' /\ ProcessType'
  BY <1>2 DEF RunStep, Submit, EndsUnexecuted, Execute, ExecuteReturns, Terminates,
     ProcessExits,
              memoryVars
<1>3. CASE DeleteExecution \/ DeleteTopic
  BY <1>3 DEF DeleteExecution, DeleteTopic, memoryVars
<1>4. CASE Crash
  BY <1>4 DEF Crash
<1>5. CASE UNCHANGED vars
  BY <1>5 DEF vars, memoryVars
<1> QED
  BY <1>1, <1>2, <1>3, <1>4, <1>5 DEF Next

\* The run whose turn it is belongs to a phase that has begun.
LEMMA NextIsWritten ==
    ASSUME HistoryInv, NEW r \in Runs, IsNext(r)
    PROVE  Written(r)
<1>1. CASE at = "global"
  BY <1>1 DEF IsNext, HistoryInv, WrittenInv, GlobalRuns, Range
<1>2. CASE at = "service"
  <2>1. PICK g \in DOMAIN plan.groups : \E i \in DOMAIN plan.groups[g] : plan.groups[g][i] = r
    BY <1>2 DEF IsNext
  <2> QED
    BY <1>2, <2>1 DEF HistoryInv, WrittenInv, ServiceRuns, Range
<1> QED
  BY <1>1, <1>2 DEF IsNext

LEMMA HistoryNext == HistoryInv /\ [Next]_vars => HistoryInv'
<1> SUFFICES ASSUME HistoryInv, [Next]_vars PROVE HistoryInv'
  OBVIOUS
<1>1. StageType' /\ ProcessType'
  BY TypesStay
<1>2. /\ row' \in [Runs -> RowState]
      /\ \A r \in Runs : Written(r) => Written(r)'
  BY RowsStay
<1>3. at' \in {"global", "service"} => \A r \in Runs \cap GlobalRuns' : Written(r)'
  <2>1. CASE StartExecution
    BY <2>1 DEF StartExecution, CreateExecution, InsertRows, GlobalRuns, Written, HistoryInv,
                WrittenInv
  <2>2. CASE UNCHANGED plan /\ (at' \in {"global", "service"} => at \in {"global", "service"})
    BY <1>2, <2>2 DEF GlobalRuns, HistoryInv, WrittenInv
  <2>3. CASE RunnerStep
    BY <2>1, <2>2, <2>3 DEF RunnerStep, ServicePhaseBegins, Launch, Finish, Close
  <2>4. ASSUME NEW r \in Runs, RunStep(r) \/ ProcessExits(r)
        PROVE  UNCHANGED <<plan, at>>
    BY <2>4 DEF RunStep, Submit, EndsUnexecuted, Execute, ExecuteReturns, Terminates,
                ProcessExits, memoryVars
  <2>5. CASE DeleteExecution \/ DeleteTopic \/ CloseStore \/ Crash \/ Restart \/ Recover
             \/ UNCHANGED vars
    BY <2>2, <2>5 DEF DeleteExecution, DeleteTopic, CloseStore, Crash, Restart, Recover,
                      memoryVars, vars
  <2> QED
    BY <2>2, <2>3, <2>4, <2>5 DEF Next
<1>4. at' = "service" => \A r \in Runs \cap ServiceRuns' : Written(r)'
  <2>1. CASE ServicePhaseBegins
    BY <2>1 DEF ServicePhaseBegins, AddPlannedRuns, InsertRows, ServiceRuns, Written
  <2>2. CASE UNCHANGED plan /\ (at' = "service" => at = "service")
    BY <1>2, <2>2 DEF ServiceRuns, HistoryInv, WrittenInv
  <2>3. CASE RunnerStep
    BY <2>1, <2>2, <2>3 DEF RunnerStep, StartExecution, FirstPlace, Launch, Finish, Close
  <2>4. ASSUME NEW r \in Runs, RunStep(r) \/ ProcessExits(r)
        PROVE  UNCHANGED <<plan, at>>
    BY <2>4 DEF RunStep, Submit, EndsUnexecuted, Execute, ExecuteReturns, Terminates,
                ProcessExits, memoryVars
  <2>5. CASE DeleteExecution \/ DeleteTopic \/ CloseStore \/ Crash \/ Restart \/ Recover
             \/ UNCHANGED vars
    BY <2>2, <2>5 DEF DeleteExecution, DeleteTopic, CloseStore, Crash, Restart, Recover,
                      memoryVars, vars
  <2> QED
    BY <2>2, <2>3, <2>4, <2>5 DEF Next
<1>5. \A r \in Runs : stage'[r] = "submitted" => Written(r)'
  <2>1. CASE UNCHANGED stage
    BY <1>2, <2>1 DEF HistoryInv, WrittenInv
  <2>2. ASSUME NEW r \in Runs, Submit(r)
        PROVE  \A s \in Runs : stage'[s] = "submitted" => Written(s)'
    BY <1>2, <2>2, NextIsWritten DEF Submit, HistoryInv, WrittenInv, StageType
  <2>3. ASSUME NEW r \in Runs,
               EndsUnexecuted(r) \/ Execute(r) \/ ExecuteReturns(r) \/ Terminates(r)
        PROVE  \A s \in Runs : stage'[s] = "submitted" => stage[s] = "submitted"
    BY <2>3 DEF EndsUnexecuted, Execute, ExecuteReturns, Terminates, HistoryInv, StageType
  <2>4. CASE Crash
    BY <2>4 DEF Crash
  <2>5. CASE RunnerStep \/ DeleteExecution \/ DeleteTopic \/ CloseStore \/ Restart \/ Recover
             \/ UNCHANGED vars
    BY <2>1, <2>5 DEF RunnerStep, StartExecution, ServicePhaseBegins, Launch, Finish, Close,
                      DeleteExecution, DeleteTopic, CloseStore, Restart, Recover, memoryVars, vars
  <2>6. ASSUME NEW r \in Runs, ProcessExits(r) PROVE UNCHANGED stage
    BY <2>6 DEF ProcessExits, memoryVars
  <2> QED
    BY <1>2, <2>1, <2>2, <2>3, <2>4, <2>5, <2>6 DEF Next, RunStep, HistoryInv, WrittenInv
<1>6. \A r \in Runs : process'[r] # "none" => Written(r)'
  <2>1. CASE UNCHANGED process
    BY <1>2, <2>1 DEF HistoryInv, RowsBeforeRuns, Written
  <2>2. ASSUME NEW r \in Runs, Execute(r)
        PROVE  \A s \in Runs : process'[s] # "none" => Written(s)
    BY <2>2 DEF Execute, HistoryInv, WrittenInv, RowsBeforeRuns, ProcessType, Written
  <2>3. ASSUME NEW r \in Runs, ProcessExits(r)
        PROVE  \A s \in Runs : process'[s] # "none" => Written(s)
    BY <2>3 DEF ProcessExits, HistoryInv, RowsBeforeRuns, ProcessType, Written
  <2>4. ASSUME NEW r \in Runs,
               Submit(r) \/ EndsUnexecuted(r) \/ ExecuteReturns(r) \/ Terminates(r)
        PROVE  UNCHANGED process
    BY <2>4 DEF Submit, EndsUnexecuted, ExecuteReturns, Terminates
  <2>5. CASE RunnerStep \/ DeleteExecution \/ DeleteTopic \/ CloseStore \/ Crash \/ Restart
             \/ Recover \/ UNCHANGED vars
    BY <2>1, <2>5 DEF RunnerStep, StartExecution, ServicePhaseBegins, Launch, Finish, Close,
                      DeleteExecution, DeleteTopic, CloseStore, Crash, Restart, Recover, vars
  <2> QED
    BY <1>2, <2>1, <2>2, <2>3, <2>4, <2>5 DEF Next, RunStep
<1> QED
  BY <1>1, <1>2, <1>3, <1>4, <1>5, <1>6
  DEF HistoryInv, WrittenInv, RowsBeforeRuns, Written

\* No process is begun whose row has not been written before: in either phase, whatever
\* the store refuses and whenever supd crashes.
THEOREM HistoryIsAhead == Spec => []RowsBeforeRuns
<1>1. HistoryInv => RowsBeforeRuns
  BY DEF HistoryInv
<1> QED
  BY HistoryInit, HistoryNext, <1>1, PTL DEF Spec

-----------------------------------------------------------------------------
(* The phases: the inductive invariant. *)

\* The gateway has the run.
Busy(r) == stage[r] \notin {"waiting", "done"}

\* Before the creation there is nothing.
NothingBefore ==
    execution = "absent" =>
        /\ topic = "absent" /\ at = "idle" /\ launched = 0 /\ attempted = {}
        /\ \A r \in Runs : stage[r] = "waiting" /\ process[r] = "none" /\ row[r] = "absent"

\* Where the runs are while the runner is at work, or has been: whoever is busy is the next
\* one of its sequence.
RunInv(r) ==
    /\ stage[r] # "waiting" => r \in attempted
    /\ at # "idle" /\ r \in attempted => stage[r] # "waiting"
    /\ Busy(r) => IsNext(r)
    /\ process[r] = "running" => at = "idle" \/ stage[r] = "executing"
    /\ stage[r] = "done" => row[r] # "pending" \/ "row" \in lost

\* What has been done when a phase begins or ends.  That rows of services are written
\* and none of them is run takes a store that is closing, which records no end either.
PlaceInv ==
    /\ at = "global" => /\ launched = 0 /\ attempted \cap ServiceRuns = {}
                        /\ \A r \in ServiceRuns : row[r] = "absent"
    /\ at = "service" => AllDone(GlobalRuns) /\ Cardinality(Active) <= Slots
    /\ at = "finish" => /\ AllDone(GlobalRuns) /\ attempted \cap ServiceRuns = {}
                        /\ \/ \A r \in ServiceRuns : row[r] = "absent"
                           \/ supd # "serving" /\ Runner \notin inFlight

\* The runner does not go back behind the end it has recorded.
EndInv == finishedAt \/ topic = "closed" => at \in {"close", "idle"}

PhasesInv ==
    /\ NothingBefore /\ PlaceInv /\ EndInv /\ NothingSkipped /\ FinishedIsFinal
    /\ \A r \in Runs : RunInv(r)

IInv == TypeOK /\ RecordInv /\ PhasesInv

\* The runs of a plan are runs, each of them in one place.
LEMMA PlanIs ==
    ASSUME TypeOK
    PROVE  /\ plan.global \in Seq(Runs) /\ plan.groups \in Seq(Seq(Runs)) /\ Len(plan.groups) \in Nat
           /\ DOMAIN plan.groups = 1..Len(plan.groups)
           /\ GlobalRuns \subseteq Runs /\ ServiceRuns \subseteq Runs
           /\ \A g \in DOMAIN plan.groups : Range(plan.groups[g]) \subseteq ServiceRuns
           /\ GlobalRuns \cap ServiceRuns = {}
           /\ \A g, h \in DOMAIN plan.groups :
                 g # h => Range(plan.groups[g]) \cap Range(plan.groups[h]) = {}
<1>1. /\ plan.global \in Seq(Runs) /\ plan.groups \in Seq(Seq(Runs))
      /\ \A g \in DOMAIN plan.groups :
            /\ Range(plan.groups[g]) \cap Range(plan.global) = {}
            /\ \A h \in DOMAIN plan.groups : g # h => Range(plan.groups[g]) \cap Range(plan.groups[h]) = {}
  BY PlansAssumption DEF TypeOK, Plan
<1>2. GlobalRuns \subseteq Runs
  BY <1>1 DEF GlobalRuns, Range
<1>3. \A g \in DOMAIN plan.groups : Range(plan.groups[g]) \subseteq Runs
  BY <1>1 DEF Range
<1>4. ServiceRuns \subseteq Runs /\ GlobalRuns \cap ServiceRuns = {}
  BY <1>1, <1>3 DEF GlobalRuns, ServiceRuns
<1>5. \A g \in DOMAIN plan.groups : Range(plan.groups[g]) \subseteq ServiceRuns
  BY DEF ServiceRuns
<1>6. Len(plan.groups) \in Nat /\ DOMAIN plan.groups = 1..Len(plan.groups)
  BY <1>1
<1> QED
  BY <1>1, <1>2, <1>4, <1>5, <1>6

LEMMA TypeInit == Init => TypeOK
<1>1. Init => Len(plan.groups) \in Nat
  BY PlansAssumption DEF Init, Plan
<1>2. Init => launched \in 0..Len(plan.groups) /\ crashes \in 0..MaxCrashes
  BY <1>1, MaxCrashesAssumption DEF Init
<1>3. Init => /\ row \in [Runs -> RowState] /\ stage \in [Runs -> Stage]
              /\ process \in [Runs -> {"none", "running", "exited"}]
  BY DEF Init, RowState, Stage
<1> QED
  BY <1>2, <1>3 DEF Init, TypeOK

LEMMA TypeNext == TypeOK /\ [Next]_vars => TypeOK'
<1> SUFFICES ASSUME TypeOK, [Next]_vars PROVE TypeOK'
  OBVIOUS
<1> USE DEF TypeOK
<1>1. \A who \in Runs \cup {Runner}, kind \in {"plan", "row", "end"} :
         /\ Commits(who) => inFlight' \subseteq Runs \cup {Runner} /\ UNCHANGED lost
         /\ Refused(who, kind) => /\ inFlight' \subseteq Runs \cup {Runner}
                                  /\ lost' \subseteq {"plan", "row", "end"} /\ UNCHANGED storeVars
         /\ CommitsUnseen(who, kind) => /\ inFlight' \subseteq Runs \cup {Runner}
                                        /\ lost' \subseteq {"plan", "row", "end"}
  BY DEF Commits, Refused, CommitsUnseen
<1>2. \A runs : InsertRows(runs) => row' \in [Runs -> RowState]
  BY DEF InsertRows, RowState
<1>3. CASE StartExecution
  BY <1>1, <1>2, <1>3 DEF StartExecution, CreateExecution, FirstPlace
<1>4. CASE ServicePhaseBegins
  BY <1>1, <1>2, <1>4 DEF ServicePhaseBegins, AddPlannedRuns, storeVars
<1>5. CASE Launch
  <2>1. launched' \in 0..Len(plan.groups) /\ plan' = plan
    BY <1>5, PlanIs DEF Launch
  <2> QED
    BY <1>5, <2>1 DEF Launch, storeVars
<1>6. CASE Finish
  <2>1. finishedAt' \in BOOLEAN /\ UNCHANGED <<execution, interruptedAt, row, topic>>
    BY <1>6, Zenon DEF Finish, FinishExecution, Refused, storeVars
  <2>2. inFlight' \subseteq Runs \cup {Runner} /\ lost' \subseteq {"plan", "row", "end"}
    BY <1>1, <1>6 DEF Finish
  <2> QED
    BY <1>6, <2>1, <2>2 DEF Finish
<1>7. CASE Close
  BY <1>1, <1>7 DEF Close, CloseTopic, storeVars
<1>8. ASSUME NEW r \in Runs, Submit(r) \/ EndsUnexecuted(r) \/ Execute(r) \/ ExecuteReturns(r)
      PROVE  TypeOK'
  <2>1. stage' \in [Runs -> Stage] /\ process' \in [Runs -> {"none", "running", "exited"}]
    BY <1>8 DEF Submit, EndsUnexecuted, Execute, ExecuteReturns, Stage
  <2>2. attempted' \subseteq Runs
    BY <1>8 DEF Submit, EndsUnexecuted, Execute, ExecuteReturns
  <2>3. UNCHANGED <<storeVars, supd, plan, at, launched, inFlight, lost, crashes>>
    BY <1>8 DEF Submit, EndsUnexecuted, Execute, ExecuteReturns
  <2> QED
    BY <2>1, <2>2, <2>3 DEF storeVars
<1>9. ASSUME NEW r \in Runs, Terminates(r) PROVE TypeOK'
  <2>1. \A s \in Terminal : UpdateRunState(r, s) => row' \in [Runs -> RowState]
    BY DEF UpdateRunState, RowState
  <2>2. row' \in [Runs -> RowState] /\ UNCHANGED <<execution, finishedAt, interruptedAt, topic>>
    BY <1>9, <2>1 DEF Terminates, UpdateRunState, Refused, storeVars
  <2>3. inFlight' \subseteq Runs \cup {Runner} /\ lost' \subseteq {"plan", "row", "end"}
    BY <1>1, <1>9 DEF Terminates
  <2>4. /\ stage' \in [Runs -> Stage]
        /\ UNCHANGED <<supd, plan, at, launched, process, attempted, crashes>>
    BY <1>9 DEF Terminates, Stage
  <2> QED
    BY <2>2, <2>3, <2>4
<1>10. ASSUME NEW r \in Runs, ProcessExits(r) PROVE TypeOK'
  BY <1>10 DEF ProcessExits, storeVars, memoryVars
<1>11. CASE DeleteExecution \/ DeleteTopic
  BY <1>11 DEF DeleteExecution, DeleteTopic, memoryVars, RowState
<1>12. CASE CloseStore
  BY <1>12 DEF CloseStore, storeVars, Submitting
<1>13. CASE Crash
  BY <1>13, PlanIs, MaxCrashesAssumption DEF Crash, storeVars, Stage
<1>14. CASE Restart
  BY <1>14 DEF Restart, storeVars
<1>15. CASE Recover
  BY <1>15 DEF Recover, InterruptExecution, storeVars
<1>16. CASE UNCHANGED vars
  BY <1>16 DEF vars, storeVars, memoryVars
<1> QED
  BY <1>3, <1>4, <1>5, <1>6, <1>7, <1>8, <1>9, <1>10, <1>11, <1>12, <1>13, <1>14, <1>15, <1>16
     DEF Next, RunnerStep, RunStep

\* The type invariant of an execution, its rows and its processes.
THEOREM TypeCorrect == Spec => []TypeOK
  BY TypeInit, TypeNext, PTL DEF Spec

\* Whoever is busy is of the phase that the runner is in: no one is when it is over.
LEMMA NobodyIsBusy ==
    ASSUME IInv,
           \/ at = "global" /\ AllDone(GlobalRuns)
           \/ at = "service" /\ AllDone(ServiceRuns)
           \/ at \in {"idle", "finish", "close"}
    PROVE  \A r \in Runs : ~Busy(r) /\ (at # "idle" => process[r] # "running")
<1>1. ASSUME NEW r \in Runs PROVE ~Busy(r)
  <2>1. Busy(r) => IsNext(r)
    BY DEF IInv, PhasesInv, RunInv
  <2>2. at = "global" /\ IsNext(r) => r \in GlobalRuns
    BY DEF IsNext, GlobalRuns, Range
  <2>3. at = "service" /\ IsNext(r) => r \in ServiceRuns
    BY DEF IsNext, ServiceRuns, Range
  <2>4. at \in {"global", "service"} \/ ~IsNext(r)
    BY DEF IsNext
  <2> QED
    BY <2>1, <2>2, <2>3, <2>4 DEF AllDone, Busy
<1>2. ASSUME NEW r \in Runs, at # "idle" PROVE process[r] # "running"
  BY <1>1, <1>2 DEF IInv, PhasesInv, RunInv, Busy
<1> QED
  BY <1>1, <1>2

\* A run keeps its turn as long as its phase goes on.
LEMMA TurnIsKept ==
    ASSUME TypeOK, UNCHANGED <<plan, at>>, launched' \in Nat, launched' >= launched,
           \A s \in Runs : stage[s] = "done" => stage'[s] = "done",
           NEW r \in Runs, IsNext(r)
    PROVE  IsNext(r)'
<1>1. launched \in Nat /\ plan.global \in Seq(Runs) /\ plan.groups \in Seq(Seq(Runs))
  BY PlanIs DEF TypeOK
<1>2. ASSUME NEW s \in Seq(Runs), NEW i \in DOMAIN s, Turn(s, i)
      PROVE  \A j \in 1..i - 1 : stage'[s[j]] = "done"
  BY <1>2 DEF Turn
<1>3. CASE at = "global"
  <2>1. PICK i \in DOMAIN plan.global : plan.global[i] = r /\ Turn(plan.global, i)
    BY <1>3 DEF IsNext
  <2>2. \A j \in 1..i - 1 : stage'[plan.global[j]] = "done"
    BY <1>1, <1>2, <2>1
  <2> QED
    BY <1>3, <2>1, <2>2 DEF IsNext, Turn
<1>4. CASE at = "service"
  <2>1. PICK g \in DOMAIN plan.groups : \E i \in DOMAIN plan.groups[g] :
            g <= launched /\ plan.groups[g][i] = r /\ Turn(plan.groups[g], i)
    BY <1>4 DEF IsNext
  <2>2. PICK i \in DOMAIN plan.groups[g] :
            g <= launched /\ plan.groups[g][i] = r /\ Turn(plan.groups[g], i)
    BY <2>1
  <2>3. \A j \in 1..i - 1 : stage'[plan.groups[g][j]] = "done"
    BY <1>1, <1>2, <2>2
  <2>4. g <= launched'
    BY <1>1, <2>2
  <2> QED
    BY <1>4, <2>2, <2>3, <2>4 DEF IsNext, Turn
<1> QED
  BY <1>3, <1>4 DEF IsNext

-----------------------------------------------------------------------------
(* The steps, one by one. *)

LEMMA Starts == ASSUME IInv, StartExecution PROVE PhasesInv'
<1>1. /\ execution = "absent" /\ at = "idle" /\ launched = 0 /\ attempted = {} /\ ~finishedAt
      /\ \A r \in Runs : stage[r] = "waiting" /\ process[r] = "none" /\ row[r] = "absent"
  BY DEF StartExecution, CreateExecution, IInv, PhasesInv, NothingBefore, RecordInv, RunnerInv
<1>2. /\ execution' = "present" /\ topic' = "open" /\ finishedAt' = finishedAt
      /\ row' = [r \in Runs |-> IF r \in GlobalRuns THEN "pending" ELSE row[r]]
      /\ UNCHANGED <<plan, launched, stage, process, attempted>>
  BY DEF StartExecution, CreateExecution, InsertRows
<1>3. at' \in {"idle", "global"} \/ (at' = "finish" /\ plan.global = <<>> /\ plan.groups = <<>>)
  BY <1>1 DEF StartExecution, FirstPlace
<1>4. NothingBefore' /\ EndInv' /\ NothingSkipped' /\ FinishedIsFinal'
  BY <1>1, <1>2 DEF NothingBefore, EndInv, NothingSkipped, FinishedIsFinal
<1>5. \A r \in Runs : RunInv(r)'
  BY <1>1, <1>2 DEF RunInv, Busy
<1>6. CASE at' \in {"idle", "global"}
  <2>1. \A r \in ServiceRuns : row'[r] = "absent"
    BY <1>1, <1>2, PlanIs DEF IInv
  <2>2. PlaceInv'
    BY <1>1, <1>2, <1>6, <2>1 DEF PlaceInv, ServiceRuns
  <2> QED
    BY <1>4, <1>5, <2>2 DEF PhasesInv
<1>7. CASE at' = "finish" /\ plan.global = <<>> /\ plan.groups = <<>>
  <2>1. GlobalRuns' = {} /\ ServiceRuns' = {}
    <3>1. DOMAIN <<>> = {}
      OBVIOUS
    <3> QED
      BY <1>2, <1>7, <3>1 DEF GlobalRuns, ServiceRuns, Range
  <2>2. PlaceInv'
    BY <1>7, <2>1 DEF PlaceInv, AllDone
  <2> QED
    BY <1>4, <1>5, <2>2 DEF PhasesInv
<1> QED
  BY <1>3, <1>6, <1>7

LEMMA PhaseBegins == ASSUME IInv, ServicePhaseBegins PROVE PhasesInv'
<1>1. /\ at = "global" /\ AllDone(GlobalRuns) /\ launched = 0 /\ attempted \cap ServiceRuns = {}
      /\ \A r \in ServiceRuns : row[r] = "absent"
  BY DEF ServicePhaseBegins, IInv, PhasesInv, PlaceInv
<1>2. UNCHANGED <<supd, plan, launched, stage, process, attempted, finishedAt, topic,
                  execution>>
  BY DEF ServicePhaseBegins, AddPlannedRuns, Refused, storeVars
<1>3. \/ /\ at' = "service" /\ row' = [r \in Runs |-> IF r \in ServiceRuns THEN "pending" ELSE row[r]]
         /\ lost' = lost
      \/ at' = "finish" /\ row' = row /\ lost' = lost \cup {"plan"}
      \/ /\ at' = "finish" /\ row' = [r \in Runs |-> IF r \in ServiceRuns THEN "pending" ELSE row[r]]
         /\ lost' = lost \cup {"plan"} /\ supd' = "closing" /\ Runner \notin inFlight'
  <2>1. inFlight # {} => supd = "closing"
    BY DEF IInv, RecordInv, RunnerInv
  <2> QED
    BY <2>1 DEF ServicePhaseBegins, AddPlannedRuns, InsertRows, Commits, Refused,
       CommitsUnseen, storeVars
<1>4. /\ execution # "absent" /\ ~finishedAt /\ topic # "closed"
  BY <1>1 DEF IInv, PhasesInv, NothingBefore, EndInv
<1>5. NothingBefore' /\ EndInv' /\ NothingSkipped' /\ FinishedIsFinal'
  BY <1>2, <1>4 DEF NothingBefore, EndInv, NothingSkipped, FinishedIsFinal
<1>6. ASSUME NEW r \in Runs PROVE RunInv(r)'
  <2>1. ~Busy(r) /\ process[r] # "running" /\ RunInv(r)
    BY <1>1, NobodyIsBusy DEF IInv, PhasesInv
  <2>2. r \in ServiceRuns => stage[r] = "waiting"
    BY <1>1, <2>1 DEF RunInv
  <2>3. stage[r] = "done" => row'[r] # "pending" \/ "row" \in lost'
    BY <1>3, <2>1, <2>2 DEF RunInv
  <2> QED
    BY <1>1, <1>2, <2>1, <2>3 DEF RunInv, Busy
<1>7. PlaceInv'
  <2>1. GlobalRuns' = GlobalRuns /\ ServiceRuns' = ServiceRuns /\ AllDone(GlobalRuns)'
    BY <1>1, <1>2 DEF GlobalRuns, ServiceRuns, AllDone
  <2>2. Active' = {} /\ Cardinality({}) = 0 /\ 0 <= Slots
    BY <1>1, <1>2, FS_EmptySet, SlotsAssumption DEF Active
  <2> QED
    BY <1>1, <1>2, <1>3, <2>1, <2>2 DEF PlaceInv
<1> QED
  BY <1>5, <1>6, <1>7 DEF PhasesInv

LEMMA ActiveAreFew == ASSUME TypeOK PROVE IsFiniteSet(Active) /\ Cardinality(Active) \in Nat
<1>1. launched \in Nat
  BY PlanIs DEF TypeOK
<1>2. IsFiniteSet(1..launched) /\ Active \subseteq 1..launched
  BY <1>1, FS_Interval DEF Active
<1> QED
  BY <1>2, FS_Subset, FS_CardinalityType

LEMMA Launches == ASSUME IInv, Launch PROVE PhasesInv'
<1>1. /\ at = "service" /\ launched < Len(plan.groups) /\ Cardinality(Active) < Slots
      /\ launched' = launched + 1
      /\ UNCHANGED <<storeVars, supd, plan, at, stage, inFlight, process, attempted, lost,
                     crashes>>
  BY DEF Launch
<1>2. launched \in Nat /\ launched' \in Nat /\ launched' >= launched
  BY <1>1, PlanIs DEF IInv, TypeOK
<1>3. execution # "absent"
  BY <1>1 DEF IInv, PhasesInv, NothingBefore
<1>4. GlobalRuns' = GlobalRuns /\ ServiceRuns' = ServiceRuns /\ AllDone(GlobalRuns)' = AllDone(GlobalRuns)
  BY <1>1 DEF GlobalRuns, ServiceRuns, AllDone
<1>5. Cardinality(Active') <= Slots
  <2>1. Active' \subseteq Active \cup {launched + 1}
    BY <1>1, <1>2 DEF Active, AllDone
  <2>2. /\ IsFiniteSet(Active \cup {launched + 1})
        /\ Cardinality(Active \cup {launched + 1}) <= Cardinality(Active) + 1
        /\ Cardinality(Active) \in Nat
    BY ActiveAreFew, FS_AddElement DEF IInv
  <2>3. Cardinality(Active') <= Cardinality(Active \cup {launched + 1})
    BY <2>1, <2>2, FS_Subset
  <2>4. Cardinality(Active') \in Nat /\ Cardinality(Active \cup {launched + 1}) \in Nat
    BY <2>1, <2>2, FS_Subset, FS_CardinalityType
  <2> QED
    BY <1>1, <2>2, <2>3, <2>4, SlotsAssumption
<1>6. NothingBefore' /\ EndInv' /\ NothingSkipped' /\ FinishedIsFinal'
  BY <1>1, <1>3, <1>4 DEF IInv, PhasesInv, NothingBefore, EndInv, NothingSkipped,
     FinishedIsFinal,
                          Planned, Running, storeVars
<1>7. PlaceInv'
  BY <1>1, <1>4, <1>5 DEF IInv, PhasesInv, PlaceInv
<1>8. ASSUME NEW r \in Runs PROVE RunInv(r)'
  <2>1. RunInv(r) /\ (IsNext(r) => IsNext(r)')
    BY <1>1, <1>2, TurnIsKept DEF IInv, PhasesInv
  <2> QED
    BY <1>1, <2>1 DEF RunInv, Busy, storeVars
<1> QED
  BY <1>6, <1>7, <1>8 DEF PhasesInv

\* Behind the phases all who were handed to the gateway are done.
LEMMA TriedAreDone ==
    ASSUME IInv, at # "idle",
           PhasesOver \/ at = "close"
    PROVE  /\ Running = {}
           /\ \A r \in Runs : ~Busy(r)
           /\ \A r \in attempted : stage[r] = "done" /\ (row[r] # "pending" \/ "row" \in lost)
<1>1. \A r \in Runs : ~Busy(r) /\ process[r] # "running"
  <2>1. \/ at = "global" /\ AllDone(GlobalRuns)
        \/ at = "service" /\ AllDone(ServiceRuns)
        \/ at \in {"finish", "close"}
    BY DEF PhasesOver
  <2> QED
    BY <2>1, NobodyIsBusy
<1>2. ASSUME NEW r \in attempted PROVE stage[r] = "done" /\ (row[r] # "pending" \/ "row" \in lost)
  <2>1. r \in Runs /\ RunInv(r)
    BY DEF IInv, PhasesInv, TypeOK
  <2> QED
    BY <1>1, <2>1 DEF RunInv, Busy
<1> QED
  BY <1>1, <1>2 DEF Running

LEMMA Finishes == ASSUME IInv, Finish PROVE PhasesInv'
<1>1. /\ PhasesOver /\ at # "idle" /\ at' = "close"
      /\ UNCHANGED <<supd, plan, launched, stage, process, attempted, execution, topic, row>>
      /\ finishedAt' \in BOOLEAN /\ lost \subseteq lost'
  <2>1. UNCHANGED <<execution, topic, row>>
    BY DEF Finish, FinishExecution, Refused, storeVars
  <2>2. finishedAt' \in BOOLEAN
    BY Zenon DEF Finish, FinishExecution, Refused, storeVars, IInv, TypeOK
  <2>3. lost \subseteq lost'
    BY DEF Finish, Commits, CommitsUnseen, Refused
  <2>4. PhasesOver /\ at # "idle"
    BY DEF Finish, PhasesOver
  <2> QED
    BY <2>1, <2>2, <2>3, <2>4 DEF Finish
<1>2. /\ Running = {}
      /\ \A r \in Runs : ~Busy(r)
      /\ \A r \in attempted : stage[r] = "done" /\ (row[r] # "pending" \/ "row" \in lost)
  BY <1>1, TriedAreDone
<1>3. GlobalRuns' = GlobalRuns /\ ServiceRuns' = ServiceRuns
  BY <1>1 DEF GlobalRuns, ServiceRuns
<1>4. ~finishedAt /\ topic # "closed" /\ execution # "absent"
  BY <1>1 DEF IInv, PhasesInv, EndInv, NothingBefore, PhasesOver
<1>5. finishedAt' => supd = "serving" \/ Runner \in inFlight
  BY <1>4, Zenon DEF Finish, Commits, CommitsUnseen, Refused, storeVars
<1>6. ASSUME finishedAt'
      PROVE  /\ GlobalRuns \subseteq attempted
             /\ ServiceRuns \subseteq attempted \/ attempted \cap ServiceRuns = {}
             /\ \A r \in GlobalRuns \cup ServiceRuns : row[r] # "absent" => r \in attempted
  <2>1. \A r \in Runs : stage[r] = "done" => r \in attempted
    BY DEF IInv, PhasesInv, RunInv
  <2>2. GlobalRuns \subseteq Runs /\ ServiceRuns \subseteq Runs
    BY PlanIs DEF IInv
  <2>3. CASE at = "global"
    <3>1. AllDone(GlobalRuns) /\ plan.groups = <<>>
      BY <1>1, <2>3 DEF PhasesOver
    <3>2. ServiceRuns = {}
      <4>1. DOMAIN <<>> = {}
        OBVIOUS
      <4> QED
        BY <3>1, <4>1 DEF ServiceRuns
    <3> QED
      BY <2>1, <2>2, <3>1, <3>2 DEF AllDone
  <2>4. CASE at = "service"
    <3>1. AllDone(GlobalRuns) /\ AllDone(ServiceRuns)
      BY <1>1, <2>4 DEF PhasesOver, IInv, PhasesInv, PlaceInv
    <3> QED
      BY <2>1, <2>2, <3>1 DEF AllDone
  <2>5. CASE at = "finish"
    <3>1. /\ AllDone(GlobalRuns) /\ attempted \cap ServiceRuns = {}
          /\ \A r \in ServiceRuns : row[r] = "absent"
      BY <1>5, <1>6, <2>5 DEF IInv, PhasesInv, PlaceInv
    <3> QED
      BY <2>1, <2>2, <3>1 DEF AllDone
  <2> QED
    BY <1>1, <2>3, <2>4, <2>5 DEF PhasesOver
<1>7. NothingBefore' /\ EndInv' /\ PlaceInv'
  BY <1>1, <1>4 DEF NothingBefore, EndInv, PlaceInv
<1>8. NothingSkipped'
  BY <1>1, <1>3, <1>6 DEF NothingSkipped, Planned
<1>9. FinishedIsFinal'
  BY <1>1, <1>2 DEF FinishedIsFinal, Running
<1>10. \A r \in Runs : RunInv(r)'
  BY <1>1, <1>2 DEF IInv, PhasesInv, RunInv, Busy
<1> QED
  BY <1>7, <1>8, <1>9, <1>10 DEF PhasesInv

LEMMA Closes == ASSUME IInv, Close PROVE PhasesInv'
<1>1. /\ at = "close" /\ at' = "idle" /\ lost \subseteq lost'
      /\ UNCHANGED <<supd, plan, launched, stage, process, attempted, execution, finishedAt,
                     row>>
      /\ topic' = topic \/ topic' = "closed"
  BY DEF Close, CloseTopic, Commits, CommitsUnseen, Refused, storeVars
<1>2. /\ Running = {}
      /\ \A r \in Runs : ~Busy(r)
      /\ \A r \in attempted : stage[r] = "done" /\ (row[r] # "pending" \/ "row" \in lost)
  BY <1>1, TriedAreDone
<1>3. GlobalRuns' = GlobalRuns /\ ServiceRuns' = ServiceRuns
  BY <1>1 DEF GlobalRuns, ServiceRuns
<1>4. NothingBefore' /\ EndInv' /\ PlaceInv'
  BY <1>1 DEF IInv, PhasesInv, NothingBefore, EndInv, PlaceInv
<1>5. NothingSkipped'
  BY <1>1, <1>3 DEF IInv, PhasesInv, NothingSkipped, Planned
<1>6. FinishedIsFinal'
  BY <1>1, <1>2 DEF FinishedIsFinal, Running
<1>7. \A r \in Runs : RunInv(r)'
  BY <1>1, <1>2 DEF IInv, PhasesInv, RunInv, Busy
<1> QED
  BY <1>4, <1>5, <1>6, <1>7 DEF PhasesInv

\* The run whose turn it is goes on: to the gateway, through it, or out of it.
LEMMA RunMoves ==
    ASSUME IInv, NEW r \in Runs, IsNext(r), stage[r] # "done", NEW s \in Stage \ {"waiting"},
           stage' = [stage EXCEPT ![r] = s], attempted' = attempted \cup {r}, lost \subseteq lost',
           \A u \in Runs : u # r => row'[u] = row[u] /\ process'[u] = process[u],
           row[r] = "absent" => row'[r] = "absent",
           s = "done" => row'[r] # "pending" \/ "row" \in lost',
           process'[r] = "running" => s = "executing",
           UNCHANGED <<supd, plan, at, launched, execution, finishedAt, topic>>
    PROVE  PhasesInv'
<1>1. stage'[r] = s /\ \A u \in Runs : u # r => stage'[u] = stage[u]
  BY DEF IInv, TypeOK
<1>2. /\ at \in {"global", "service"}
      /\ at = "global" => r \in GlobalRuns
      /\ at = "service" => r \in ServiceRuns
  BY DEF IsNext, GlobalRuns, ServiceRuns, Range
<1>3. GlobalRuns' = GlobalRuns /\ ServiceRuns' = ServiceRuns
  BY DEF GlobalRuns, ServiceRuns
<1>4. ~finishedAt /\ topic # "closed" /\ execution # "absent"
  BY <1>2 DEF IInv, PhasesInv, EndInv, NothingBefore
<1>5. NothingBefore' /\ EndInv' /\ NothingSkipped' /\ FinishedIsFinal'
  BY <1>4 DEF NothingBefore, EndInv, NothingSkipped, FinishedIsFinal
<1>6. \A u \in Runs : stage[u] = "done" => stage'[u] = "done"
  BY <1>1
<1>7. ASSUME NEW u \in Runs PROVE RunInv(u)'
  <2>1. RunInv(u)
    BY DEF IInv, PhasesInv
  <2>2. launched \in Nat
    BY PlanIs DEF IInv, TypeOK
  <2>3. IsNext(u) => IsNext(u)'
    BY <1>6, <2>2, TurnIsKept DEF IInv
  <2>4. CASE u = r
    BY <1>1, <1>2, <2>3, <2>4 DEF RunInv, Busy
  <2>5. CASE u # r
    BY <1>1, <1>2, <2>1, <2>3, <2>5 DEF RunInv, Busy
  <2> QED
    BY <2>4, <2>5
<1>8. CASE at = "global"
  <2>1. r \notin ServiceRuns /\ ServiceRuns \subseteq Runs
    BY <1>2, <1>8, PlanIs DEF IInv
  <2>2. PlaceInv'
    BY <1>3, <1>8, <2>1 DEF IInv, PhasesInv, PlaceInv
  <2> QED
    BY <1>5, <1>7, <2>2 DEF PhasesInv
<1>9. CASE at = "service"
  <2>1. AllDone(GlobalRuns)'
    BY <1>3, <1>6, <1>9, PlanIs DEF IInv, PhasesInv, PlaceInv, AllDone
  <2>2. Active' \subseteq Active
    <3>1. launched \in Nat /\ launched <= Len(plan.groups) /\ DOMAIN plan.groups = 1..Len(plan.groups)
          /\ Len(plan.groups) \in Nat
      BY PlanIs DEF IInv, TypeOK
    <3>2. ASSUME NEW g \in 1..launched PROVE Range(plan.groups[g]) \subseteq Runs
      <4>1. g \in DOMAIN plan.groups
        BY <3>1
      <4> QED
        BY <4>1, PlanIs DEF IInv
    <3> QED
      BY <1>6, <3>2 DEF Active, AllDone
  <2>3. /\ Cardinality(Active') <= Cardinality(Active) /\ Cardinality(Active') \in Nat
        /\ Cardinality(Active) \in Nat /\ Cardinality(Active) <= Slots
    <3>1. IsFiniteSet(Active) /\ Cardinality(Active) \in Nat
      BY ActiveAreFew DEF IInv
    <3>2. Cardinality(Active) <= Slots
      BY <1>9 DEF IInv, PhasesInv, PlaceInv
    <3> QED
      BY <2>2, <3>1, <3>2, FS_Subset, FS_CardinalityType
  <2>4. PlaceInv'
    BY <1>9, <2>1, <2>3, SlotsAssumption DEF PlaceInv
  <2> QED
    BY <1>5, <1>7, <2>4 DEF PhasesInv
<1> QED
  BY <1>2, <1>8, <1>9

LEMMA RunSteps == ASSUME IInv, NEW r \in Runs, RunStep(r) PROVE PhasesInv'
<1>1. RunInv(r) /\ row \in [Runs -> RowState] /\ process \in [Runs -> {"none", "running", "exited"}]
  BY DEF IInv, PhasesInv, TypeOK
<1>2. Busy(r) => IsNext(r) /\ attempted \cup {r} = attempted /\ at # "idle"
  BY <1>1 DEF RunInv, Busy, IsNext
<1>3. {"submitted", "failed", "ended", "executing", "done"} \subseteq Stage \ {"waiting"}
  BY DEF Stage
<1>4. CASE Submit(r)
  <2>1. /\ stage[r] = "waiting" /\ IsNext(r) /\ stage' = [stage EXCEPT ![r] = "submitted"]
        /\ attempted' = attempted \cup {r}
        /\ UNCHANGED <<storeVars, supd, plan, at, launched, process, lost>>
    BY <1>4 DEF Submit
  <2>2. process[r] # "running"
    BY <1>1, <2>1 DEF RunInv, IsNext
  <2> QED
    BY <1>3, <2>1, <2>2, RunMoves DEF storeVars
<1>5. CASE EndsUnexecuted(r)
  <2>1. PICK s \in {"failed", "ended"} : stage' = [stage EXCEPT ![r] = s]
    BY <1>5 DEF EndsUnexecuted
  <2>2. /\ stage[r] = "submitted"
        /\ UNCHANGED <<storeVars, supd, plan, at, launched, process, attempted, lost>>
    BY <1>5 DEF EndsUnexecuted
  <2>3. process[r] # "running" /\ IsNext(r) /\ attempted' = attempted \cup {r} /\ s \in Stage \ {"waiting"}
    BY <1>1, <1>2, <1>3, <2>2 DEF RunInv, Busy
  <2> QED
    BY <2>1, <2>2, <2>3, RunMoves DEF storeVars
<1>6. CASE Execute(r)
  <2>1. /\ stage[r] = "submitted" /\ stage' = [stage EXCEPT ![r] = "executing"]
        /\ process' = [process EXCEPT ![r] = "running"]
        /\ UNCHANGED <<storeVars, supd, plan, at, launched, attempted, lost>>
    BY <1>6 DEF Execute
  <2>2. IsNext(r) /\ attempted' = attempted \cup {r}
    BY <1>2, <2>1 DEF Busy
  <2> QED
    BY <1>1, <1>3, <2>1, <2>2, RunMoves DEF storeVars
<1>7. CASE ExecuteReturns(r)
  <2>1. /\ stage[r] = "executing" /\ stage' = [stage EXCEPT ![r] = "ended"] /\ process[r] = "exited"
        /\ UNCHANGED <<storeVars, supd, plan, at, launched, process, attempted, lost>>
    BY <1>7 DEF ExecuteReturns
  <2>2. IsNext(r) /\ attempted' = attempted \cup {r}
    BY <1>2, <2>1 DEF Busy
  <2> QED
    BY <1>3, <2>1, <2>2, RunMoves DEF storeVars
<1>8. CASE Terminates(r)
  <2>1. /\ stage[r] \in {"ended", "failed"} /\ stage' = [stage EXCEPT ![r] = "done"]
        /\ UNCHANGED <<supd, plan, at, launched, process, attempted>>
    BY <1>8 DEF Terminates, Terminal
  <2>2. IsNext(r) /\ attempted' = attempted \cup {r} /\ process[r] # "running"
    BY <1>1, <1>2, <2>1 DEF Busy, RunInv
  <2>3. /\ UNCHANGED <<execution, finishedAt, topic>> /\ lost \subseteq lost'
        /\ \/ row' = [row EXCEPT ![r] = IF @ = "pending" THEN stage[r] ELSE @]
           \/ row' = row /\ "row" \in lost'
    BY <1>8 DEF Terminates, UpdateRunState, Commits, CommitsUnseen, Refused, storeVars
  <2>4. /\ \A u \in Runs : u # r => row'[u] = row[u]
        /\ row[r] = "absent" => row'[r] = "absent"
        /\ row'[r] # "pending" \/ "row" \in lost'
    BY <1>1, <2>1, <2>3
  <2> QED
    BY <1>3, <2>1, <2>2, <2>3, <2>4, RunMoves
<1> QED
  BY <1>4, <1>5, <1>6, <1>7, <1>8 DEF RunStep

LEMMA Exits == ASSUME IInv, NEW r \in Runs, ProcessExits(r) PROVE PhasesInv'
<1>1. /\ process[r] = "running" /\ process' = [process EXCEPT ![r] = "exited"]
      /\ UNCHANGED <<storeVars, memoryVars, attempted, lost>>
  BY DEF ProcessExits
<1>2. \A u \in Runs : process'[u] = "running" => process[u] = "running"
  BY <1>1 DEF IInv, TypeOK
<1>3. /\ GlobalRuns' = GlobalRuns /\ ServiceRuns' = ServiceRuns /\ Active' = Active
      /\ AllDone(GlobalRuns)' = AllDone(GlobalRuns) /\ \A u \in Runs : IsNext(u)' = IsNext(u)
  BY <1>1 DEF GlobalRuns, ServiceRuns, Active, AllDone, IsNext, Turn, memoryVars
<1>4. execution # "absent"
  BY <1>1 DEF IInv, PhasesInv, NothingBefore
<1>5. NothingBefore' /\ EndInv'
  BY <1>1, <1>4 DEF IInv, PhasesInv, NothingBefore, EndInv, storeVars, memoryVars
<1>6. PlaceInv'
  BY <1>1, <1>3 DEF IInv, PhasesInv, PlaceInv, storeVars, memoryVars
<1>7. NothingSkipped'
  BY <1>1, <1>3 DEF IInv, PhasesInv, NothingSkipped, Planned, storeVars, memoryVars
<1>8. FinishedIsFinal'
  BY <1>1, <1>2 DEF IInv, PhasesInv, FinishedIsFinal, Running, storeVars, memoryVars
<1>9. \A u \in Runs : RunInv(u)'
  BY <1>1, <1>2, <1>3 DEF IInv, PhasesInv, RunInv, Busy, storeVars, memoryVars
<1> QED
  BY <1>5, <1>6, <1>7, <1>8, <1>9 DEF PhasesInv

\* What others do to the rows and to supd leaves the runner where it is.
LEMMA RunnerRests ==
    ASSUME IInv,
           UNCHANGED <<plan, at, launched, stage, process, attempted, finishedAt>>,
           lost \subseteq lost',
           execution' = "absent" => execution = "absent" /\ topic' = topic,
           topic' = "closed" => topic = "closed",
           \A r \in Runs : row'[r] \in {row[r], "absent"},
           at = "finish" => supd = "serving" \/ UNCHANGED <<supd, inFlight>>
    PROVE  PhasesInv'
<1>1. /\ GlobalRuns' = GlobalRuns /\ ServiceRuns' = ServiceRuns /\ Active' = Active
      /\ AllDone(GlobalRuns)' = AllDone(GlobalRuns) /\ \A r \in Runs : IsNext(r)' = IsNext(r)
  BY DEF GlobalRuns, ServiceRuns, Active, AllDone, IsNext, Turn
<1>2. GlobalRuns \subseteq Runs /\ ServiceRuns \subseteq Runs /\ attempted \subseteq Runs
  BY PlanIs DEF IInv, TypeOK
<1>3. NothingBefore' /\ EndInv'
  BY DEF IInv, PhasesInv, NothingBefore, EndInv
<1>4. PlaceInv'
  <2>1. \A r \in ServiceRuns : row[r] = "absent" => row'[r] = "absent"
    BY <1>2
  <2>2. CASE at = "finish"
    BY <1>1, <2>1, <2>2 DEF IInv, PhasesInv, PlaceInv
  <2>3. CASE at # "finish"
    BY <1>1, <2>1, <2>3 DEF IInv, PhasesInv, PlaceInv
  <2> QED
    BY <2>2, <2>3
<1>5. NothingSkipped'
  BY <1>1, <1>2 DEF IInv, PhasesInv, NothingSkipped, Planned
<1>6. FinishedIsFinal'
  <2>1. Running' = Running
    BY DEF Running
  <2>2. \A r \in attempted : row[r] # "pending" => row'[r] # "pending"
    BY <1>2
  <2> QED
    BY <2>1, <2>2 DEF IInv, PhasesInv, FinishedIsFinal
<1>7. ASSUME NEW r \in Runs PROVE RunInv(r)'
  <2>1. RunInv(r) /\ (row[r] # "pending" => row'[r] # "pending")
    BY DEF IInv, PhasesInv
  <2> QED
    BY <1>1, <2>1 DEF RunInv, Busy
<1> QED
  BY <1>3, <1>4, <1>5, <1>6, <1>7 DEF PhasesInv

LEMMA Crashes == ASSUME IInv, Crash PROVE PhasesInv'
<1>1. /\ at' = "idle" /\ launched' = 0 /\ \A r \in Runs : stage'[r] = "waiting"
      /\ UNCHANGED <<storeVars, plan, process, attempted, lost>>
  BY DEF Crash
<1>2. GlobalRuns' = GlobalRuns /\ ServiceRuns' = ServiceRuns /\ Running' = Running
  BY <1>1 DEF GlobalRuns, ServiceRuns, Running
<1>3. NothingBefore' /\ EndInv' /\ PlaceInv' /\ NothingSkipped' /\ FinishedIsFinal'
  BY <1>1, <1>2 DEF IInv, PhasesInv, NothingBefore, EndInv, PlaceInv, NothingSkipped, Planned,
                    FinishedIsFinal, storeVars
<1>4. \A r \in Runs : RunInv(r)'
  BY <1>1 DEF RunInv, Busy
<1> QED
  BY <1>3, <1>4 DEF PhasesInv

-----------------------------------------------------------------------------
LEMMA InvInit == Init => IInv
<1> SUFFICES ASSUME Init PROVE PhasesInv
  BY TypeInit, RecordInit DEF IInv
<1> QED
  BY DEF Init, PhasesInv, NothingBefore, EndInv, PlaceInv, NothingSkipped, FinishedIsFinal,
     RunInv,
         Busy

LEMMA InvNext == IInv /\ [Next]_vars => IInv'
<1> SUFFICES ASSUME IInv, [Next]_vars PROVE PhasesInv'
  BY TypeNext, RecordNext DEF IInv
<1>1. CASE RunnerStep
  BY <1>1, Starts, PhaseBegins, Launches, Finishes, Closes DEF RunnerStep
<1>2. ASSUME NEW r \in Runs, RunStep(r) \/ ProcessExits(r) PROVE PhasesInv'
  BY <1>2, RunSteps, Exits
<1>3. CASE DeleteExecution
  <2>1. \A r \in Runs : row'[r] = "absent"
    BY <1>3 DEF DeleteExecution
  <2>2. /\ UNCHANGED <<supd, inFlight, plan, at, launched, stage, process, attempted,
                       finishedAt>>
        /\ execution' = "deleted" /\ topic' = topic /\ lost' = lost
    BY <1>3 DEF DeleteExecution, memoryVars
  <2> QED
    BY <2>1, <2>2, RunnerRests
<1>4. CASE DeleteTopic
  <2>1. execution # "absent"
    BY <1>4 DEF DeleteTopic, IInv, PhasesInv, NothingBefore
  <2>2. /\ UNCHANGED <<supd, inFlight, plan, at, launched, stage, process, attempted,
                       finishedAt>>
        /\ execution' = execution /\ topic' = "deleted" /\ lost' = lost /\ row' = row
    BY <1>4 DEF DeleteTopic, memoryVars
  <2> QED
    BY <2>1, <2>2, RunnerRests
<1>5. CASE CloseStore
  <2>1. /\ UNCHANGED <<plan, at, launched, stage, process, attempted, finishedAt>>
        /\ UNCHANGED <<execution, topic, row, lost>> /\ supd = "serving"
    BY <1>5 DEF CloseStore, storeVars
  <2> QED
    BY <2>1, RunnerRests
<1>6. CASE Crash
  BY <1>6, Crashes
<1>7. CASE Restart \/ Recover
  <2>1. at = "idle"
    BY <1>7 DEF Restart, Recover, IInv, RecordInv, RunnerInv
  <2>2. /\ UNCHANGED <<plan, at, launched, stage, process, attempted, finishedAt>>
        /\ UNCHANGED <<execution, topic, row>> /\ lost \subseteq lost'
    BY <1>7 DEF Restart, Recover, InterruptExecution, storeVars
  <2> QED
    BY <2>1, <2>2, RunnerRests
<1>8. CASE UNCHANGED vars
  <2>1. /\ UNCHANGED <<supd, inFlight, plan, at, launched, stage, process, attempted,
                       finishedAt>>
        /\ UNCHANGED <<execution, topic, row, lost>>
    BY <1>8 DEF vars, storeVars, memoryVars
  <2> QED
    BY <2>1, RunnerRests
<1> QED
  BY <1>1, <1>2, <1>3, <1>4, <1>5, <1>6, <1>7, <1>8 DEF Next

LEMMA SpecIInv == Spec => []IInv
  BY InvInit, InvNext, PTL DEF Spec

-----------------------------------------------------------------------------
(* The phases are kept to. *)

LEMMA TwoOfOneSequence ==
    ASSUME TypeOK, NEW s \in Seq(Runs),
           NEW i \in DOMAIN s, NEW j \in DOMAIN s, Turn(s, i), Turn(s, j),
           stage[s[i]] # "done", stage[s[j]] # "done"
    PROVE  s[i] = s[j]
<1>1. i \in Nat /\ j \in Nat /\ i >= 1 /\ j >= 1
  OBVIOUS
<1>2. ~(i < j)
  <2>1. i < j => i \in 1..j - 1
    BY <1>1
  <2> QED
    BY <2>1 DEF Turn
<1>3. ~(j < i)
  <2>1. j < i => j \in 1..i - 1
    BY <1>1
  <2> QED
    BY <2>1 DEF Turn
<1>4. i = j
  BY <1>1, <1>2, <1>3
<1> QED
  BY <1>4

\* Whoever runs is the next one of its sequence.
LEMMA RunningIsNext ==
    ASSUME IInv, at # "idle", NEW r \in Running
    PROVE  r \in Runs /\ r \in attempted /\ stage[r] # "done" /\ IsNext(r)
<1>1. r \in Runs /\ RunInv(r) /\ process[r] = "running"
  BY DEF Running, IInv, PhasesInv
<1> QED
  BY <1>1 DEF RunInv, Busy

\* The place of a run in the sequence of its service.
LEMMA PlaceOfRunning ==
    ASSUME IInv, at = "service", NEW r \in Running
    PROVE  \E g \in Active : \E i \in DOMAIN plan.groups[g] :
                plan.groups[g][i] = r /\ Turn(plan.groups[g], i)
<1>1. r \in Runs /\ stage[r] # "done" /\ IsNext(r)
  BY RunningIsNext
<1>2. PICK g \in DOMAIN plan.groups : \E i \in DOMAIN plan.groups[g] :
            g <= launched /\ plan.groups[g][i] = r /\ Turn(plan.groups[g], i)
  BY <1>1 DEF IsNext
<1>3. g \in 1..launched /\ r \in Range(plan.groups[g])
  <2>1. launched \in Nat /\ DOMAIN plan.groups = 1..Len(plan.groups) /\ Len(plan.groups) \in Nat
    BY PlanIs DEF IInv, TypeOK
  <2>2. g \in 1..launched
    BY <1>2, <2>1
  <2> QED
    BY <1>2, <2>2 DEF Range
<1> QED
  BY <1>1, <1>2, <1>3 DEF Active, AllDone

LEMMA OneOfAService ==
    ASSUME IInv, at = "service", NEW g \in DOMAIN plan.groups,
           NEW r \in Running \cap Range(plan.groups[g]), NEW u \in Running \cap Range(plan.groups[g])
    PROVE  r = u
<1>1. ASSUME NEW v \in Running \cap Range(plan.groups[g])
      PROVE  \E i \in DOMAIN plan.groups[g] : plan.groups[g][i] = v /\ Turn(plan.groups[g], i)
  <2>1. PICK h \in Active : \E i \in DOMAIN plan.groups[h] :
            plan.groups[h][i] = v /\ Turn(plan.groups[h], i)
    BY PlaceOfRunning
  <2>2. h \in DOMAIN plan.groups
    <3>1. /\ launched \in Nat /\ launched <= Len(plan.groups) /\ Len(plan.groups) \in Nat
          /\ DOMAIN plan.groups = 1..Len(plan.groups)
      BY PlanIs DEF IInv, TypeOK
    <3>2. h \in 1..launched
      BY DEF Active
    <3> QED
      BY <3>1, <3>2
  <2>3. v \in Range(plan.groups[h])
    BY <2>1 DEF Range
  <2>4. h = g
    BY <2>2, <2>3, PlanIs DEF IInv
  <2> QED
    BY <2>1, <2>4
<1>2. PICK i \in DOMAIN plan.groups[g] : plan.groups[g][i] = r /\ Turn(plan.groups[g], i)
  BY <1>1
<1>3. PICK j \in DOMAIN plan.groups[g] : plan.groups[g][j] = u /\ Turn(plan.groups[g], j)
  BY <1>1
<1>4. stage[r] # "done" /\ stage[u] # "done" /\ plan.groups[g] \in Seq(Runs)
  BY RunningIsNext, PlanIs DEF IInv
<1> QED
  BY <1>2, <1>3, <1>4, TwoOfOneSequence DEF IInv

\* A set without two different members.
LEMMA AtMostOne ==
    ASSUME NEW S, \A x, y \in S : x = y
    PROVE  IsFiniteSet(S) /\ Cardinality(S) \in {0, 1} /\ (S # {} => Cardinality(S) = 1)
<1>1. CASE S = {}
  BY <1>1, FS_EmptySet
<1>2. CASE S # {}
  <2>1. PICK x \in S : TRUE
    BY <1>2
  <2>2. S = {x}
    BY <2>1
  <2> QED
    BY <2>2, FS_Singleton
<1> QED
  BY <1>1, <1>2

\* In the phase of the services, no more run than have a place in the semaphore.
LEMMA RunningAreFew ==
    ASSUME IInv, at = "service"
    PROVE  Cardinality(Running) <= Slots
<1> DEFINE service(r) == CHOOSE g \in Active : r \in Range(plan.groups[g])
           f == [r \in Running |-> service(r)]
<1>1. ASSUME NEW r \in Running
      PROVE  service(r) \in Active /\ r \in Range(plan.groups[service(r)])
  <2>1. \E g \in Active : r \in Range(plan.groups[g])
    BY PlaceOfRunning DEF Range
  <2> QED
    BY <2>1
<1>2. Active \subseteq DOMAIN plan.groups
  <2>1. /\ launched \in Nat /\ launched <= Len(plan.groups) /\ Len(plan.groups) \in Nat
        /\ DOMAIN plan.groups = 1..Len(plan.groups)
    BY PlanIs DEF IInv, TypeOK
  <2> QED
    BY <2>1 DEF Active
<1>3. f \in [Running -> Active]
  BY <1>1
<1>4. \A r, u \in Running : f[r] = f[u] => r = u
  <2> SUFFICES ASSUME NEW r \in Running, NEW u \in Running, f[r] = f[u] PROVE r = u
    OBVIOUS
  <2>1. service(r) = service(u)
    OBVIOUS
  <2>2. r \in Range(plan.groups[service(r)]) /\ u \in Range(plan.groups[service(r)])
    BY <1>1, <2>1
  <2>3. service(r) \in DOMAIN plan.groups
    BY <1>1, <1>2
  <2> HIDE DEF service, f
  <2> QED
    BY <2>2, <2>3, OneOfAService
<1>5. IsFiniteSet(Running) /\ Cardinality(Running) <= Cardinality(Active)
  <2>1. f \in Injection(Running, Active)
    <3> HIDE DEF f
    <3> QED
      BY <1>3, <1>4 DEF Injection, IsInjective
  <2> QED
    BY <2>1, ActiveAreFew, FS_Injection DEF IInv
<1>6. Cardinality(Active) \in Nat /\ Cardinality(Active) <= Slots /\ IsFiniteSet(Active)
  BY ActiveAreFew DEF IInv, PhasesInv, PlaceInv
<1>7. Cardinality(Running) \in Nat
  BY <1>5, FS_CardinalityType
<1> QED
  BY <1>5, <1>6, <1>7, SlotsAssumption

LEMMA PhasesAreKept == IInv => PhasesInOrder
<1> SUFFICES ASSUME IInv, at # "idle" PROVE PhasesInOrder
  BY DEF PhasesInOrder
<1> DEFINE Alone(S) == Cardinality(S) \in {0, 1} /\ (S # {} => Cardinality(S) = 1)
<1>1. 0 <= Slots /\ 1 <= Slots
  BY SlotsAssumption
<1>2. CASE Running = {}
  <2>1. Cardinality({}) = 0
    BY FS_EmptySet
  <2>2. Cardinality(Running) <= Slots
    BY <1>1, <1>2, <2>1
  <2>3. ASSUME NEW g \in DOMAIN plan.groups PROVE Cardinality(Running \cap Range(plan.groups[g])) <= 1
    <3>1. Running \cap Range(plan.groups[g]) = {}
      BY <1>2
    <3> QED
      BY <2>1, <3>1
  <2> QED
    BY <1>2, <2>2, <2>3 DEF PhasesInOrder
<1>3. CASE at = "global"
  <2>1. ASSUME NEW r \in Running, NEW u \in Running PROVE r = u /\ r \in GlobalRuns
    <3>1. \A v \in Running :
            /\ stage[v] # "done"
            /\ \E i \in DOMAIN plan.global : plan.global[i] = v /\ Turn(plan.global, i)
      BY <1>3, RunningIsNext DEF IsNext
    <3>2. PICK i \in DOMAIN plan.global : plan.global[i] = r /\ Turn(plan.global, i)
      BY <3>1
    <3>3. PICK j \in DOMAIN plan.global : plan.global[j] = u /\ Turn(plan.global, j)
      BY <3>1
    <3> QED
      BY <3>1, <3>2, <3>3, TwoOfOneSequence, PlanIs DEF IInv, GlobalRuns, Range
  <2>2. Alone(Running)
    BY <2>1, AtMostOne
  <2>3. ASSUME NEW g \in DOMAIN plan.groups PROVE Cardinality(Running \cap Range(plan.groups[g])) <= 1
    <3>1. Alone(Running \cap Range(plan.groups[g]))
      BY <2>1, AtMostOne
    <3> QED
      BY <3>1
  <2>4. attempted \cap ServiceRuns = {}
    BY <1>3 DEF IInv, PhasesInv, PlaceInv
  <2>5. Running # {} => Cardinality(Running) = 1
    BY <2>2
  <2>6. Cardinality(Running) <= Slots
    BY <1>1, <2>2
  <2> QED
    BY <2>3, <2>4, <2>5, <2>6 DEF PhasesInOrder
<1>4. CASE at = "service"
  <2>1. Running \cap GlobalRuns = {}
    <3>1. AllDone(GlobalRuns)
      BY <1>4 DEF IInv, PhasesInv, PlaceInv
    <3> QED
      BY <3>1, RunningIsNext DEF AllDone
  <2>2. ASSUME NEW g \in DOMAIN plan.groups PROVE Cardinality(Running \cap Range(plan.groups[g])) <= 1
    <3>1. \A r, u \in Running \cap Range(plan.groups[g]) : r = u
      BY <1>4, OneOfAService
    <3>2. Alone(Running \cap Range(plan.groups[g]))
      BY <3>1, AtMostOne
    <3> QED
      BY <3>2
  <2> QED
    BY <1>4, <2>1, <2>2, RunningAreFew DEF PhasesInOrder
<1>5. CASE at \in {"finish", "close"}
  BY <1>2, <1>5, NobodyIsBusy DEF Running
<1> QED
  BY <1>3, <1>4, <1>5 DEF IInv, TypeOK

\* However the runs end, whatever the store refuses and whenever supd crashes: the runs of a
\* phase keep to their order and their number, and an execution that is finished has tried
\* all of its plan, has no process left and has its rows written.
THEOREM PhasesAreCarried == Spec => []PhasesAreCarriedOut
<1>1. IInv => PhasesAreCarriedOut
  BY PhasesAreKept DEF IInv, PhasesInv, PhasesAreCarriedOut
<1> QED
  BY SpecIInv, <1>1, PTL
=============================================================================
