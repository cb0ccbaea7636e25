-------------------------- MODULE ServiceLifecycle --------------------------
(***************************************************************************)
(* One service, from its first start to its last stop: the API operator    *)
(* (api/service_operator.go), the supervisor goroutine of every process    *)
(* ever forked for the service (core/supervisor.go), the readiness         *)
(* goroutines, the processes themselves and the one state machine they all *)
(* drive.                                                                  *)
(*                                                                         *)
(* The operator and a supervisor about to fork exclude each other with the *)
(* lifecycle lock of the service; everything else interleaves freely, and  *)
(* a goroutine that reads the state and acts on it does so in two steps    *)
(* whenever another goroutine's step between them can be told from one     *)
(* before or after both.                                                   *)
(*                                                                         *)
(* The answer of the restart engine is any answer some configuration gives *)
(* (policy and max_retries are hot-reloaded between two decisions); module *)
(* RestartEngine has the engine itself.                                    *)
(***************************************************************************)
EXTENDS ServiceStates

CONSTANTS
    Procs,          \* the processes that can be forked: bounds the run of TLC
    NoProc,         \* no process
    HasReadiness,   \* the service's configuration has a readiness section
    Stops           \* the requests with a stop in them that clients send

ASSUME NoProcAssumption == NoProc \notin Procs
ASSUME ReadinessAssumption == HasReadiness \in BOOLEAN
ASSUME StopsAssumption == Stops \subseteq {"stop", "restart", "force"}

VARIABLES
    state,          \* StateMachine.stateVal
    lock,           \* who holds the service's lifecycle lock
    opc,            \* where the operator is in the request it serves
    req,            \* the request it serves
    opProc,         \* the process the request starts or stops
    registered,     \* ProcessManager's entry for the service
    cancelFn,       \* cancelFuncs[name]: whose context the stored function cancels
    cancelled,      \* the processes whose supervisor's context is cancelled
    proc,           \* the operating system's view of each process
    sup,            \* where the supervisor of each process is
    next,           \* the process the supervisor of a process forked in its place
    rdy             \* the readiness goroutine of each process

opVars  == <<lock, opc, req, opProc>>
supVars == <<sup, next>>
ctxVars == <<cancelFn, cancelled>>
vars    == <<state, opVars, registered, ctxVars, proc, supVars, rdy>>

Request == {"none", "start", "stop", "restart", "force"}

OpPc == {"idle", "startCheck", "preStart", "fork", "forked",
         "stopReq", "grace", "reap"}

SupPc == {"none", "wait", "backoff", "abortStop", "abortDown",
          "lockWait", "fork", "forked", "spawn", "exit", "done"}

\* How a process ends: with exit code 0, or with another code or by a signal.
ExitKind == {"ok", "bad"}

\* "doomed": SIGKILL has been sent and takes effect.
ProcState == {"unborn", "alive", "doomed"} \cup ExitKind

Lives(p) == proc[p] \in {"alive", "doomed"}
Dead(p)  == proc[p] \in ExitKind

TypeOK ==
    /\ state \in ServiceState
    /\ lock \in {"free", "operator", "supervisor"}
    /\ opc \in OpPc
    /\ req \in Request
    /\ opProc \in Procs \cup {NoProc}
    /\ registered \in Procs \cup {NoProc}
    /\ cancelFn \in Procs \cup {NoProc}
    /\ cancelled \subseteq Procs
    /\ proc \in [Procs -> ProcState]
    /\ sup \in [Procs -> SupPc]
    /\ next \in [Procs -> Procs \cup {NoProc}]
    /\ rdy \in [Procs -> {"off", "checking", "kill"}]

Init ==
    /\ state = "pending"
    /\ lock = "free"
    /\ opc = "idle"
    /\ req = "none"
    /\ opProc = NoProc
    /\ registered = NoProc
    /\ cancelFn = NoProc
    /\ cancelled = {}
    /\ proc = [p \in Procs |-> "unborn"]
    /\ sup = [p \in Procs |-> "none"]
    /\ next = [p \in Procs |-> NoProc]
    /\ rdy = [p \in Procs |-> "off"]

-----------------------------------------------------------------------------
(* The operator: one request at a time holds the lock. *)

OpDone ==
    /\ lock' = "free"
    /\ opc' = "idle"
    /\ req' = "none"
    /\ opProc' = NoProc

OpGoTo(pc) == opc' = pc /\ UNCHANGED <<lock, req>>

\* The request is over, unless it is a restart, whose second half is a start.
OpStopped ==
    IF req = "restart"
    THEN OpGoTo("startCheck") /\ opProc' = NoProc
    ELSE OpDone

Cancel ==
    /\ cancelled' = cancelled \cup ({cancelFn} \ {NoProc})
    /\ cancelFn' = NoProc

\* StartService takes the lock and finds the service not running (a start that
\* is refused changes nothing); then the pre_start extensions run.
OpBeginStart ==
    /\ opc = "idle"
    /\ lock = "free"
    /\ state \notin Running
    /\ lock' = "operator"
    /\ req' = "start"
    /\ opc' = "preStart"
    /\ UNCHANGED <<state, opProc, registered, ctxVars, proc, supVars, rdy>>

\* RestartService's start half makes the same check, under the lock it holds.
OpRestartCheck ==
    /\ opc = "startCheck"
    /\ IF state \in Running THEN OpDone
                            ELSE OpGoTo("preStart") /\ UNCHANGED opProc
    /\ UNCHANGED <<state, registered, ctxVars, proc, supVars, rdy>>

OpStarting ==
    /\ opc = "preStart"
    /\ state' = IF state = "pending" THEN Fire(state, "depends_ready")
                                     ELSE Fire(state, "manual_start")
    /\ OpGoTo("fork")
    /\ UNCHANGED <<opProc, registered, ctxVars, proc, supVars, rdy>>

\* A bug variant of OpForkFails: one of its early returns fires no event.
OpForkFailsSilently ==
    /\ opc = "fork"
    /\ OpDone
    /\ UNCHANGED <<state, registered, ctxVars, proc, supVars, rdy>>

\* StartProcess, or the fd_notify pipe before it, fails.
OpForkFails ==
    /\ opc = "fork"
    /\ state' = Fire(state, "max_retries")
    /\ OpDone
    /\ UNCHANGED <<registered, ctxVars, proc, supVars, rdy>>

OpFork(p) ==
    /\ opc = "fork"
    /\ proc[p] = "unborn"
    /\ proc' = [proc EXCEPT ![p] = "alive"]
    /\ opProc' = p
    /\ OpGoTo("forked")
    /\ UNCHANGED <<state, registered, ctxVars, supVars, rdy>>

\* The readiness goroutine of a new process starts, or its checker cannot be
\* created and the service fails with its process alive.
StartReadiness(p, s) ==
    IF HasReadiness
    THEN \/ state' = s /\ rdy' = [rdy EXCEPT ![p] = "checking"]
         \/ state' = Fire(s, "readiness_timeout") /\ UNCHANGED rdy
    ELSE state' = s /\ UNCHANGED rdy

\* A bug variant of OpPublish: nobody supervises the process.
OpPublishUnwatched ==
    /\ opc = "forked"
    /\ StartReadiness(opProc, Fire(state, "process_started"))
    /\ registered' = opProc
    /\ cancelFn' = opProc
    /\ OpDone
    /\ UNCHANGED <<cancelled, proc, supVars>>

\* The rest of startServiceLocked. What it writes after the state is read under
\* the lock alone (the registry) or by steps that commute with the state.
OpPublish ==
    /\ opc = "forked"
    /\ StartReadiness(opProc, Fire(state, "process_started"))
    /\ registered' = opProc
    /\ cancelFn' = opProc
    /\ sup' = [sup EXCEPT ![opProc] = "wait"]
    /\ OpDone
    /\ UNCHANGED <<cancelled, proc, next>>

\* StopService, the stop half of RestartService and ForceStopService: take the lock,
\* look the process up and cancel the supervisor's context. With no process
\* registered there is nothing to stop: the branch that brings a starting service
\* down by hand is never taken, as RunningIsRegistered shows.
OpBeginStop(r) ==
    /\ opc = "idle"
    /\ lock = "free"
    /\ Cancel
    /\ \/ /\ registered # NoProc
          /\ lock' = "operator"
          /\ req' = r
          /\ opc' = "stopReq"
          /\ opProc' = registered
       \/ /\ registered = NoProc
          /\ r = "restart"
          /\ lock' = "operator"
          /\ req' = r
          /\ opc' = "startCheck"
          /\ UNCHANGED opProc
       \/ /\ registered = NoProc
          /\ r # "restart"
          /\ UNCHANGED opVars
    /\ UNCHANGED <<state, registered, proc, supVars, rdy>>

Kill(p) == proc' = [proc EXCEPT ![p] = IF @ = "alive" THEN "doomed" ELSE @]

\* A forced stop goes straight to SIGKILL, a stop runs pre_stop and sends
\* SIGTERM first, which the process may take any time to obey.
OpStopRequest ==
    /\ opc = "stopReq"
    /\ state' = Fire(state, "stop_requested")
    /\ IF req = "force" THEN OpGoTo("reap") /\ Kill(opProc)
                        ELSE OpGoTo("grace") /\ UNCHANGED proc
    /\ UNCHANGED <<opProc, registered, ctxVars, supVars, rdy>>

\* A bug variant of OpGraceOver: the SIGKILL is forgotten.
OpGraceOverNoKill ==
    /\ opc = "grace"
    /\ OpGoTo("reap")
    /\ UNCHANGED <<state, opProc, registered, ctxVars, proc, supVars, rdy>>

\* The grace period, or the total time, is over.
OpGraceOver ==
    /\ opc = "grace"
    /\ Kill(opProc)
    /\ OpGoTo("reap")
    /\ UNCHANGED <<state, opProc, registered, ctxVars, supVars, rdy>>

\* The total time is over after the SIGKILL: StopService returns an error, which
\* ends a restart without its start half; the operator still waits for the death
\* of the process, whose output closeLogger drains.
OpStopTimesOut ==
    /\ opc = "reap"
    /\ req = "restart"
    /\ req' = "stop"
    /\ UNCHANGED <<state, lock, opc, opProc, registered, ctxVars, proc, supVars, rdy>>

OpReap ==
    /\ opc \in {"grace", "reap"}
    /\ Dead(opProc)
    /\ registered' = NoProc
    /\ state' = Fire(state, "process_exited")
    /\ OpStopped
    /\ UNCHANGED <<ctxVars, proc, supVars, rdy>>

\* ClearFailedState; ResetTo passes by the table.
OpClearFailed ==
    /\ opc = "idle"
    /\ lock = "free"
    /\ state = "failed"
    /\ state' = "down"
    /\ UNCHANGED <<opVars, registered, ctxVars, proc, supVars, rdy>>

-----------------------------------------------------------------------------
(* The supervisor of process p: RunSupervisor, and the superviseService or  *)
(* the goroutine around it.                                                 *)

SupGoTo(p, pc) == sup' = [sup EXCEPT ![p] = pc]

\* What DecideRestart can answer to an exit: only the on-failure policy takes
\* exit code 0 for a normal end, and any policy can have used its retries up.
Answers(exit) == {"restart", "fail"} \cup (IF exit = "ok" THEN {"finish"} ELSE {})

AnswerEvent(answer) ==
    CASE answer = "restart" -> "restart_allowed"
      [] answer = "fail"    -> "max_retries"
      [] answer = "finish"  -> "normal_exit"

\* proc.Wait returns, handleProcessExit reports the exit, DecideRestart decides
\* and its event is fired. The first look at the state and the event are one
\* step: the table refuses these events in exactly the states that end the
\* supervisor at the look.
SupDecide(p) ==
    /\ sup[p] = "wait"
    /\ Dead(p)
    /\ \E answer \in Answers(proc[p]) :
          /\ state' = Fire(state, AnswerEvent(answer))
          /\ SupGoTo(p, IF state \in Running /\ answer = "restart"
                        THEN "backoff" ELSE "exit")
    /\ UNCHANGED <<opVars, registered, ctxVars, proc, next, rdy>>

\* The timer of doBackoff fires and the state is looked at once more, outside
\* the lock.
SupBackoffOver(p) ==
    /\ sup[p] = "backoff"
    /\ SupGoTo(p, IF state = "starting" THEN "lockWait" ELSE "exit")
    /\ UNCHANGED <<state, opVars, registered, ctxVars, proc, next, rdy>>

\* doBackoff's context is cancelled. With the timer over as well the code takes
\* either way.
SupBackoffCancelled(p) ==
    /\ sup[p] = "backoff"
    /\ p \in cancelled
    /\ SupGoTo(p, IF state = "starting" THEN "abortStop" ELSE "exit")
    /\ UNCHANGED <<state, opVars, registered, ctxVars, proc, next, rdy>>

\* A bug variant of SupAbortStop: stopping is taken for the end of it.
SupAbortStopOnly(p) ==
    /\ sup[p] = "abortStop"
    /\ state' = Fire(state, "stop_requested")
    /\ SupGoTo(p, "exit")
    /\ UNCHANGED <<opVars, registered, ctxVars, proc, next, rdy>>

SupAbortStop(p) ==
    /\ sup[p] = "abortStop"
    /\ state' = Fire(state, "stop_requested")
    /\ SupGoTo(p, "abortDown")
    /\ UNCHANGED <<opVars, registered, ctxVars, proc, next, rdy>>

SupAbortDown(p) ==
    /\ sup[p] = "abortDown"
    /\ state' = Fire(state, "backoff_abort")
    /\ SupGoTo(p, "exit")
    /\ UNCHANGED <<opVars, registered, ctxVars, proc, next, rdy>>

\* A bug variant of SupLock: no AcquireLifecycleLock callback was injected.
SupLockNone(p) ==
    /\ sup[p] = "lockWait"
    /\ SupGoTo(p, "fork")
    /\ UNCHANGED <<state, opVars, registered, ctxVars, proc, next, rdy>>

SupLock(p) ==
    /\ sup[p] = "lockWait"
    /\ lock = "free"
    /\ lock' = "supervisor"
    /\ SupGoTo(p, "fork")
    /\ UNCHANGED <<state, opc, req, opProc, registered, ctxVars, proc, next, rdy>>

\* A bug variant of SupForkFails: one of its early returns fires no event.
SupForkFailsSilently(p) ==
    /\ sup[p] = "fork"
    /\ lock' = "free"
    /\ SupGoTo(p, "exit")
    /\ UNCHANGED <<state, opc, req, opProc, registered, ctxVars, proc, next, rdy>>

\* The runtime cannot be resolved, the fd_notify pipe or the process cannot be
\* created.
SupForkFails(p) ==
    /\ sup[p] = "fork"
    /\ state' = Fire(state, "max_retries")
    /\ lock' = "free"
    /\ SupGoTo(p, "exit")
    /\ UNCHANGED <<opc, req, opProc, registered, ctxVars, proc, next, rdy>>

SupFork(p, q) ==
    /\ sup[p] = "fork"
    /\ proc[q] = "unborn"
    /\ proc' = [proc EXCEPT ![q] = "alive"]
    /\ next' = [next EXCEPT ![p] = q]
    /\ SupGoTo(p, "forked")
    /\ UNCHANGED <<state, opVars, registered, ctxVars, rdy>>

\* A bug variant of SupPublish: the lock is not given back.
SupPublishLocked(p) ==
    /\ sup[p] = "forked"
    /\ state' = Fire(state, "process_started")
    /\ registered' = next[p]
    /\ SupGoTo(p, "spawn")
    /\ UNCHANGED <<opVars, ctxVars, proc, next, rdy>>

\* The rest of doRestartProcess, and the unlock.
SupPublish(p) ==
    /\ sup[p] = "forked"
    /\ state' = Fire(state, "process_started")
    /\ registered' = next[p]
    /\ lock' = "free"
    /\ SupGoTo(p, "spawn")
    /\ UNCHANGED <<opc, req, opProc, ctxVars, proc, next, rdy>>

\* A bug variant of SupSpawn: SpawnNextSupervisor is not injected.
SupSpawnNone(p) ==
    /\ sup[p] = "spawn"
    /\ SupGoTo(p, "exit")
    /\ StartReadiness(next[p], state)
    /\ UNCHANGED <<opVars, registered, ctxVars, proc, next>>

\* SpawnNextSupervisor, then RunReadiness with the new context.
SupSpawn(p) ==
    /\ sup[p] = "spawn"
    /\ cancelFn' = next[p]
    /\ sup' = [sup EXCEPT ![p] = "exit", ![next[p]] = "wait"]
    /\ StartReadiness(next[p], state)
    /\ UNCHANGED <<opVars, registered, cancelled, proc, next>>

\* superviseService's deferred delete: it does not look whose function it is.
SupReturn(p) ==
    /\ sup[p] = "exit"
    /\ cancelFn' = NoProc
    /\ SupGoTo(p, "done")
    /\ UNCHANGED <<state, opVars, registered, cancelled, proc, next, rdy>>

-----------------------------------------------------------------------------
(* The readiness goroutine of process p, runReadinessCheck. Its check asks  *)
(* a port, a URL or a script, not the process: it may pass or time out      *)
(* whoever answers, and select takes any ready branch.                      *)

RdyPass(p) ==
    /\ rdy[p] = "checking"
    /\ state' = Fire(state, "readiness_passed")
    /\ rdy' = [rdy EXCEPT ![p] = "off"]
    /\ UNCHANGED <<opVars, registered, ctxVars, proc, supVars>>

RdyTimeout(p) ==
    /\ rdy[p] = "checking"
    /\ state' = Fire(state, "readiness_timeout")
    /\ rdy' = [rdy EXCEPT ![p] = "kill"]
    /\ UNCHANGED <<opVars, registered, ctxVars, proc, supVars>>

RdyKill(p) ==
    /\ rdy[p] = "kill"
    /\ Kill(p)
    /\ rdy' = [rdy EXCEPT ![p] = "off"]
    /\ UNCHANGED <<state, opVars, registered, ctxVars, supVars>>

\* The process is gone, or the context is cancelled: that of a start by the
\* operator is never, that of a restart is the new supervisor's.
RdyReturn(p) ==
    /\ rdy[p] = "checking"
    /\ \/ Dead(p)
       \/ p \in cancelled /\ \E q \in Procs : next[q] = p
    /\ rdy' = [rdy EXCEPT ![p] = "off"]
    /\ UNCHANGED <<state, opVars, registered, ctxVars, proc, supVars>>

-----------------------------------------------------------------------------
(* The processes: one ends by itself or obeys a signal at any time. *)

End(p, exit) ==
    /\ proc[p] = "alive"
    /\ proc' = [proc EXCEPT ![p] = exit]
    /\ UNCHANGED <<state, opVars, registered, ctxVars, supVars, rdy>>

Reaped(p) ==
    /\ proc[p] = "doomed"
    /\ proc' = [proc EXCEPT ![p] = "bad"]
    /\ UNCHANGED <<state, opVars, registered, ctxVars, supVars, rdy>>

-----------------------------------------------------------------------------
\* The steps of a request in progress.
OpStep ==
    \/ OpRestartCheck \/ OpStarting \/ OpForkFails \/ OpPublish
    \/ \E p \in Procs : OpFork(p)
    \/ OpStopRequest \/ OpGraceOver \/ OpStopTimesOut \/ OpReap

OpBegin ==
    \/ OpBeginStart
    \/ \E r \in Stops : OpBeginStop(r)
    \/ OpClearFailed

SupStep(p) ==
    \/ SupDecide(p) \/ SupBackoffOver(p) \/ SupBackoffCancelled(p)
    \/ SupAbortStop(p) \/ SupAbortDown(p)
    \/ SupLock(p) \/ SupForkFails(p) \/ SupPublish(p) \/ SupSpawn(p) \/ SupReturn(p)
    \/ \E q \in Procs : SupFork(p, q)

RdyStep(p) == RdyPass(p) \/ RdyTimeout(p) \/ RdyKill(p) \/ RdyReturn(p)

ProcStep(p) == Reaped(p) \/ \E exit \in ExitKind : End(p, exit)

Next ==
    \/ OpBegin \/ OpStep
    \/ \E p \in Procs : SupStep(p) \/ RdyStep(p) \/ ProcStep(p)

Spec == Init /\ [][Next]_vars

\* Go runs every goroutine that can run, its mutexes are handed to a waiter that
\* has waited for long (sync.Mutex's starvation mode), timers fire and SIGKILL
\* works; nobody has to send a request, and no process has to end by itself.
Fairness ==
    /\ WF_vars(OpStep)
    /\ \A p \in Procs : /\ WF_vars(SupStep(p))
                        /\ SF_vars(SupLock(p))
                        /\ WF_vars(RdyStep(p))
                        /\ WF_vars(Reaped(p))

FairSpec == Spec /\ Fairness
-----------------------------------------------------------------------------
(* What the states and the goroutines promise each other. *)

\* Process p is forked and its supervisor is about to be started.
InHand(p) ==
    \/ opc = "forked" /\ opProc = p
    \/ \E q \in Procs : next[q] = p /\ sup[q] \in {"forked", "spawn"}

\* The death of process p is still to be acted on.
Watched(p) == sup[p] = "wait" \/ InHand(p)

\* At most one goroutine is between its last look at the state and the
\* registration of the process it forks: the lifecycle lock that
\* AcquireLifecycleLock takes "before the fork of an automatic restart".
NoTwoForkers ==
    \A p \in Procs : sup[p] \in {"fork", "forked"} =>
        /\ opc = "idle"
        /\ \A q \in Procs \ {p} : sup[q] \notin {"fork", "forked"}

\* Every live child of supd has a goroutine in, or about to be in, proc.Wait: no
\* zombie and no process whose exit code is lost.
ChildrenAreWaitedFor == \A p \in Procs : Lives(p) => Watched(p)

\* However late a supervisor takes the lock, and whatever request comes between
\* the fork and the registration of a process, no two goroutines fork for the
\* service and no child is left without one that waits for it.
OneForker == NoTwoForkers /\ ChildrenAreWaitedFor

\* A service shown as up or ready has a process whose death is still to be acted
\* on: no interleaving of stale supervisors, stops and restarts leaves it up with
\* nobody to notice that it is not.
UpIsWatched == state \in {"up", "ready"} => \E p \in Procs : Watched(p)

\* A service shown as starting is being started, or waits for its backoff, or is
\* being taken out of it: it is not stuck there.
StartingIsDriven ==
    state = "starting" =>
        \/ opc \in {"fork", "forked"}
        \/ \E p \in Procs :
              sup[p] \in {"backoff", "abortStop", "lockWait", "fork", "forked"}

\* A service shown as stopping is being stopped: somebody is going to fire
\* process_exited or backoff_abort.
StoppingIsDriven ==
    state = "stopping" =>
        \/ opc \in {"grace", "reap"}
        \/ \E p \in Procs : sup[p] = "abortDown"

\* From its stop_requested to the end of the stop nothing takes the service back
\* to a running state, whatever supervisors and readiness checks still do.
StopHolds == opc \in {"grace", "reap"} => state \notin Running

\* A service that is starting, up or ready has a registered process, if only a dead one,
\* unless its first is being forked: a stop always finds what it has to stop, a
\* service in its backoff included.
RunningIsRegistered ==
    registered = NoProc => state \notin Running \/ opc \in {"fork", "forked"}

\* No interleaving of requests, late supervisors and late readiness checks takes
\* the state from whoever is to move it on: it is never up with nobody to notice
\* its end, never stuck in starting or stopping, not taken back from a stop, and
\* what runs can be stopped.
StateIsCarried ==
    UpIsWatched /\ StartingIsDriven /\ StoppingIsDriven /\ StopHolds /\ RunningIsRegistered

\* Only a request of the operator takes a service out of down or failed: a
\* supervisor or a readiness check that is late never revives it.
LeavesRest ==
    /\ state \in {"down", "failed"}
    /\ state' # state

Requested ==
    \/ opc = "preStart" /\ state' = "starting"
    \/ opc = "idle" /\ lock = "free" /\ state = "failed" /\ state' = "down"

RestIsLeftByRequest == [][LeavesRest => Requested]_vars

\* Every request ends, a forced or a plain stop of a process that ignores
\* SIGTERM included.
RequestsEnd == opc # "idle" ~> opc = "idle"

\* Starting is not for ever.
StartingEnds == state = "starting" ~> state # "starting"

\* The supervisor of every process that dies comes to an end, its backoff, its
\* wait for the lock and the restart behind it.
SupervisorsEnd == \A p \in Procs : Dead(p) ~> sup[p] = "done"

\* The lock is passed between requests, supervisors and their successors, and
\* whoever holds it may wait for a process that another has to reap: none of them
\* waits for ever.
NothingHangs == RequestsEnd /\ StartingEnds /\ SupervisorsEnd

=============================================================================
