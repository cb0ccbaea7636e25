-------------------------------- MODULE Daemon --------------------------------
(***************************************************************************)
(* supd as a whole: the bootstrap that starts the services layer by layer  *)
(* (core/bootstrap.go), the coordinator that starts a waiting service when *)
(* its dependencies are there (core/dependency.go), requests, supervisors  *)
(* and readiness checks while it serves, the shutdown in reverse layers    *)
(* with its deadline (core/shutdown.go), a crash of supd at any point, and *)
(* the PID files by which the next supd finds what the last one left       *)
(* (core/pidfile.go). cli/run.go gives the order of all this.              *)
(*                                                                         *)
(* What happens to one service is coarser here than in ServiceLifecycle:   *)
(* the operator's stop is two steps, a request is not made while an older  *)
(* supervisor of the service is still about, and the answer of the restart *)
(* engine is any. What is finer is who has told whom: the registry and its *)
(* PID files hold one process per service, and the bootstrap registers a   *)
(* process only when the goroutine that forked it reports.                 *)
(***************************************************************************)
EXTENDS ServiceStates, DependencyGraph

CONSTANTS
    Services,       \* the services that have a configuration, now or later
    Confs,          \* the configurations a run may have
    MaxGen,         \* bound: the processes forked for one service
    MaxFaults       \* bound: the processes that end by themselves or are not forked

\* deps: what a service depends on; auto: autostart; readiness: has a readiness
\* section; late: what is created while supd runs. requests and boots bound the requests clients
\* send and the times supd is started.
ConfType == [deps: [Services -> SUBSET Services], auto: SUBSET Services,
             readiness: SUBSET Services, late: SUBSET Services,
             requests: Nat, boots: Nat]

ASSUME ServicesAssumption == IsFiniteSet(Services)
ASSUME ConfsAssumption == Confs \subseteq ConfType
ASSUME BoundsAssumption == MaxGen \in Nat /\ MaxFaults \in Nat

VARIABLES
    conf,           \* the configuration files
    phase,          \* how far supd is
    sig,            \* SIGTERM or SIGINT has arrived (ctx is done)
    known,          \* result.Discovery.Services
    graph,          \* result.DepGraph
    layers,         \* the layers the bootstrap or the shutdown has still to go through
    st,             \* StateMachines
    lock,           \* LifecycleLocks: who holds the lock of each service
    gen,            \* how many processes have been forked for each service
    alive,          \* which of them live
    reg,            \* ProcessMgr's entry and PID file: a process or 0
    sup,            \* where the latest supervisor of each service is
    org,            \* whose superviseService it runs
    chk,            \* the readiness check of the latest process, outside the bootstrap's own
    boot,           \* the bootstrap's goroutine for each service
    res,            \* the process in the goroutine's startResult
    hand,           \* the services a request or the coordinator has forked, not registered
    co,             \* the coordinator's goroutine for each service
    turn,           \* the shutdown's goroutine for each service
    missed,         \* history: the services a wake-up has been lost for
    lost,           \* history: the processes the books need not account for
    stopped,        \* history: the process the shutdown stopped for each service
    faults, requests, boots

files    == <<conf, known, graph>>
ctl      == <<phase, sig, layers>>
procs    == <<gen, alive>>
supVars  == <<sup, org, chk>>
bootVars == <<boot, res>>
coVars   == <<hand, co>>
history  == <<missed, lost, stopped>>
bounds   == <<faults, requests, boots>>
vars     == <<files, ctl, st, lock, procs, reg, supVars, bootVars, coVars, turn, history, bounds>>

Phase == {"off", "boot", "enable", "scan", "serving", "preShutdown", "stopping", "exiting"}
BootPc == {"none", "lock", "fork", "check", "result", "done"}
CoPc == {"none", "marked", "start", "unmark"}
SupPc == {"none", "wait", "backoff", "lock", "forked"}
TurnPc == {"none", "skipped", "lock", "stop", "over"}
Holder == {"free", "boot", "api", "coord", "stop", "sup", "shut"}

TypeOK ==
    /\ conf \in Confs
    /\ phase \in Phase /\ sig \in BOOLEAN
    /\ known \subseteq Services /\ DOMAIN graph \subseteq Services
    /\ \A k \in DOMAIN layers : layers[k] \subseteq Services
    /\ st \in [Services -> ServiceState] /\ lock \in [Services -> Holder]
    /\ gen \in [Services -> 0..MaxGen] /\ alive \in [Services -> SUBSET (1..MaxGen)]
    /\ reg \in [Services -> 0..MaxGen]
    /\ sup \in [Services -> SupPc] /\ org \in [Services -> {"boot", "api"}]
    /\ chk \subseteq Services
    /\ boot \in [Services -> BootPc] /\ res \in [Services -> 0..MaxGen]
    /\ hand \subseteq Services
    /\ co \in [Services -> CoPc]
    /\ turn \in [Services -> TurnPc]
    /\ missed \subseteq Services
    /\ lost \subseteq Services \X (1..MaxGen)
    /\ stopped \in [Services -> 0..MaxGen]
    /\ faults \in 0..MaxFaults /\ requests \in 0..conf.requests /\ boots \in 0..conf.boots

Runs == phase # "off"
HasReadiness(s) == s \in conf.readiness
Lives(s) == gen[s] \in alive[s]

\* The state in which a dependent may count on the service.
Dependable(s) == st[s] = (IF HasReadiness(s) THEN "ready" ELSE "up")

Set(f, s, v) == [f EXCEPT ![s] = v]
All(v) == [s \in Services |-> v]

Init ==
    /\ conf \in Confs
    /\ known = Services \ conf.late
    /\ phase = "off" /\ graph = <<>> /\ layers = <<>> /\ sig = FALSE
    /\ st = All("pending") /\ lock = All("free")
    /\ gen = All(0) /\ alive = All({}) /\ reg = All(0)
    /\ sup = All("none") /\ org = All("boot") /\ chk = {}
    /\ boot = All("none") /\ res = All(0) /\ hand = {}
    /\ co = All("none") /\ turn = All("none")
    /\ missed = {} /\ lost = {} /\ stopped = All(0)
    /\ faults = 0 /\ requests = 0 /\ boots = 0

-----------------------------------------------------------------------------
(* The bootstrap. *)

\* What the bootstrap leaves alone: the cycle it found, self references and missing
\* dependencies. (A service whose configuration has an error is not in known: discovery
\* leaves it out, and the filter for it finds none.)
Skipped(g, cycle) ==
    cycle \cup DetectSelfReference(g) \cup MissingDependencies(g, DOMAIN g)

\* The graph without them, and without the edges to cycles and self references. An edge to a name that is not there stays; the sort ignores it.
CleanGraph(g, cycle) ==
    LET off == cycle \cup DetectSelfReference(g)
    IN  [s \in DOMAIN g \ Skipped(g, cycle) |-> g[s] \ off]

\* The layers, each cut down to what is started. With one more cycle in the clean
\* graph there are none, and nothing is started.
BootLayers(g, cycle) ==
    LET sorted == IF Acyclic(g) THEN TopologicalSort(g) ELSE TopologicalSort(CleanGraph(g, cycle))
        off    == MissingDependencies(g, DOMAIN g)
    IN  [k \in DOMAIN sorted |-> (sorted[k] \cap conf.auto) \ off]

\* A bug variant: the files are removed, the processes stay.
ReapOrphansFilesOnly == alive' = alive /\ reg' = All(0)

\* ReapOrphans kills what lives and has a PID file; every PID file goes.
ReapOrphans ==
    /\ alive' = [s \in Services |-> alive[s] \ {reg[s]}]
    /\ reg' = All(0)

\* Bootstrap.Run up to the first layer.
BootRun ==
    /\ phase = "off"
    /\ boots < conf.boots /\ boots' = boots + 1
    /\ ReapOrphans
    /\ LET g == [s \in known |-> conf.deps[s]]
       IN  /\ graph' = g
           /\ \E cycle \in DetectCycle(g) : layers' = BootLayers(g, cycle)
    /\ st' = [s \in Services |->
                 IF s \in known /\ s \notin conf.auto THEN "down" ELSE "pending"]
    /\ phase' = "boot"
    /\ UNCHANGED <<conf, known, sig, lock, gen, supVars, bootVars, coVars, turn, history, faults,
                   requests>>

\* A bug variant: the layer is taken while the last one is still starting.
BootNextLayerEarly ==
    /\ phase = "boot" /\ layers # <<>>
    /\ boot' = [s \in Services |-> IF s \in Head(layers) THEN "lock" ELSE boot[s]]
    /\ layers' = Tail(layers)
    /\ UNCHANGED <<files, phase, sig, st, lock, procs, reg, supVars, res, coVars, turn,
                   history, bounds>>

\* Every goroutine of the layer has reported and the next layer is taken.
BootNextLayer ==
    /\ phase = "boot" /\ layers # <<>>
    /\ \A s \in Services : boot[s] \in {"none", "done"}
    /\ boot' = [s \in Services |-> IF s \in Head(layers) THEN "lock" ELSE boot[s]]
    /\ layers' = Tail(layers)
    /\ UNCHANGED <<files, phase, sig, st, lock, procs, reg, supVars, res, coVars, turn,
                   history, bounds>>

\* startService takes the lock, fires depends_ready and runs the pre_start hook.
BootStart(s) ==
    /\ Runs /\ boot[s] = "lock" /\ lock[s] = "free"
    /\ lock' = Set(lock, s, "boot")
    /\ st' = Set(st, s, Fire(st[s], "depends_ready"))
    /\ boot' = Set(boot, s, "fork")
    /\ UNCHANGED <<files, ctl, procs, reg, supVars, res, coVars, turn, history, bounds>>

\* A process ends by itself, is found not ready in time, or is not forked.
Fault == faults < MaxFaults /\ faults' = faults + 1

NoFork(s) == Fault \/ (gen[s] = MaxGen /\ UNCHANGED faults)

Fork(s) ==
    /\ gen[s] < MaxGen
    /\ gen' = [gen EXCEPT ![s] = @ + 1]
    /\ alive' = [alive EXCEPT ![s] = @ \cup {gen[s] + 1}]

\* The process and its supervisor; a readiness check goes on under the lock.
BootForks(s) ==
    /\ Runs /\ boot[s] = "fork"
    /\ Fork(s)
    /\ res' = Set(res, s, gen[s] + 1)
    /\ st' = Set(st, s, Fire(st[s], "process_started"))
    /\ sup' = Set(sup, s, "wait") /\ org' = Set(org, s, "boot")
    /\ IF HasReadiness(s) THEN boot' = Set(boot, s, "check") /\ UNCHANGED lock
       ELSE boot' = Set(boot, s, "result") /\ lock' = Set(lock, s, "free")
    /\ UNCHANGED <<files, ctl, reg, chk, coVars, turn, history, bounds>>

\* The fork fails: no process, and nothing to register.
BootForkFails(s) ==
    /\ Runs /\ boot[s] = "fork"
    /\ NoFork(s)
    /\ st' = Set(st, s, Fire(st[s], "max_retries"))
    /\ lock' = Set(lock, s, "free")
    /\ boot' = Set(boot, s, "done")
    /\ UNCHANGED <<files, ctl, procs, reg, supVars, res, coVars, turn, history, requests, boots>>

\* checkReadiness passes, finds the process gone or its context done, or times out
\* and kills the process; startService lets go of the lock and reports.
BootCheckEnds(s) ==
    /\ Runs /\ boot[s] = "check"
    /\ \/ st' = Set(st, s, Fire(st[s], "readiness_passed")) /\ UNCHANGED <<alive, faults>>
       \/ (~Lives(s) \/ sig) /\ UNCHANGED <<st, alive, faults>>
       \/ /\ Fault
          /\ st' = Set(st, s, Fire(st[s], "readiness_timeout"))
          /\ alive' = [alive EXCEPT ![s] = @ \ {res[s]}]
    /\ lock' = Set(lock, s, "free")
    /\ boot' = Set(boot, s, "result")
    /\ UNCHANGED <<files, ctl, gen, reg, supVars, res, coVars, turn, history, requests, boots>>

\* The processes that leave the books when supd ends: they live and the goroutine
\* that forked them has not had them registered.
InHand == {<<s, gen[s]>> : s \in {s \in Services :
                /\ Lives(s) /\ reg[s] # gen[s]
                /\ boot[s] \in {"check", "result"} \/ s \in hand \/ sup[s] = "forked"}}

\* The main goroutine takes a result and registers its process. If the supervisor
\* has replaced that process meanwhile, the entry of the new one is overwritten.
BootRegisters(s) ==
    /\ phase = "boot" /\ boot[s] = "result"
    /\ reg' = Set(reg, s, res[s])
    /\ lost' = IF reg[s] > res[s] THEN lost \cup {<<s, reg[s]>>} ELSE lost
    /\ boot' = Set(boot, s, "done")
    /\ UNCHANGED <<files, ctl, st, lock, procs, supVars, res, coVars, turn, missed, stopped,
                   bounds>>

\* The processes that have an entry are killed and their entries removed.
KillRegistered ==
    /\ alive' = [s \in Services |-> alive[s] \ {reg[s]}]
    /\ reg' = All(0)

\* Run sees that its context is done, before the first layer or while it waits for
\* results, and returns; Cleanup kills what is registered by then.
BootInterrupted ==
    /\ phase = "boot" /\ sig
    /\ \/ \E s \in Services : boot[s] \notin {"none", "done"}
       \/ \A s \in Services : boot[s] = "none"
    /\ KillRegistered
    /\ phase' = "exiting"
    /\ UNCHANGED <<files, sig, layers, st, lock, gen, supVars, bootVars, coVars, turn, history,
                   bounds>>

\* All layers are through: Run returns without error.
BootDone ==
    /\ phase = "boot" /\ layers = <<>>
    /\ \A s \in Services : boot[s] \in {"none", "done"}
    /\ phase' = "enable"
    /\ UNCHANGED <<files, sig, layers, st, lock, procs, reg, supVars, bootVars, coVars, turn,
                   history, bounds>>

-----------------------------------------------------------------------------
(* The coordinator. *)

Enabled == phase \notin {"off", "boot", "enable"}

\* CanAutoRecover, in the states w of the services.
CanAutoRecover(m, w) ==
    /\ m \in known /\ m \in conf.auto
    /\ w[m] = "pending"
    /\ \A d \in conf.deps[m] :
          d \in known /\ w[d] = (IF HasReadiness(d) THEN "ready" ELSE "up")

\* The dependents of d that tryStart would start if it were asked now.
Wakeable(d, w) == {m \in GetDependents(graph, d) : CanAutoRecover(m, w)}

\* OnServiceDependable(d), with c the coordinator's goroutines: those that are not
\* at it yet are marked. A call for one that is at it already comes to nothing.
OnServiceDependable(d, w, c) ==
    LET free == {m \in Wakeable(d, w) : c[m] = "none"}
    IN  IF Enabled
        THEN /\ co' = [m \in Services |-> IF m \in free THEN "marked" ELSE c[m]]
             /\ missed' = (missed \ free) \cup (Wakeable(d, w) \ free)
        ELSE co' = c /\ missed' = missed

\* A service of the bootstrap's becomes dependable again: its supervisor has no
\* OnDependable and its checkReadiness does not call the coordinator.
NobodyTold(d, w) ==
    /\ missed' = missed \cup Wakeable(d, w)
    /\ UNCHANGED co

\* injectProviders enables the coordinator, then looks at every service there is: the
\* order in which it does makes no difference.
Enable ==
    /\ phase = "enable"
    /\ phase' = "scan"
    /\ UNCHANGED <<files, sig, layers, st, lock, procs, reg, supVars, bootVars, coVars, turn,
                   history, bounds>>

Scan ==
    /\ phase = "scan"
    /\ phase' = "serving"
    /\ LET woken == IF Enabled THEN UNION {Wakeable(d, st) : d \in {d \in known : Dependable(d)}}
                    ELSE {}
       IN  /\ co' = [m \in Services |->
                        IF m \in woken /\ co[m] = "none" THEN "marked" ELSE co[m]]
           /\ missed' = missed \ {m \in woken : co[m] = "none"}
    /\ UNCHANGED <<files, sig, layers, st, lock, procs, reg, supVars, bootVars, hand, turn, lost,
                   stopped, bounds>>

\* tryStart's goroutine: it looks at its context and at canStart once more.
CoRecheck(s) ==
    /\ Runs /\ co[s] = "marked"
    /\ \/ CanAutoRecover(s, st) /\ co' = Set(co, s, "start")
       \/ (sig \/ ~CanAutoRecover(s, st)) /\ co' = Set(co, s, "unmark")
    /\ UNCHANGED <<files, ctl, st, lock, procs, reg, supVars, bootVars, hand, turn,
                   history, bounds>>

\* Its StartService takes the lock, and refuses a service that is running.
CoStart(s) ==
    /\ Runs /\ co[s] = "start" /\ lock[s] = "free"
    /\ IF st[s] \in Running
       THEN co' = Set(co, s, "unmark") /\ UNCHANGED lock
       ELSE lock' = Set(lock, s, "coord") /\ UNCHANGED co
    /\ UNCHANGED <<files, ctl, st, procs, reg, supVars, bootVars, hand, turn, history,
                   bounds>>

CoUnmark(s) ==
    /\ Runs /\ co[s] = "unmark"
    /\ co' = Set(co, s, "none")
    /\ UNCHANGED <<files, ctl, st, lock, procs, reg, supVars, bootVars, hand, turn,
                   history, bounds>>

-----------------------------------------------------------------------------
(* Requests. They are answered from the time the server listens until         *)
(* markDraining.                                                              *)

Open == phase \in {"serving", "preShutdown"}

\* StartService takes the lock and runs the pre_start hook.
ApiStart(s) ==
    /\ Open /\ requests < conf.requests /\ requests' = requests + 1
    /\ s \in known /\ lock[s] = "free" /\ st[s] \notin Running /\ sup[s] = "none"
    /\ lock' = Set(lock, s, "api")
    /\ UNCHANGED <<files, ctl, st, procs, reg, supVars, bootVars, coVars, turn, history, faults,
                   boots>>

\* The end of a start: the lock is free, and the coordinator's mark goes.
LetGo(s) == lock' = Set(lock, s, "free")
CoDone(s) == IF lock[s] = "coord" THEN Set(co, s, "unmark") ELSE co

\* startServiceLocked after the hook: a pending service fires depends_ready,
\* another one manual_start.
Starting(s) == Fire(st[s], IF st[s] = "pending" THEN "depends_ready" ELSE "manual_start")

StartForks(s) ==
    /\ Runs /\ lock[s] \in {"api", "coord"} /\ s \notin hand
    /\ Fork(s)
    /\ st' = Set(st, s, Fire(Starting(s), "process_started"))
    /\ hand' = hand \cup {s}
    /\ UNCHANGED <<files, ctl, lock, reg, supVars, bootVars, co, turn, history, bounds>>

StartForkFails(s) ==
    /\ Runs /\ lock[s] \in {"api", "coord"} /\ s \notin hand
    /\ NoFork(s)
    /\ st' = Set(st, s, Fire(Starting(s), "max_retries"))
    /\ LetGo(s) /\ co' = CoDone(s)
    /\ UNCHANGED <<files, ctl, procs, reg, supVars, bootVars, hand, turn, history, requests, boots>>

\* The process is registered, a readiness check or the dependents are set off, and
\* the supervisor starts.
StartPublishes(s) ==
    /\ Runs /\ s \in hand
    /\ hand' = hand \ {s}
    /\ reg' = Set(reg, s, gen[s])
    /\ sup' = Set(sup, s, "wait") /\ org' = Set(org, s, "api")
    /\ LetGo(s)
    /\ IF HasReadiness(s)
       THEN chk' = chk \cup {s} /\ co' = CoDone(s) /\ UNCHANGED missed
       ELSE OnServiceDependable(s, st, CoDone(s)) /\ UNCHANGED chk
    /\ UNCHANGED <<files, ctl, st, procs, bootVars, turn, lost, stopped, bounds>>

\* StopService: nothing registered means at most a backoff to end.
ApiStop(s) ==
    /\ Open /\ requests < conf.requests /\ requests' = requests + 1
    /\ s \in known /\ lock[s] = "free"
    /\ IF reg[s] = 0
       THEN /\ st' = Set(st, s, IF st[s] = "starting" THEN "down" ELSE st[s])
            /\ UNCHANGED lock
       ELSE /\ st' = Set(st, s, Fire(st[s], "stop_requested"))
            /\ lock' = Set(lock, s, "stop")
    /\ UNCHANGED <<files, ctl, procs, reg, supVars, bootVars, coVars, turn, history, faults, boots>>

\* The registered process has ended, by SIGTERM or SIGKILL, and is unregistered.
Stopped(s) ==
    /\ alive' = [alive EXCEPT ![s] = @ \ {reg[s]}]
    /\ reg' = Set(reg, s, 0)
    /\ st' = Set(st, s, Fire(st[s], "process_exited"))
    /\ LetGo(s)

ApiStopped(s) ==
    /\ Runs /\ lock[s] = "stop"
    /\ Stopped(s)
    /\ UNCHANGED <<files, ctl, gen, supVars, bootVars, coVars, turn, history, bounds>>

\* A reload finds a new service directory: the state provider makes it a state
\* machine. The graph is not touched.
Discover(s) ==
    /\ phase = "serving" /\ s \in conf.late \ known
    /\ known' = known \cup {s}
    /\ st' = Set(st, s, "pending")
    /\ UNCHANGED <<conf, graph, ctl, lock, procs, reg, supVars, bootVars, coVars, turn, history,
                   bounds>>

-----------------------------------------------------------------------------
(* Supervisors and readiness checks. *)

End(s) ==
    /\ Lives(s)
    /\ Fault
    /\ alive' = [alive EXCEPT ![s] = @ \ {gen[s]}]
    /\ UNCHANGED <<files, ctl, st, lock, gen, reg, supVars, bootVars, coVars, turn, history,
                   requests, boots>>

\* The supervisor sees the death. The answer of the restart engine is any.
SupSees(s) ==
    /\ Runs /\ sup[s] = "wait" /\ ~Lives(s)
    /\ IF st[s] \notin Running THEN sup' = Set(sup, s, "none") /\ UNCHANGED st
       ELSE \/ st' = Set(st, s, Fire(st[s], "restart_allowed")) /\ sup' = Set(sup, s, "backoff")
            \/ st' = Set(st, s, Fire(st[s], "max_retries")) /\ sup' = Set(sup, s, "none")
            \/ st' = Set(st, s, Fire(st[s], "normal_exit")) /\ sup' = Set(sup, s, "none")
    /\ UNCHANGED <<files, ctl, lock, procs, reg, org, chk, bootVars, coVars, turn, history, bounds>>

\* The backoff is over, or cancelled by a stop: a service that is not starting any
\* more is left alone.
SupBackoffOver(s) ==
    /\ Runs /\ sup[s] = "backoff"
    /\ sup' = Set(sup, s, IF st[s] = "starting" THEN "lock" ELSE "none")
    /\ UNCHANGED <<files, ctl, st, lock, procs, reg, org, chk, bootVars, coVars, turn, history,
                   bounds>>

\* doRestartProcess, with the lock, forks without another look at the state: a service
\* that has been stopped meanwhile has a process again and counts as down. The check of
\* the process before sees that one gone.
SupForks(s) ==
    /\ Runs /\ sup[s] = "lock" /\ lock[s] = "free"
    /\ Fork(s)
    /\ lock' = Set(lock, s, "sup")
    /\ st' = Set(st, s, Fire(st[s], "process_started"))
    /\ sup' = Set(sup, s, "forked") /\ chk' = chk \ {s}
    /\ lost' = IF st[s] = "starting" THEN lost ELSE lost \cup {<<s, gen[s] + 1>>}
    /\ UNCHANGED <<files, ctl, reg, org, bootVars, coVars, turn, missed, stopped, bounds>>

SupForkFails(s) ==
    /\ Runs /\ sup[s] = "lock" /\ lock[s] = "free"
    /\ NoFork(s)
    /\ st' = Set(st, s, Fire(st[s], "max_retries"))
    /\ sup' = Set(sup, s, "none")
    /\ UNCHANGED <<files, ctl, lock, procs, reg, org, chk, bootVars, coVars, turn, history, requests, boots>>

\* It registers the process, frees the lock, spawns the next supervisor, and tells
\* the coordinator if it is one of the operator's and there is no check to wait for.
SupPublishes(s) ==
    /\ Runs /\ sup[s] = "forked"
    /\ reg' = Set(reg, s, gen[s])
    /\ sup' = Set(sup, s, "wait") /\ LetGo(s)
    /\ chk' = IF HasReadiness(s) THEN chk \cup {s} ELSE chk
    /\ IF HasReadiness(s) THEN UNCHANGED <<co, missed>>
       ELSE IF org[s] = "api" THEN OnServiceDependable(s, st, co) ELSE NobodyTold(s, st)
    /\ UNCHANGED <<files, ctl, st, procs, org, bootVars, hand, turn, lost, stopped,
                   bounds>>

CheckPasses(s) ==
    /\ Runs /\ s \in chk
    /\ chk' = chk \ {s}
    /\ st' = Set(st, s, Fire(st[s], "readiness_passed"))
    /\ IF st' = st THEN UNCHANGED <<co, missed>>
       ELSE IF org[s] = "api" THEN OnServiceDependable(s, st', co) ELSE NobodyTold(s, st')
    /\ UNCHANGED <<files, ctl, lock, procs, reg, sup, org, bootVars, hand, turn, lost,
                   stopped, bounds>>

CheckTimesOut(s) ==
    /\ Runs /\ s \in chk
    /\ Fault
    /\ chk' = chk \ {s}
    /\ st' = Set(st, s, Fire(st[s], "readiness_timeout"))
    /\ alive' = [alive EXCEPT ![s] = @ \ {gen[s]}]
    /\ UNCHANGED <<files, ctl, lock, gen, reg, sup, org, bootVars, coVars, turn, history, requests, boots>>

\* The check finds its process gone.
CheckStops(s) ==
    /\ Runs /\ s \in chk /\ ~Lives(s)
    /\ chk' = chk \ {s}
    /\ UNCHANGED <<files, ctl, st, lock, procs, reg, sup, org, bootVars, coVars, turn, history,
                   bounds>>

-----------------------------------------------------------------------------
(* The end. *)

\* SIGTERM or SIGINT.
Signal ==
    /\ Runs /\ ~sig /\ sig' = TRUE
    /\ UNCHANGED <<files, phase, layers, st, lock, procs, reg, supVars, bootVars, coVars, turn,
                   history, bounds>>

\* The signal loop ends and GracefulShutdown runs the pre_shutdown hook.
ShutBegin ==
    /\ phase = "serving" /\ sig
    /\ phase' = "preShutdown"
    /\ UNCHANGED <<files, sig, layers, st, lock, procs, reg, supVars, bootVars, coVars, turn,
                   history, bounds>>

\* markDraining and stopCron; then the layers, last first.
ShutDrain ==
    /\ phase = "preShutdown"
    /\ phase' = "stopping" /\ layers' = ReverseLayers(graph)
    /\ UNCHANGED <<files, sig, st, lock, procs, reg, supVars, bootVars, coVars, turn, history,
                   bounds>>

\* A bug variant: the layer before is not waited for.
TurnsAreOverEarly == \A s \in Services : turn[s] # "lock"

TurnsAreOver == \A s \in Services : turn[s] \in {"none", "skipped", "over"}

\* stopServiceLayer looks at the states, without the locks.
ShutLayer ==
    /\ phase = "stopping" /\ layers # <<>> /\ TurnsAreOver
    /\ turn' = [s \in Services |->
                  IF s \notin Head(layers) THEN turn[s]
                  ELSE IF st[s] \in Running THEN "lock" ELSE "skipped"]
    /\ layers' = Tail(layers)
    /\ UNCHANGED <<files, phase, sig, st, lock, procs, reg, supVars, bootVars, coVars, history,
                   bounds>>

\* stopSingleService has the lock: the state has changed or not, and the process is
\* stopped if one is registered.
ShutStops(s) ==
    /\ Runs /\ turn[s] = "lock" /\ lock[s] = "free"
    /\ LET asked == Fire(st[s], "stop_requested")
       IN  IF reg[s] = 0
           THEN /\ st' = Set(st, s, Fire(asked, "process_exited"))
                /\ turn' = Set(turn, s, "over")
                /\ UNCHANGED <<lock, stopped>>
           ELSE /\ st' = Set(st, s, asked)
                /\ turn' = Set(turn, s, "stop") /\ lock' = Set(lock, s, "shut")
                /\ stopped' = Set(stopped, s, reg[s])
    /\ UNCHANGED <<files, ctl, procs, reg, supVars, bootVars, coVars, missed, lost, bounds>>

ShutStopped(s) ==
    /\ Runs /\ turn[s] = "stop"
    /\ Stopped(s)
    /\ turn' = Set(turn, s, "over")
    /\ UNCHANGED <<files, ctl, gen, supVars, bootVars, coVars, history, bounds>>

\* The layers are through; extensions, server and watcher end, the store is closed.
ShutEnds ==
    /\ phase = "stopping" /\ layers = <<>> /\ TurnsAreOver
    /\ phase' = "exiting"
    /\ UNCHANGED <<files, sig, layers, st, lock, procs, reg, supVars, bootVars, coVars, turn,
                   history, bounds>>

\* The deadline of the whole shutdown: forceKillAll.
Deadline ==
    /\ phase \in {"preShutdown", "stopping"}
    /\ KillRegistered
    /\ phase' = "exiting"
    /\ UNCHANGED <<files, sig, layers, st, lock, gen, supVars, bootVars, coVars, turn, history,
                   bounds>>

\* supd is gone, at the end of its exit or killed at any point. The processes and the
\* PID files are what is left.
Gone ==
    /\ phase' = "off" /\ graph' = <<>> /\ layers' = <<>> /\ sig' = FALSE
    /\ lost' = lost \cup InHand
    /\ st' = All("pending") /\ lock' = All("free")
    /\ sup' = All("none") /\ org' = All("boot") /\ chk' = {}
    /\ boot' = All("none") /\ res' = All(0) /\ hand' = {}
    /\ co' = All("none") /\ turn' = All("none")
    /\ missed' = {} /\ stopped' = All(0)
    /\ UNCHANGED <<conf, known, procs, reg, bounds>>

Exit == phase = "exiting" /\ Gone
Crash == Runs /\ Gone

-----------------------------------------------------------------------------
BootStep ==
    \/ BootRun \/ BootNextLayer \/ BootDone \/ Enable \/ Scan
    \/ \E s \in Services : \/ BootStart(s) \/ BootForks(s) \/ BootForkFails(s)
                            \/ BootCheckEnds(s) \/ BootRegisters(s)

CoStep(s) == CoRecheck(s) \/ CoStart(s) \/ CoUnmark(s)

OpStep(s) == StartForks(s) \/ StartForkFails(s) \/ StartPublishes(s) \/ ApiStopped(s)

SupStep(s) ==
    \/ SupSees(s) \/ SupBackoffOver(s) \/ SupForks(s) \/ SupForkFails(s)
    \/ SupPublishes(s) \/ CheckPasses(s) \/ CheckTimesOut(s) \/ CheckStops(s)

ShutStep ==
    \/ ShutBegin \/ ShutDrain \/ ShutLayer \/ ShutEnds \/ Exit
    \/ \E s \in Services : ShutStops(s) \/ ShutStopped(s)

\* What the outside does.
Outside ==
    \/ Signal \/ Crash \/ Deadline \/ BootInterrupted
    \/ \E s \in Services : ApiStart(s) \/ ApiStop(s) \/ Discover(s) \/ End(s)

Next ==
    \/ BootStep \/ ShutStep \/ Outside
    \/ \E s \in Services : CoStep(s) \/ OpStep(s) \/ SupStep(s)

\* As long as a goroutine can go on, one does. This is weaker than what the Go
\* scheduler does and enough, since all that comes from outside is bounded.
Goroutine == ShutStep \/ \E s \in Services : CoStep(s) \/ OpStep(s) \/ SupStep(s)

Fairness == WF_vars(Goroutine)

Spec == Init /\ [][Next]_vars /\ Fairness

-----------------------------------------------------------------------------
(* Properties. *)

\* What the bootstrap is to start, with the cycle it has met.
Startable(cycle) ==
    {s \in DOMAIN graph : /\ s \in conf.auto
                          /\ s \notin cycle \cup DetectSelfReference(graph)
                          /\ graph[s] \subseteq DOMAIN graph}

\* startAutostartServices: only services that can be started are, and each only when
\* the attempt to start every service it depends on, that can itself be started, is
\* over and its process registered. There is one cycle at most that the bootstrap knows:
\* a service on another one, which shares a member with it, is started as well.
BootInOrder ==
    \E cycle \in DetectCycle(graph) : \A s \in Services : boot[s] # "none" =>
        /\ s \in Startable(cycle)
        /\ \A d \in graph[s] \cap Startable(cycle) : boot[d] = "done"

\* The PID files (core/pidfile.go): no two processes of a service live at once, and
\* what lives when supd is gone is found by the next one; but for processes of three
\* kinds: forked and not registered when supd ended, registered and overwritten by the
\* bootstrap, forked by a supervisor whose service had been stopped.
BooksAreKept ==
    \A s \in Services : \A g \in alive[s] :
        \/ <<s, g>> \in lost
        \/ /\ \A h \in alive[s] \ {g} : <<s, h>> \in lost
           /\ phase = "off" => reg[s] = g

\* The shutdown (core/shutdown.go): when the turn of a service has come, the turns of
\* all that depend on it are over and the processes they stopped have ended.
StopsInReverse ==
    \A s \in DOMAIN graph : turn[s] \in {"lock", "stop", "over"} /\ Acyclic(graph) =>
        \A d \in GetDependents(graph, s) :
            turn[d] \in {"skipped", "over"} /\ stopped[d] \notin alive[d]

\* The coordinator (core/dependency.go): a pending service whose dependencies are all
\* dependable does not stay so, unless one of them came back without the coordinator
\* being told, or while it was giving up on an earlier wake-up.
WakesUp ==
    \A s \in Services :
        (phase = "serving" /\ s \in DOMAIN graph /\ CanAutoRecover(s, st) /\ s \notin missed)
            ~> (phase # "serving" \/ ~CanAutoRecover(s, st) \/ s \in missed)
=============================================================================
