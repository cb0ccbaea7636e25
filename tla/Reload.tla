------------------------------- MODULE Reload -------------------------------
(***************************************************************************)
(* Hot reload: what the disk says becomes what the program goes by.        *)
(*                                                                         *)
(* The discovery (watch/discovery.go) is read again by the goroutine that  *)
(* receives the watcher's batches and by the main loop on SIGHUP, both     *)
(* through applyReload (cli/run.go), and by HTTP handlers: POST            *)
(* /api/reload and the import through triggerReload (api/reload_handler.go)*)
(* and the creation of a service through CoreWatchProvider.ReloadConfig.   *)
(* Nothing keeps two of them apart. Each holder of a discovery is given    *)
(* the new one in turn, and a handler gives it to the API's holders only.  *)
(***************************************************************************)
EXTENDS Watcher

CONSTANTS
    Services,   \* the directories of services; the others are of extensions
    Scheduled,  \* the versions of a meta.yaml with an on_schedule trigger
    Overlapping,\* whether one reload may begin before another has ended
    MaxManual   \* bound on the reloads asked for by users

ASSUME ReloadAssumption ==
    /\ Services \subseteq Dirs /\ \A d \in Dirs : Parent[d] \in Services \cup {Top}
    /\ \A s \in Services : Parent[s] = Top
    /\ Scheduled \subseteq Versions /\ Overlapping \in BOOLEAN /\ MaxManual \in Nat

\* BootstrapResult; the lifecycle triggers, the operation registry and the
\* gateway; the providers of the API.
Holders == {"result", "runtime", "api"}
Reloaders == {"watcher", "sighup", "request", "create"}

VARIABLES
    disc,       \* the discovery each holder goes by
    jobs,       \* the cron jobs there are, by the discovery they captured
    rl,         \* the reload of each reloader: where it is, old and new discovery
    consumer,   \* handleWatcherEvents has not returned
    manual,     \* reloads asked for so far
    kept        \* services loaded whose service.yaml has been there since

reloadVars == <<disc, jobs, rl, consumer, manual, kept>>
vars == <<disk, pipe, reloadVars>>

Extensions == Dirs \ Services
Loads(f) == f \in Versions

\* DiscoveryResult: what is known of each service and extension, and the
\* services whose configuration did not load.
Discovery == [cfg : [Dirs -> Files], errs : SUBSET Services]

\* Scan: a service that does not load is left out with its extensions, an
\* extension that does not load is kept to be shown.
Scan ==
    LET there(d) == Parent[d] = Top \/ Loads(content[Parent[d]]) IN
    [cfg  |-> [d \in Dirs |->
                 CASE d \in Services /\ ~Loads(content[d]) -> "none"
                   [] d \in Extensions /\ ~there(d)        -> "none"
                   [] OTHER                                -> content[d]],
     errs |-> {s \in Services : content[s] = "bad"}]

\* PreserveOldConfigOnError: the entry of the old discovery, with its
\* extensions, for a service that no longer loads.
Preserve(old, new) ==
    LET saved == {s \in new.errs : old.cfg[s] # "none" /\ new.cfg[s] = "none"}
        mine(d) == d \in saved \/ Parent[d] \in saved
    IN  [new EXCEPT !.cfg = [d \in Dirs |-> IF mine(d) THEN old.cfg[d] ELSE new.cfg[d]]]

Idle == [pc |-> "off", old |-> <<>>, new |-> <<>>]
NoJob == <<>>

ReloadTypeOK ==
    /\ disc \in [Holders -> Discovery]
    /\ \A e \in Extensions : jobs[e] = NoJob \/ jobs[e] \in Discovery
    /\ \A r \in Reloaders :
         /\ rl[r].pc \in {"off", "scan", "result", "runtime", "clear", "jobs", "api"}
         /\ rl[r].pc \notin {"off", "scan"} => rl[r].new \in Discovery
    /\ consumer \in BOOLEAN
    /\ manual \in 0..MaxManual /\ kept \subseteq Services
    \* a job is of an extension that loads and has a schedule
    /\ \A e \in Extensions : jobs[e] # NoJob => jobs[e].cfg[e] \in Scheduled

TypeOK == WatcherTypeOK /\ ReloadTypeOK

JobsOf(d) == [e \in Extensions |-> IF d.cfg[e] \in Scheduled THEN d ELSE NoJob]

Init ==
    /\ WatcherInit
    /\ disc = [h \in Holders |-> Scan]
    /\ jobs = JobsOf(Scan)
    /\ rl = [r \in Reloaders |-> Idle]
    /\ consumer = TRUE /\ manual = 0
    /\ kept = {s \in Services : Loads(content[s])}

----------------------------------------------------------------------------
\* The variant of Begin that takes the API's discovery for the old one.
BeginFromApi(r) ==
    /\ rl[r].pc = "off"
    /\ Overlapping \/ \A o \in Reloaders : rl[o].pc = "off"
    /\ rl' = [rl EXCEPT ![r] = [Idle EXCEPT !.pc = "scan", !.old = disc["api"]]]
    /\ UNCHANGED <<disc, jobs, kept>>

\* The code does not wait for another reload to end. Where reloads may not
\* overlap, the properties are about those that happen not to.
Begin(r) ==
    /\ rl[r].pc = "off"
    /\ Overlapping \/ \A o \in Reloaders : rl[o].pc = "off"
    /\ rl' = [rl EXCEPT ![r] = [Idle EXCEPT !.pc = "scan",
                !.old = disc[IF r \in {"watcher", "sighup"} THEN "result" ELSE "api"]]]
    /\ UNCHANGED <<disc, jobs, kept>>

\* handleWatcherEvents: one reload for each batch, whatever is in it.
OnBatch ==
    /\ consumer /\ Receive /\ Begin("watcher")
    /\ UNCHANGED <<disk, consumer, manual>>

ConsumerEnds ==
    /\ consumer /\ rl["watcher"].pc = "off" /\ deb = "done" /\ batches = 0
    /\ consumer' = FALSE
    /\ UNCHANGED <<disk, pipe, disc, jobs, rl, manual, kept>>

OnRequest(r) ==
    /\ manual < MaxManual /\ manual' = manual + 1
    /\ Begin(r)
    /\ UNCHANGED <<disk, pipe, consumer>>

\* The disk is read, and what no longer loads is kept from the old discovery,
\* unless a service is being created.
Discover(r) ==
    /\ rl[r].pc = "scan"
    /\ rl' = [rl EXCEPT ![r].pc = IF r \in {"watcher", "sighup"} THEN "result" ELSE "api",
                        ![r].old = <<>>,
                        ![r].new = IF r = "create" THEN Scan ELSE Preserve(rl[r].old, Scan)]
    /\ UNCHANGED <<disk, pipe, disc, jobs, consumer, manual, kept>>

Give(r, pc, h, next) ==
    /\ rl[r].pc = pc
    /\ disc' = [disc EXCEPT ![h] = rl[r].new]
    /\ rl' = [rl EXCEPT ![r] = IF next = "off" THEN Idle ELSE [@ EXCEPT !.pc = next]]
    /\ UNCHANGED <<disk, pipe, consumer, manual>>

SetResult(r) ==
    /\ Give(r, "result", "result", "runtime")
    /\ kept' = kept \cup {s \in Services : Loads(rl[r].new.cfg[s]) /\ content[s] # "none"}
    /\ UNCHANGED jobs

\* SetDiscovery of ServiceLifecycleTrigger, SupdLifecycleTrigger and the
\* gateway, OperationRegistry.Rebuild.
SetRuntime(r) == Give(r, "runtime", "runtime", "clear") /\ UNCHANGED <<jobs, kept>>

ClearAllJobs(r) ==
    /\ rl[r].pc = "clear"
    /\ jobs' = [e \in Extensions |-> NoJob]
    /\ rl' = [rl EXCEPT ![r].pc = "jobs"]
    /\ UNCHANGED <<disk, pipe, disc, consumer, manual, kept>>

\* The variant of RegisterCronJobs that takes every extension that loads.
RegisterCronJobsUnscheduled(r) ==
    /\ rl[r].pc = "jobs"
    /\ jobs' = [e \in Extensions |->
                  IF Loads(rl[r].new.cfg[e]) THEN rl[r].new ELSE jobs[e]]
    /\ rl' = [rl EXCEPT ![r].pc = "api"]
    /\ UNCHANGED <<disk, pipe, disc, consumer, manual, kept>>

\* registerCronJobs: a job for each extension with a schedule, which finds the
\* extension in the discovery it was registered from.
RegisterCronJobs(r) ==
    /\ rl[r].pc = "jobs"
    /\ jobs' = [e \in Extensions |->
                  IF rl[r].new.cfg[e] \in Scheduled THEN rl[r].new ELSE jobs[e]]
    /\ rl' = [rl EXCEPT ![r].pc = "api"]
    /\ UNCHANGED <<disk, pipe, disc, consumer, manual, kept>>

\* Server.UpdateDiscovery.
UpdateDiscovery(r) == Give(r, "api", "api", "off") /\ UNCHANGED <<jobs, kept>>

Step(r) ==
    \/ Discover(r) \/ SetResult(r) \/ SetRuntime(r)
    \/ ClearAllJobs(r) \/ RegisterCronJobs(r) \/ UpdateDiscovery(r)

\* What a service has to have for its configuration to be kept: a
\* service.yaml that has been there since the service was last loaded.
DiskChanges ==
    /\ ChangeDisk
    /\ kept' = {s \in kept : content'[s] # "none"}
    /\ UNCHANGED <<disc, jobs, rl, consumer, manual>>

Watching == (Forward \/ ForwardFails \/ Debounce \/ Stop) /\ UNCHANGED reloadVars

Next ==
    \/ DiskChanges \/ Watching \/ OnBatch \/ ConsumerEnds
    \/ \E r \in Reloaders \ {"watcher"} : OnRequest(r)
    \/ \E r \in Reloaders : Step(r)

Spec == Init /\ [][Next]_vars

\* The goroutines go on; nobody has to change the disk, ask for a reload or
\* stop the watcher.
FairSpec ==
    /\ Spec
    /\ WF_vars(Forward /\ UNCHANGED reloadVars)
    /\ WF_vars(Debounce /\ UNCHANGED reloadVars)
    /\ WF_vars(OnBatch)
    /\ \A r \in Reloaders : WF_vars(Step(r))

----------------------------------------------------------------------------
\* The service whose file does not load is shown, started and triggered by
\* what it said before: a service that was loaded stays in the discovery of the
\* main program for as long as there is a service.yaml, through any number of
\* reloads of a broken one (PreserveOldConfigOnError).
BrokenKeepsItsService ==
    \A s \in kept : Loads(disc["result"].cfg[s])

\* Whether a discovery is what the disk says, a service that does not load
\* aside.
Agrees(d) ==
    \A x \in Dirs :
        content[x] # "bad" /\ (Parent[x] = Top \/ content[Parent[x]] # "bad")
            => d.cfg[x] = Scan.cfg[x]

Fresh ==
    /\ \A h \in Holders : Agrees(disc[h])
    /\ \A e \in Extensions : jobs[e] = NoJob <=> disc["result"].cfg[e] \notin Scheduled
    /\ \A e \in Extensions : jobs[e] # NoJob => jobs[e].cfg[e] = disc["result"].cfg[e]

\* Whatever the order of the changes, of the directories that appear with
\* files in them, of the timers and the full channels, and with a reload asked
\* for at any time: once the disk is left alone every holder and the cron jobs
\* come to agree with it, unless the watcher has been disabled or stopped.
DiskIsFollowed == <>(disabled \/ stopped \/ []Fresh)
=============================================================================
