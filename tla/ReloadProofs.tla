----------------------------- MODULE ReloadProofs -----------------------------
(***************************************************************************)
(* What TLAPS proves of the watcher and the reloads: for any tree of       *)
(* services and extensions, any capacity of the two channels, and however  *)
(* the disk changes.                                                       *)
(***************************************************************************)
EXTENDS Reload, TLAPS

-----------------------------------------------------------------------------
(* Type correctness. *)

\* More than TypeOK says of what is read and not yet used: the events the kernel has
\* reported, and the old discovery of a reload that has begun.
Given ==
    /\ raw \in Seq(Event)
    /\ rl \in [Reloaders -> [pc : {"off", "scan", "result", "runtime", "clear", "jobs", "api"},
                             old : Discovery \cup {<<>>}, new : Discovery \cup {<<>>}]]
    /\ \A r \in Reloaders : rl[r].pc = "scan" => rl[r].old \in Discovery
    /\ \A r \in Reloaders : rl[r].pc \notin {"off", "scan"} => rl[r].new \in Discovery

TypeInv == TypeOK /\ Given

\* What is read from the disk is a discovery.
LEMMA ScanType ==
    ASSUME content \in [Dirs -> Files]
    PROVE  Scan \in Discovery
<1>1. Scan.cfg \in [Dirs -> Files] /\ Scan.errs \in SUBSET Services
  BY DEF Scan, Files
<1> QED
  BY <1>1 DEF Scan, Discovery

\* And so is what is kept of the old one in it.
LEMMA PreserveType ==
    ASSUME NEW old \in Discovery, NEW new \in Discovery
    PROVE  Preserve(old, new) \in Discovery
<1> DEFINE saved == {s \in new.errs : old.cfg[s] # "none" /\ new.cfg[s] = "none"}
<1> DEFINE mine(d) == d \in saved \/ Parent[d] \in saved
<1> DEFINE cfg == [d \in Dirs |-> IF mine(d) THEN old.cfg[d] ELSE new.cfg[d]]
<1>1. cfg \in [Dirs -> Files]
  BY DEF Discovery
<1>2. Preserve(old, new) = [new EXCEPT !.cfg = cfg]
  BY DEF Preserve
<1> HIDE DEF cfg
<1> QED
  BY <1>1, <1>2 DEF Discovery

LEMMA TypeBegins == Init => TypeInv
<1> SUFFICES ASSUME Init PROVE TypeInv
  OBVIOUS
<1>1. WatcherTypeOK /\ raw \in Seq(Event)
  <2>1. raw \in Seq(Event) /\ \A i \in DOMAIN raw : raw[i] \in Event
    BY DEF Init, WatcherInit
  <2>2. exists \subseteq Dirs /\ content \in [Dirs -> Files] /\ watched \subseteq exists
    BY WatcherAssumption DEF Init, WatcherInit, Files
  <2>3. queued \in 0..EventCap /\ batches \in 0..BatchCap /\ changes \in 0..MaxChanges
    BY WatcherAssumption DEF Init, WatcherInit
  <2> QED
    BY <2>1, <2>2, <2>3 DEF Init, WatcherInit, WatcherTypeOK
<1>2. Scan \in Discovery
  BY <1>1, ScanType DEF WatcherTypeOK
<1>3. disc \in [Holders -> Discovery]
  BY <1>2 DEF Init
<1>4. \A e \in Extensions : /\ jobs[e] = NoJob \/ jobs[e] \in Discovery
                            /\ jobs[e] # NoJob => jobs[e].cfg[e] \in Scheduled
  BY <1>2 DEF Init, JobsOf
<1>5. /\ rl = [r \in Reloaders |-> Idle]
      /\ consumer \in BOOLEAN /\ manual \in 0..MaxManual /\ kept \subseteq Services
  BY ReloadAssumption DEF Init
<1>6. \A r \in Reloaders : rl[r] = Idle
  BY <1>5
<1> QED
  BY <1>1, <1>3, <1>4, <1>5, <1>6 DEF TypeInv, TypeOK, ReloadTypeOK, Given, Idle

\* The steps of the watcher and of the disk.
LEMMA WatcherTypeNext ==
    ASSUME TypeInv, ChangeDisk \/ Forward \/ ForwardFails \/ Debounce \/ Stop
    PROVE  WatcherTypeOK' /\ raw' \in Seq(Event)
<1> USE WatcherAssumption DEF TypeInv, TypeOK, Given, WatcherTypeOK
<1>1. ASSUME NEW d \in Dirs, RemoveDir(d) PROVE WatcherTypeOK' /\ raw' \in Seq(Event)
  <2>0. PICK e \in Event : raw' \in {raw, Append(raw, e)}
    BY <1>1 DEF RemoveDir, Report, Event
  <2>1. raw' \in Seq(Event)
    BY <2>0
  <2>2. content' \in [Dirs -> Files]
    BY <1>1 DEF RemoveDir, Files
  <2> QED
    BY <1>1, <2>1, <2>2 DEF RemoveDir, Change
<1>2. ASSUME NEW d \in Dirs, Touch(d) PROVE WatcherTypeOK' /\ raw' \in Seq(Event)
  <2>0. PICK e \in Event : raw' \in {raw, Append(raw, e)}
    BY <1>2 DEF Touch, Event
  <2>1. raw' \in Seq(Event)
    BY <2>0
  <2> QED
    BY <1>2, <2>1 DEF Touch, Change
<1>3. ASSUME NEW d \in Dirs, NEW f \in Files, MakeDir(d, f)
      PROVE  WatcherTypeOK' /\ raw' \in Seq(Event)
  <2>0. PICK e \in Event : raw' \in {raw, Append(raw, e)}
    BY <1>3 DEF MakeDir, Report, Event
  <2>1. raw' \in Seq(Event)
    BY <2>0
  <2> QED
    BY <1>3, <2>1 DEF MakeDir, Change
<1>4. ASSUME NEW d \in Dirs, NEW f \in Files, Write(d, f)
      PROVE  WatcherTypeOK' /\ raw' \in Seq(Event)
  <2>0. PICK e \in Event : raw' \in {raw, Append(raw, e)}
    BY <1>4 DEF Write, Event
  <2>1. raw' \in Seq(Event)
    BY <2>0
  <2> QED
    BY <1>4, <2>1 DEF Write, Change
<1>5. CASE ForwardKeeps
  <2>1. raw' \in Seq(Event) /\ Head(raw) \in Event
    BY <1>5 DEF ForwardKeeps
  <2>2. fwd' \in {"idle", "walk", "push"} /\ todo' \subseteq Dirs
    BY <1>5, <2>1 DEF ForwardKeeps, Event
  <2> QED
    BY <1>5, <2>1, <2>2 DEF ForwardKeeps, disk
<1>6. CASE WalkAdds
  <2>1. PICK d \in todo :
          \/ d \in exists /\ watched' = watched \cup {d} /\ todo' = (todo \ {d}) \cup Children(d)
          \/ watched' = watched /\ todo' = todo \ {d}
          \/ watched' = watched /\ todo' = {}
    BY <1>6 DEF WalkAdds
  <2>3. fwd' \in {"push", "walk"}
    BY <1>6 DEF WalkAdds
  <2>4. disabled' \in BOOLEAN
    BY <1>6 DEF WalkAdds, Disable
  <2>2. todo' \subseteq Dirs
    BY <2>1 DEF Children
  <2> QED
    BY <1>6, <2>1, <2>2, <2>3, <2>4 DEF WalkAdds
<1>7. CASE ForwardPushes
  BY <1>7 DEF ForwardPushes, disk
<1>8. CASE ForwardEnds
  BY <1>8 DEF ForwardEnds, disk
<1>9. CASE ForwardFails
  BY <1>9 DEF ForwardFails, Disable, disk
<1>10. CASE DebTakes
  BY <1>10 DEF DebTakes, disk
<1>11. CASE DebTimes
  BY <1>11 DEF DebTimes, disk
<1>12. CASE DebSends
  BY <1>12 DEF DebSends, disk
<1>13. CASE DebStops
  <2>1. batches' \in 0..BatchCap
    BY <1>13 DEF DebStops
  <2>2. deb' = "done" /\ pending' = FALSE /\ armed' = FALSE
    BY <1>13 DEF DebStops
  <2> QED
    BY <1>13, <2>1, <2>2 DEF DebStops, disk
<1>14. CASE Stop
  BY <1>14 DEF Stop, disk
<1> QED
  BY <1>1, <1>2, <1>3, <1>4, <1>5, <1>6, <1>7, <1>8, <1>9, <1>10, <1>11, <1>12, <1>13, <1>14
  DEF ChangeDisk, Forward, Debounce

\* A reload that begins has read a discovery.
LEMMA BeginType ==
    ASSUME TypeInv, NEW r \in Reloaders, Begin(r),
           WatcherTypeOK', raw' \in Seq(Event), consumer' = consumer, manual' \in 0..MaxManual
    PROVE  TypeInv'
<1> DEFINE h == IF r \in {"watcher", "sighup"} THEN "result" ELSE "api"
<1>1. disc[h] \in Discovery
  BY DEF TypeInv, TypeOK, ReloadTypeOK, Holders
<1> DEFINE x == [Idle EXCEPT !.pc = "scan", !.old = disc[h]]
<1>2. x \in [pc : {"scan"}, old : Discovery, new : {<<>>}]
  BY <1>1 DEF Idle
<1>3. rl' = [rl EXCEPT ![r] = x]
  BY DEF Begin
<1>4. UNCHANGED <<disc, jobs, kept>>
  BY DEF Begin
<1> HIDE DEF h, x
<1>5. Given'
  BY <1>2, <1>3 DEF TypeInv, Given
<1>6. ReloadTypeOK'
  BY <1>2, <1>4, <1>5, <1>3 DEF TypeInv, TypeOK, ReloadTypeOK, Given
<1> QED
  BY <1>5, <1>6 DEF TypeInv, TypeOK

\* The steps of a reload.
LEMMA StepType ==
    ASSUME TypeInv, NEW r \in Reloaders, Step(r)
    PROVE  TypeInv'
<1>0. /\ content \in [Dirs -> Files] /\ UNCHANGED <<disk, pipe>> /\ UNCHANGED <<consumer, manual>>
  BY DEF TypeInv, TypeOK, WatcherTypeOK, Step, Discover, SetResult, SetRuntime, ClearAllJobs,
         RegisterCronJobs, UpdateDiscovery, Give
<1>w. WatcherTypeOK' /\ raw' \in Seq(Event)
  BY <1>0 DEF TypeInv, TypeOK, Given, WatcherTypeOK, disk, pipe
<1>1. ASSUME NEW x \in [pc : {"off", "scan", "result", "runtime", "clear", "jobs", "api"},
                        old : Discovery \cup {<<>>}, new : Discovery \cup {<<>>}],
             rl' = [rl EXCEPT ![r] = x],
             x.pc # "scan", x.pc # "off" => x.new \in Discovery,
             disc' \in [Holders -> Discovery], kept' \subseteq Services,
             \A e \in Extensions : /\ jobs'[e] = NoJob \/ jobs'[e] \in Discovery
                                   /\ jobs'[e] # NoJob => jobs'[e].cfg[e] \in Scheduled
      PROVE  TypeInv'
  <2>1. Given'
    BY <1>1, <1>w DEF TypeInv, Given
  <2>2. ReloadTypeOK'
    BY <1>0, <1>1, <2>1 DEF TypeInv, TypeOK, ReloadTypeOK, Given
  <2> QED
    BY <1>w, <2>1, <2>2 DEF TypeInv, TypeOK
<1>2. /\ disc \in [Holders -> Discovery] /\ kept \subseteq Services
      /\ \A e \in Extensions : /\ jobs[e] = NoJob \/ jobs[e] \in Discovery
                               /\ jobs[e] # NoJob => jobs[e].cfg[e] \in Scheduled
      /\ rl[r].pc = "scan" => rl[r].old \in Discovery
      /\ rl[r].pc \notin {"off", "scan"} => rl[r].new \in Discovery
      /\ rl \in [Reloaders -> [pc : {"off", "scan", "result", "runtime", "clear", "jobs", "api"},
                               old : Discovery \cup {<<>>}, new : Discovery \cup {<<>>}]]
  BY DEF TypeInv, TypeOK, ReloadTypeOK, Given
<1>3. CASE Discover(r)
  <2> DEFINE new == IF r = "create" THEN Scan ELSE Preserve(rl[r].old, Scan)
  <2> DEFINE pc == IF r \in {"watcher", "sighup"} THEN "result" ELSE "api"
  <2>1. new \in Discovery
    BY <1>0, <1>2, <1>3, ScanType, PreserveType DEF Discover
  <2> DEFINE x == [rl[r] EXCEPT !.pc = pc, !.old = <<>>, !.new = new]
  <2>2. rl' = [rl EXCEPT ![r] = x]
    BY <1>3 DEF Discover
  <2>3. /\ x \in [pc : {"off", "scan", "result", "runtime", "clear", "jobs", "api"},
                  old : Discovery \cup {<<>>}, new : Discovery \cup {<<>>}]
        /\ x.pc # "scan" /\ (x.pc # "off" => x.new \in Discovery)
    BY <1>2, <2>1
  <2>4. UNCHANGED <<disc, jobs, kept>>
    BY <1>3 DEF Discover
  <2> HIDE DEF x
  <2> QED
    BY <1>1, <1>2, <2>2, <2>3, <2>4
<1>4. ASSUME NEW h \in Holders, NEW pc \in {"result", "runtime", "api"},
             NEW next \in {"runtime", "clear", "off"}, Give(r, pc, h, next)
      PROVE  /\ disc' \in [Holders -> Discovery]
             /\ \E x \in [pc : {"off", "scan", "result", "runtime", "clear", "jobs", "api"},
                          old : Discovery \cup {<<>>}, new : Discovery \cup {<<>>}] :
                  /\ rl' = [rl EXCEPT ![r] = x]
                  /\ x.pc # "scan" /\ (x.pc # "off" => x.new \in Discovery)
  <2> DEFINE x == IF next = "off" THEN Idle ELSE [rl[r] EXCEPT !.pc = next]
  <2>1. rl[r].new \in Discovery
    BY <1>2, <1>4 DEF Give
  <2>2. disc' \in [Holders -> Discovery]
    BY <1>2, <1>4, <2>1 DEF Give
  <2>3. /\ x \in [pc : {"off", "scan", "result", "runtime", "clear", "jobs", "api"},
                  old : Discovery \cup {<<>>}, new : Discovery \cup {<<>>}]
        /\ x.pc = next /\ (x.pc # "off" => x.new \in Discovery)
    BY <1>2, <2>1 DEF Idle
  <2>4. rl' = [rl EXCEPT ![r] = x]
    BY <1>2, <1>4 DEF Give
  <2> HIDE DEF x
  <2> QED
    BY <2>2, <2>3, <2>4
<1>5. CASE SetResult(r)
  BY <1>1, <1>2, <1>4, <1>5 DEF SetResult, Holders
<1>6. CASE SetRuntime(r)
  BY <1>1, <1>2, <1>4, <1>6 DEF SetRuntime, Holders
<1>7. CASE UpdateDiscovery(r)
  BY <1>1, <1>2, <1>4, <1>7 DEF UpdateDiscovery, Holders
<1>8. CASE ClearAllJobs(r)
  <2> DEFINE x == [rl[r] EXCEPT !.pc = "jobs"]
  <2>1. rl' = [rl EXCEPT ![r] = x] /\ UNCHANGED <<disc, kept>>
    BY <1>2, <1>8 DEF ClearAllJobs
  <2>2. \A e \in Extensions : jobs'[e] = NoJob
    BY <1>8 DEF ClearAllJobs
  <2>3. rl[r].new \in Discovery
    BY <1>2, <1>8 DEF ClearAllJobs
  <2>5. /\ x \in [pc : {"off", "scan", "result", "runtime", "clear", "jobs", "api"},
                  old : Discovery \cup {<<>>}, new : Discovery \cup {<<>>}]
        /\ x.pc # "scan" /\ x.new \in Discovery
    BY <1>2, <2>3
  <2> HIDE DEF x
  <2> QED
    BY <1>1, <1>2, <2>1, <2>2, <2>3, <2>5
<1>9. CASE RegisterCronJobs(r)
  <2> DEFINE x == [rl[r] EXCEPT !.pc = "api"]
  <2>1. rl' = [rl EXCEPT ![r] = x] /\ UNCHANGED <<disc, kept>>
    BY <1>2, <1>9 DEF RegisterCronJobs
  <2>2. rl[r].new \in Discovery
    BY <1>2, <1>9 DEF RegisterCronJobs
  <2>3. \A e \in Extensions :
          jobs'[e] = IF rl[r].new.cfg[e] \in Scheduled THEN rl[r].new ELSE jobs[e]
    BY <1>9 DEF RegisterCronJobs
  <2>4. \A e \in Extensions : /\ jobs'[e] = NoJob \/ jobs'[e] \in Discovery
                              /\ jobs'[e] # NoJob => jobs'[e].cfg[e] \in Scheduled
    BY <1>2, <2>2, <2>3
  <2>5. /\ x \in [pc : {"off", "scan", "result", "runtime", "clear", "jobs", "api"},
                  old : Discovery \cup {<<>>}, new : Discovery \cup {<<>>}]
        /\ x.pc # "scan" /\ x.new \in Discovery
    BY <1>2, <2>2
  <2> HIDE DEF x
  <2> QED
    BY <1>1, <1>2, <2>1, <2>2, <2>4, <2>5
<1> QED
  BY <1>3, <1>5, <1>6, <1>7, <1>8, <1>9 DEF Step

LEMMA TypeNext == TypeInv /\ [Next]_vars => TypeInv'
<1> SUFFICES ASSUME TypeInv, [Next]_vars PROVE TypeInv'
  OBVIOUS
<1>1. CASE DiskChanges
  <2>1. WatcherTypeOK' /\ raw' \in Seq(Event)
    BY <1>1, WatcherTypeNext DEF DiskChanges
  <2> QED
    BY <1>1, <2>1 DEF DiskChanges, TypeInv, TypeOK, ReloadTypeOK, Given
<1>2. CASE Watching
  <2>1. WatcherTypeOK' /\ raw' \in Seq(Event)
    BY <1>2, WatcherTypeNext DEF Watching
  <2> QED
    BY <1>2, <2>1 DEF Watching, reloadVars, TypeInv, TypeOK, ReloadTypeOK, Given
<1>3. CASE OnBatch
  <2>1. WatcherTypeOK' /\ raw' \in Seq(Event)
    BY <1>3, WatcherAssumption DEF OnBatch, Receive, disk, TypeInv, TypeOK, WatcherTypeOK, Given
  <2>2. Begin("watcher") /\ consumer' = consumer /\ manual' \in 0..MaxManual
    BY <1>3 DEF OnBatch, TypeInv, TypeOK, ReloadTypeOK
  <2> QED
    BY <2>1, <2>2, BeginType DEF Reloaders
<1>4. CASE ConsumerEnds
  BY <1>4 DEF ConsumerEnds, disk, pipe, TypeInv, TypeOK, WatcherTypeOK, ReloadTypeOK, Given
<1>5. ASSUME NEW r \in Reloaders \ {"watcher"}, OnRequest(r) PROVE TypeInv'
  <2>1. WatcherTypeOK' /\ raw' \in Seq(Event)
    BY <1>5 DEF OnRequest, disk, pipe, TypeInv, TypeOK, WatcherTypeOK, Given
  <2>2. Begin(r) /\ consumer' = consumer /\ manual' \in 0..MaxManual
    BY <1>5, ReloadAssumption DEF OnRequest, TypeInv, TypeOK, ReloadTypeOK
  <2> QED
    BY <2>1, <2>2, BeginType
<1>6. CASE UNCHANGED vars
  BY <1>6 DEF vars, disk, pipe, reloadVars, TypeInv, TypeOK, WatcherTypeOK, ReloadTypeOK, Given
<1> QED
  BY <1>1, <1>2, <1>3, <1>4, <1>5, <1>6, StepType DEF Next

-----------------------------------------------------------------------------
(* The configuration of a service that no longer loads. *)

\* The reloads that change what the main program goes by are not under way at once: that
\* of a batch, in handleWatcherEvents, and that of SIGHUP, in the main loop. Requests may
\* do what they like, theirs reach the API's discovery only.
Apart == rl["watcher"].pc = "off" \/ rl["sighup"].pc = "off"

OfMain == {"watcher", "sighup"}

\* Between reading the old discovery and giving the new one nobody else changes what the
\* main program goes by, and what a reload has found has every service that is kept.
ReloadsKeep ==
    /\ \A s \in kept : content[s] # "none" /\ Loads(disc["result"].cfg[s])
    /\ \A r \in Reloaders \ OfMain : rl[r].pc \in {"off", "scan", "api"}
    /\ \A r \in OfMain :
         /\ rl[r].pc = "scan" => rl[r].old = disc["result"]
         /\ rl[r].pc = "result" => \A s \in kept : Loads(rl[r].new.cfg[s])

\* A service that is kept is in what is found now, or in the old discovery with a file
\* that does not load, in which case the old entry is taken.
LEMMA DiscoverKeeps ==
    ASSUME NEW s \in Services, NEW old \in Discovery, content \in [Dirs -> Files],
           content[s] # "none", Loads(old.cfg[s])
    PROVE  Loads(Preserve(old, Scan).cfg[s])
<1> DEFINE new == Scan
<1> DEFINE saved == {x \in new.errs : old.cfg[x] # "none" /\ new.cfg[x] = "none"}
<1>1. s \in Dirs /\ Parent[s] = Top /\ Top \notin Services /\ old.cfg[s] # "none"
  BY ReloadAssumption, WatcherAssumption DEF Loads
<1>2. new.errs = {x \in Services : content[x] = "bad"}
  BY DEF Scan
<1>3. new.cfg[s] = IF ~Loads(content[s]) THEN "none" ELSE content[s]
  BY <1>1 DEF Scan, Extensions
<1>4. Preserve(old, new).cfg[s] =
        IF s \in saved \/ Parent[s] \in saved THEN old.cfg[s] ELSE new.cfg[s]
  BY <1>1, ScanType DEF Preserve, Discovery
<1>5. Parent[s] \notin saved
  BY <1>1, <1>2
<1>6. CASE Loads(content[s])
  BY <1>3, <1>4, <1>5, <1>6
<1>7. CASE ~Loads(content[s])
  <2>1. s \in saved
    BY <1>1, <1>2, <1>3, <1>7 DEF Loads, Files
  <2> QED
    BY <1>4, <2>1
<1> QED
  BY <1>6, <1>7

LEMMA KeepBegins == Init => ReloadsKeep
<1> SUFFICES ASSUME Init PROVE ReloadsKeep
  OBVIOUS
<1>1. TypeInv
  BY TypeBegins
<1>2. \A r \in Reloaders : rl[r].pc = "off"
  BY DEF Init, Idle
<1>3. ASSUME NEW s \in kept PROVE content[s] # "none" /\ Loads(disc["result"].cfg[s])
  <2>1. s \in Services /\ s \in Dirs /\ Loads(content[s])
    BY ReloadAssumption DEF Init
  <2>2. disc["result"] = Scan
    BY DEF Init, Holders
  <2>3. Scan.cfg[s] = content[s]
    BY <2>1 DEF Scan, Extensions
  <2> QED
    BY <2>1, <2>2, <2>3, WatcherAssumption DEF Loads
<1> QED
  BY <1>2, <1>3 DEF ReloadsKeep, OfMain, Reloaders

\* The steps that leave the discoveries as they are and take no reload further.
LEMMA KeepUntouched ==
    ASSUME ReloadsKeep, UNCHANGED <<disc, rl>>, kept' \subseteq kept,
           \A s \in kept' : content'[s] # "none"
    PROVE  ReloadsKeep'
BY DEF ReloadsKeep, OfMain, Reloaders

LEMMA KeepBegin ==
    ASSUME TypeInv, ReloadsKeep, NEW r \in Reloaders, Begin(r), UNCHANGED content
    PROVE  ReloadsKeep'
<1>1. rl[r].pc = "off" /\ UNCHANGED <<disc, kept>>
  BY DEF Begin
<1>2. /\ rl'[r].pc = "scan" /\ (r \in OfMain => rl'[r].old = disc["result"])
      /\ \A o \in Reloaders : o # r => rl'[o] = rl[o]
  BY DEF Begin, Idle, TypeInv, Given, OfMain
<1> QED
  BY <1>1, <1>2 DEF ReloadsKeep, OfMain, Reloaders

LEMMA KeepStep ==
    ASSUME TypeInv, Apart, ReloadsKeep, NEW r \in Reloaders, Step(r)
    PROVE  ReloadsKeep'
<1>0. /\ content \in [Dirs -> Files] /\ content' = content /\ kept \subseteq Services
      /\ disc \in [Holders -> Discovery]
      /\ rl \in [Reloaders -> [pc : {"off", "scan", "result", "runtime", "clear", "jobs", "api"},
                               old : Discovery \cup {<<>>}, new : Discovery \cup {<<>>}]]
  BY DEF TypeInv, TypeOK, WatcherTypeOK, ReloadTypeOK, Given, Step, Discover, SetResult,
         SetRuntime, ClearAllJobs, RegisterCronJobs, UpdateDiscovery, Give, disk
\* A step that neither changes the discovery of the main program nor ends in it.
<1>1. ASSUME disc'["result"] = disc["result"], kept' = kept,
             rl'[r].pc \in {"runtime", "clear", "jobs", "api", "off"},
             r \in OfMain \/ rl'[r].pc \in {"api", "off"},
             \A o \in Reloaders : o # r => rl'[o] = rl[o]
      PROVE  ReloadsKeep'
  BY <1>0, <1>1 DEF ReloadsKeep, OfMain, Reloaders
<1>2. CASE Discover(r)
  <2>1. /\ rl[r].pc = "scan" /\ UNCHANGED <<disc, kept>>
        /\ \A o \in Reloaders : o # r => rl'[o] = rl[o]
    BY <1>0, <1>2 DEF Discover
  <2>2. CASE r \notin OfMain
    <3>1. rl'[r].pc = "api"
      BY <1>0, <1>2, <2>2 DEF Discover, OfMain
    <3> QED
      BY <1>1, <2>1, <3>1
  <2>3. CASE r \in OfMain
    <3>1. rl'[r].pc = "result" /\ rl'[r].new = Preserve(rl[r].old, Scan)
      BY <1>0, <1>2, <2>3 DEF Discover, OfMain
    <3>2. rl[r].old = disc["result"] /\ rl[r].old \in Discovery
      BY <1>0, <2>1, <2>3 DEF ReloadsKeep, Holders
    <3>3. \A s \in kept : Loads(rl'[r].new.cfg[s])
      BY <1>0, <3>1, <3>2, DiscoverKeeps DEF ReloadsKeep
    <3> QED
      BY <1>0, <2>1, <2>3, <3>1, <3>3 DEF ReloadsKeep, OfMain, Reloaders
  <2> QED
    BY <2>2, <2>3
<1>3. CASE SetResult(r)
  <2>1. /\ rl[r].pc = "result" /\ rl'[r].pc = "runtime"
        /\ disc'["result"] = rl[r].new
        /\ \A o \in Reloaders : o # r => rl'[o] = rl[o]
    BY <1>0, <1>3 DEF SetResult, Give, Holders
  <2>2. r \in OfMain
    BY <2>1 DEF ReloadsKeep
  \* The other one is at rest.
  <2>3. \A o \in OfMain : o # r => rl[o].pc = "off"
    BY <2>1, <2>2 DEF Apart, OfMain
  <2>4. kept' = kept \cup {s \in Services : Loads(rl[r].new.cfg[s]) /\ content[s] # "none"}
    BY <1>3 DEF SetResult
  <2>5. \A s \in kept' : content'[s] # "none" /\ Loads(disc'["result"].cfg[s])
    BY <1>0, <2>1, <2>2, <2>4 DEF ReloadsKeep
  <2> QED
    BY <2>1, <2>2, <2>3, <2>5 DEF ReloadsKeep, OfMain, Reloaders
<1>4. CASE SetRuntime(r)
  <2>1. /\ rl[r].pc = "runtime" /\ rl'[r].pc = "clear" /\ kept' = kept
        /\ disc'["result"] = disc["result"]
        /\ \A o \in Reloaders : o # r => rl'[o] = rl[o]
    BY <1>0, <1>4 DEF SetRuntime, Give, Holders
  <2> QED
    BY <1>1, <2>1 DEF ReloadsKeep
<1>5. CASE ClearAllJobs(r)
  <2>1. /\ rl[r].pc = "clear" /\ rl'[r].pc = "jobs" /\ UNCHANGED <<disc, kept>>
        /\ \A o \in Reloaders : o # r => rl'[o] = rl[o]
    BY <1>0, <1>5 DEF ClearAllJobs
  <2> QED
    BY <1>1, <2>1 DEF ReloadsKeep
<1>6. CASE RegisterCronJobs(r)
  <2>1. /\ rl[r].pc = "jobs" /\ rl'[r].pc = "api" /\ UNCHANGED <<disc, kept>>
        /\ \A o \in Reloaders : o # r => rl'[o] = rl[o]
    BY <1>0, <1>6 DEF RegisterCronJobs
  <2> QED
    BY <1>1, <2>1 DEF ReloadsKeep
<1>7. CASE UpdateDiscovery(r)
  <2>1. /\ rl'[r].pc = "off" /\ kept' = kept
        /\ disc'["result"] = disc["result"]
        /\ \A o \in Reloaders : o # r => rl'[o] = rl[o]
    BY <1>0, <1>7 DEF UpdateDiscovery, Give, Holders, Idle
  <2> QED
    BY <1>1, <2>1
<1> QED
  BY <1>2, <1>3, <1>4, <1>5, <1>6, <1>7 DEF Step

LEMMA KeepNext == TypeInv /\ Apart /\ ReloadsKeep /\ [Next]_vars => ReloadsKeep'
<1> SUFFICES ASSUME TypeInv, Apart, ReloadsKeep, [Next]_vars PROVE ReloadsKeep'
  OBVIOUS
<1>1. CASE DiskChanges
  <2>1. UNCHANGED <<disc, rl>> /\ kept' = {s \in kept : content'[s] # "none"}
    BY <1>1 DEF DiskChanges
  <2> QED
    BY <2>1, KeepUntouched
<1>2. CASE Watching \/ ConsumerEnds \/ UNCHANGED vars
  <2>1. UNCHANGED <<disc, rl, kept, content>>
    BY <1>2 DEF Watching, ConsumerEnds, Forward, ForwardKeeps, WalkAdds, ForwardPushes, ForwardEnds,
                ForwardFails, Debounce, DebTakes, DebTimes, DebSends, DebStops, Stop, reloadVars,
                vars, disk
  <2> QED
    BY <2>1, KeepUntouched DEF ReloadsKeep
<1>3. CASE OnBatch
  <2>1. Begin("watcher") /\ content' = content
    BY <1>3 DEF OnBatch, disk
  <2> QED
    BY <2>1, KeepBegin DEF Reloaders
<1>4. ASSUME NEW r \in Reloaders \ {"watcher"}, OnRequest(r) PROVE ReloadsKeep'
  <2>1. Begin(r) /\ content' = content
    BY <1>4 DEF OnRequest, disk
  <2> QED
    BY <2>1, KeepBegin
<1> QED
  BY <1>1, <1>2, <1>3, <1>4, KeepStep DEF Next

\* Where no reload begins before the last one has ended there is never more than one.
OneAtATime == \A r, o \in Reloaders : r # o => rl[r].pc = "off" \/ rl[o].pc = "off"

LEMMA OneNext == ~Overlapping /\ TypeInv /\ OneAtATime /\ [Next]_vars => OneAtATime'
<1> SUFFICES ASSUME ~Overlapping, TypeInv, OneAtATime, [Next]_vars PROVE OneAtATime'
  OBVIOUS
<1>1. ASSUME NEW r \in Reloaders, Begin(r) PROVE OneAtATime'
  <2>1. \A o \in Reloaders : rl[o].pc = "off" /\ (o # r => rl'[o] = rl[o])
    BY <1>1 DEF Begin, TypeInv, Given
  <2> QED
    BY <2>1 DEF OneAtATime
<1>2. ASSUME NEW r \in Reloaders, Step(r) PROVE OneAtATime'
  <2>1. rl[r].pc # "off" /\ \A o \in Reloaders : o # r => rl'[o] = rl[o]
    BY <1>2 DEF Step, Discover, SetResult, SetRuntime, ClearAllJobs, RegisterCronJobs,
                UpdateDiscovery, Give, TypeInv, Given
  <2> QED
    BY <2>1 DEF OneAtATime
<1>3. ASSUME UNCHANGED rl PROVE OneAtATime'
  BY <1>3 DEF OneAtATime
<1> QED
  BY <1>1, <1>2, <1>3 DEF Next, DiskChanges, Watching, ConsumerEnds, OnBatch, OnRequest, Reloaders,
                          reloadVars, vars

-----------------------------------------------------------------------------
(* The theorems. *)

\* Every variable of the watcher and the reloads keeps its type: the channels never hold
\* more than they can, only directories that are there are watched, the timer runs while
\* events are pending and then only, and there is no cron job without a schedule.
THEOREM TypeCorrect == Spec => []TypeOK
<1>1. TypeInv => TypeOK
  BY DEF TypeInv
<1> QED
  BY <1>1, TypeBegins, TypeNext, PTL DEF Spec

\* A service that was loaded stays in the discovery of the main program while its
\* service.yaml is there, loads or not, as long as the reloads of the main program keep out
\* of each other's way; those that users ask for may come at any time.
THEOREM BrokenIsKept == Spec /\ []Apart => []BrokenKeepsItsService
<1>1. ReloadsKeep => BrokenKeepsItsService
  BY DEF ReloadsKeep, BrokenKeepsItsService
<1> QED
  BY <1>1, TypeBegins, TypeNext, KeepBegins, KeepNext, PTL DEF Spec

\* In particular where no reload begins before the last one has ended.
THEOREM BrokenIsKeptInTurn == ~Overlapping => (Spec => []BrokenKeepsItsService)
<1> SUFFICES ASSUME ~Overlapping PROVE Spec => []BrokenKeepsItsService
  OBVIOUS
<1>1. Init => OneAtATime
  BY DEF Init, OneAtATime, Idle
<1>2. TypeInv /\ OneAtATime /\ [Next]_vars => OneAtATime'
  BY OneNext
<1>3. OneAtATime => Apart
  BY DEF OneAtATime, Apart, Reloaders
<1> QED
  BY <1>1, <1>2, <1>3, TypeBegins, TypeNext, BrokenIsKept, PTL DEF Spec
=============================================================================
