------------------------------ MODULE Watcher ------------------------------
(***************************************************************************)
(* From a change under the base directory to a batch of changes: the       *)
(* goroutine forwardEvents (watch/watcher.go) and the debouncer's          *)
(* goroutine run (watch/debounce.go). What is done with a batch is in      *)
(* Reload.                                                                 *)
(*                                                                         *)
(* A directory of a service or an extension holds one file that matters,   *)
(* its service.yaml or meta.yaml, of which only the version or the fact    *)
(* that it cannot be loaded is kept. Of a change the consumer uses nothing *)
(* but that there was one, so channels and batches are counted.            *)
(***************************************************************************)
EXTENDS Naturals, Sequences, FiniteSets

CONSTANTS
    Dirs,       \* the directories of services and extensions
    Top,        \* the directories that hold them, watched from the start
    Parent,     \* Dirs -> Dirs \cup {Top}
    Versions,   \* what a file that loads can say
    Start,      \* the files of the directories there are at the beginning
    EventCap,   \* debouncer.events, 64 in the code
    BatchCap,   \* debouncer.output, 16 in the code
    MaxChanges  \* bound on the changes to the disk

ASSUME WatcherAssumption ==
    /\ Top \notin Dirs /\ Parent \in [Dirs -> Dirs \cup {Top}]
    /\ {"bad", "none"} \cap Versions = {}
    /\ DOMAIN Start \subseteq Dirs
    /\ \A d \in DOMAIN Start : Start[d] \in Versions \cup {"bad", "none"}
    /\ EventCap \in Nat \ {0} /\ BatchCap \in Nat \ {0} /\ MaxChanges \in Nat

VARIABLES
    exists,     \* the directories there are
    content,    \* what their file says: Versions, "bad" or "none"
    watched,    \* the directories the kernel reports on
    raw,        \* what it has reported and nobody has read
    fwd,        \* where forwardEvents is: "idle", "walk", "push" or "gone"
    todo,       \* the directories its walk has found and not yet added
    queued,     \* the length of debouncer.events
    deb,        \* where debouncer.run is: "wait", "send" or "done"
    pending,    \* debouncer.pending is not empty
    armed,      \* its timer runs
    batches,    \* the length of debouncer.output
    disabled,   \* Watcher.disabled, disableCh closed
    stopped,    \* Watcher.done closed
    changes

disk == <<exists, content, watched, changes>>
pipe == <<raw, fwd, todo, queued, deb, pending, armed, batches, disabled, stopped>>

Files == Versions \cup {"bad", "none"}
Event == [op : {"create", "other", "ignored"}, dir : Dirs]

Children(d) == {c \in exists : Parent[c] = d}
Reported(d) == d = Top \/ d \in watched

WatcherTypeOK ==
    /\ exists \subseteq Dirs /\ content \in [Dirs -> Files]
    /\ watched \subseteq exists
    /\ \A i \in DOMAIN raw : raw[i] \in Event
    /\ fwd \in {"idle", "walk", "push", "gone"} /\ todo \subseteq Dirs
    /\ queued \in 0..EventCap /\ batches \in 0..BatchCap
    /\ deb \in {"wait", "send", "done"} /\ {pending, armed} \subseteq BOOLEAN
    /\ {disabled, stopped} \subseteq BOOLEAN /\ changes \in 0..MaxChanges
    /\ deb # "done" => (armed <=> pending)

\* NewWatcher has walked the base directory before Start.
WatcherInit ==
    /\ exists = DOMAIN Start
    /\ content = [d \in Dirs |-> IF d \in DOMAIN Start THEN Start[d] ELSE "none"]
    /\ watched = DOMAIN Start
    /\ raw = <<>> /\ fwd = "idle" /\ todo = {} /\ queued = 0
    /\ deb = "wait" /\ pending = FALSE /\ armed = FALSE /\ batches = 0
    /\ disabled = FALSE /\ stopped = FALSE /\ changes = 0

----------------------------------------------------------------------------
\* Users and tools change the disk at any time. The kernel reports what
\* happens in a watched directory; a directory that is removed is no longer
\* watched. What is changed after the watcher's stop is of no concern.
Report(d, op) == IF Reported(Parent[d]) THEN Append(raw, [op |-> op, dir |-> d]) ELSE raw
Change == changes < MaxChanges /\ ~stopped /\ changes' = changes + 1

\* A directory is made, or moved there with its file.
MakeDir(d, f) ==
    /\ Change /\ d \notin exists /\ Parent[d] \in exists \cup {Top}
    /\ exists' = exists \cup {d} /\ raw' = Report(d, "create")
    /\ content' = [content EXCEPT ![d] = f]
    /\ UNCHANGED <<watched, fwd, todo, queued, deb, pending, armed, batches, disabled, stopped>>

\* A file is written in place, or beside itself under a temporary name, which
\* is reported too and skipped, and renamed.
Write(d, f) ==
    /\ Change /\ d \in exists /\ content[d] # f
    /\ content' = [content EXCEPT ![d] = f]
    /\ raw' = IF Reported(d)
              THEN Append(raw, [op |-> "other", dir |-> d])
              ELSE raw
    /\ UNCHANGED <<exists, watched, fwd, todo, queued, deb, pending, armed, batches, disabled, stopped>>

\* A directory is removed or renamed to a backup, with all that is in it.
RemoveDir(d) ==
    /\ Change /\ d \in exists
    /\ LET lost == {d} \cup Children(d) IN
       /\ exists' = exists \ lost /\ watched' = watched \ lost
       /\ content' = [c \in Dirs |-> IF c \in lost THEN "none" ELSE content[c]]
    /\ raw' = Report(d, "other")
    /\ UNCHANGED <<fwd, todo, queued, deb, pending, armed, batches, disabled, stopped>>

\* A change of the rights of a file, a temporary file.
Touch(d) ==
    /\ Change /\ d \in exists /\ Reported(d)
    /\ raw' = Append(raw, [op |-> "ignored", dir |-> d])
    /\ UNCHANGED <<exists, content, watched, fwd, todo, queued, deb, pending, armed, batches, disabled, stopped>>

ChangeDisk ==
    \E d \in Dirs :
        \/ RemoveDir(d) \/ Touch(d)
        \/ \E f \in Files : MakeDir(d, f) \/ Write(d, f)

----------------------------------------------------------------------------
\* The variant of ForwardKeeps that pushes the event of a new directory
\* and leaves the directory for later.
ForwardKeepsUnwalked ==
    /\ fwd = "idle" /\ raw # <<>> /\ ~disabled /\ ~stopped
    /\ raw' = Tail(raw)
    /\ fwd' = IF Head(raw).op = "ignored" THEN "idle" ELSE "push"
    /\ UNCHANGED <<todo, queued, deb, pending, armed, batches, disabled, stopped, disk>>

\* forwardEvents takes what the kernel reports. An event that is not skipped
\* is pushed after the directory it may be about has been added.
ForwardKeeps ==
    /\ fwd = "idle" /\ raw # <<>> /\ ~disabled /\ ~stopped
    /\ raw' = Tail(raw)
    /\ LET e == Head(raw) IN
       /\ fwd' = CASE e.op = "ignored" -> "idle"
                   [] e.op = "create" /\ e.dir \in exists -> "walk"
                   [] OTHER -> "push"
       /\ todo' = IF fwd' = "walk" THEN {e.dir} ELSE {}
    /\ UNCHANGED <<queued, deb, pending, armed, batches, disabled, stopped, disk>>

Disable == disabled' = TRUE

\* handleNewDir and addWatch: each directory of the walk is added before it is
\* read. One that goes after it was found is passed over by the walk, or
\* cannot be added; that, and a watch the kernel refuses, ends automatic
\* reload.
WalkAdds ==
    /\ fwd = "walk"
    /\ \E d \in todo :
        \/ /\ d \in exists
           /\ watched' = watched \cup {d}
           /\ todo' = (todo \ {d}) \cup Children(d)
           /\ fwd' = IF todo' = {} THEN "push" ELSE "walk"
           /\ UNCHANGED disabled
        \/ /\ d \notin exists
           /\ todo' = todo \ {d}
           /\ fwd' = IF todo' = {} THEN "push" ELSE "walk"
           /\ UNCHANGED <<watched, disabled>>
        \/ /\ Disable /\ todo' = {} /\ fwd' = "push"
           /\ UNCHANGED watched
    /\ UNCHANGED <<exists, content, changes, raw, queued, deb, pending, armed, batches, stopped>>

\* Push blocks when debouncer.events is full, and for good when the debouncer
\* has ended by then.
ForwardPushes ==
    /\ fwd = "push" /\ queued < EventCap
    /\ queued' = queued + 1 /\ fwd' = "idle"
    /\ UNCHANGED <<raw, todo, deb, pending, armed, batches, disabled, stopped, disk>>

\* The kernel's queue has overflowed, or fsnotify reports another error.
ForwardFails ==
    /\ fwd = "idle" /\ ~disabled /\ ~stopped
    /\ Disable /\ fwd' = "gone"
    /\ UNCHANGED <<raw, todo, queued, deb, pending, armed, batches, stopped, disk>>

ForwardEnds ==
    /\ fwd = "idle" /\ (disabled \/ stopped)
    /\ fwd' = "gone"
    /\ UNCHANGED <<raw, todo, queued, deb, pending, armed, batches, disabled, stopped, disk>>

Forward == ForwardKeeps \/ WalkAdds \/ ForwardPushes \/ ForwardEnds

----------------------------------------------------------------------------
Over == disabled \/ stopped     \* debouncer.done is closed

\* The variant of DebTakes that leaves the timer as it is.
DebTakesUnarmed ==
    /\ deb = "wait" /\ queued > 0
    /\ queued' = queued - 1 /\ pending' = TRUE
    /\ UNCHANGED <<raw, fwd, todo, deb, armed, batches, disabled, stopped, disk>>

\* An event joins the batch and puts it off by 500 ms.
DebTakes ==
    /\ deb = "wait" /\ queued > 0
    /\ queued' = queued - 1 /\ pending' = TRUE /\ armed' = TRUE
    /\ UNCHANGED <<raw, fwd, todo, deb, batches, disabled, stopped, disk>>

DebTimes ==
    /\ deb = "wait" /\ armed
    /\ deb' = "send" /\ pending' = FALSE /\ armed' = FALSE
    /\ UNCHANGED <<raw, fwd, todo, queued, batches, disabled, stopped, disk>>

\* flush waits for room in debouncer.output; when the debouncer is stopped the
\* batch may be lost although there is room.
DebSends ==
    /\ deb = "send"
    /\ \/ batches < BatchCap /\ batches' = batches + 1
       \/ Over /\ UNCHANGED batches
    /\ deb' = "wait"
    /\ UNCHANGED <<raw, fwd, todo, queued, pending, armed, disabled, stopped, disk>>

\* run sees done closed: a last flush, and the output is closed.
DebStops ==
    /\ deb = "wait" /\ Over
    /\ deb' = "done" /\ pending' = FALSE /\ armed' = FALSE
    /\ \/ pending /\ batches < BatchCap /\ batches' = batches + 1
       \/ UNCHANGED batches
    /\ UNCHANGED <<raw, fwd, todo, queued, disabled, stopped, disk>>

Debounce == DebTakes \/ DebTimes \/ DebSends \/ DebStops

\* Watcher.Stop, the last step of the shutdown.
Stop ==
    /\ ~stopped
    /\ stopped' = TRUE
    /\ UNCHANGED <<raw, fwd, todo, queued, deb, pending, armed, batches, disabled, disk>>

\* The consumer receives a batch.
Receive ==
    /\ batches > 0
    /\ batches' = batches - 1
    /\ UNCHANGED <<raw, fwd, todo, queued, deb, pending, armed, disabled, stopped, disk>>
=============================================================================
