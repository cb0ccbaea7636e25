-------------------------------- MODULE Imports --------------------------------
(***************************************************************************)
(* The directory of one service, global extension or extension of a        *)
(* service, and what replaces it: imports (api/export_handler.go), each a  *)
(* transaction with a staging directory, a backup and a marker on disk;    *)
(* creation, update and deletion (api/service_handler.go,                  *)
(* api/extension_provider.go); the file manager; the service itself, which *)
(* writes its data. Only imports keep out of each other's way.             *)
(***************************************************************************)
EXTENDS Naturals, FiniteSets, FiniteSetsExt

CONSTANTS
    Kinds,          \* of "service", "extension" and "nested", those to look at
    Importers,      \* the requests to import
    Contents,       \* what a configuration or data can be
    MaxKeep,        \* backups a deletion leaves (extension_provider.go:294)
    MaxBackups,     \* bound on the backups ever made
    MaxFaults,      \* bound on the calls of the file system that fail
    MaxCrashes,     \* bound on the crashes of supd
    MaxEdits        \* bound on what else happens to the directory

Absent == "absent"
ASSUME ImportsAssumption ==
    /\ Kinds \subseteq {"service", "extension", "nested"}
    /\ Contents # {} /\ {Absent, "none"} \cap Contents = {}
    /\ MaxKeep \in Nat \ {0}
    /\ {MaxBackups, MaxFaults, MaxCrashes, MaxEdits} \subseteq Nat

VARIABLES
    kind,       \* what the directory is of
    target,     \* the directory
    backups,    \* the directories <target>.bak.*
    marker,     \* the marker file, if there is one: the backup it names
    staged,     \* the staging directory of each import
    imports,    \* where each import is, its backup, the data in its archive
    lock,       \* who holds the import lock of the directory
    deletion,   \* where a deletion is
    running,    \* whether the service runs
    up,         \* whether supd runs, the recovery done
    budget,     \* the backups, faults, crashes and edits left
    settled,    \* what the directory was last made to be, and whether in peace
    owed        \* an import has said that it could not restore the directory

importsVars == <<kind, target, backups, marker, staged, imports, lock, deletion,
                 running, up, budget, settled, owed>>

\* A directory: its configuration, its data/ and its data.bak/.
Dirs == [conf : Contents \cup {Absent}, data : Contents \cup {Absent},
         aside : Contents \cup {Absent}]
NoDir == [conf |-> "none", data |-> Absent, aside |-> Absent]
Empty == [conf |-> Absent, data |-> Absent, aside |-> Absent]

\* A directory as it comes, in an archive or at first: with data or without.
Packed(c) == {[Empty EXCEPT !.conf = c], [Empty EXCEPT !.conf = c, !.data = c]}

\* What the marker names before a backup is chosen, and no backup.
Unnamed == 0
NoBackup == 0
Idle == [pc |-> "idle", backup |-> NoBackup, data |-> Absent]
Made == {b.n : b \in backups}
BackupOf(n) == (CHOOSE b \in backups : b.n = n).dir

ImportSteps == {"idle", "unpacked", "ready", "prepared", "backup", "activate", "done",
                "failed", "refused"}

ImportsTypeOK ==
    /\ kind \in {"service", "extension", "nested"}
    /\ target \in Dirs \cup {NoDir}
    /\ backups \subseteq [n : 1..MaxBackups, by : {"import", "delete"}, dir : Dirs]
    /\ marker \in SUBSET (0..MaxBackups) /\ Cardinality(marker) <= 1
    /\ staged \in [Importers -> Dirs \cup {NoDir}]
    /\ imports \in [Importers -> [pc : ImportSteps, backup : 0..MaxBackups,
                               data : Contents \cup {Absent}]]
    /\ lock \in SUBSET Importers /\ Cardinality(lock) <= 1
    /\ deletion \in {"idle", "remove", "restore", "sweep"}
    /\ running \in BOOLEAN /\ up \in BOOLEAN /\ owed \in BOOLEAN
    /\ budget \in [backups : 0..MaxBackups, faults : 0..MaxFaults,
                   crashes : 0..MaxCrashes, edits : 0..MaxEdits]
    /\ settled \in [dir : Dirs \cup {NoDir}, peace : BOOLEAN]

ImportsInit ==
    /\ kind \in Kinds
    /\ \E c \in Contents : target \in {NoDir} \cup Packed(c)
    /\ backups = {} /\ marker = {}
    /\ staged = [i \in Importers |-> NoDir]
    /\ imports = [i \in Importers |-> Idle] /\ lock = {}
    /\ deletion = "idle"
    /\ running = FALSE /\ up = TRUE
    /\ budget = [backups |-> MaxBackups, faults |-> MaxFaults,
                 crashes |-> MaxCrashes, edits |-> MaxEdits]
    /\ settled = [dir |-> target, peace |-> TRUE] /\ owed = FALSE

Spends(what) == budget[what] > 0 /\ budget' = [budget EXCEPT ![what] = @ - 1]
Peaceful == lock = {} /\ deletion \in {"idle", "sweep"}
\* Someone who holds no lock has made the directory dir.
Settles(dir) == settled' = [dir |-> dir, peace |-> Peaceful]
-----------------------------------------------------------------------------
\* The import: each step may fail, and then undoes what it has done.
To(i, pc) == imports' = [imports EXCEPT ![i].pc = pc]
At(i, pc) == up /\ imports[i].pc = pc
Others == <<kind, deletion, running, up>>

\* A bug: requests for the same directory do not wait for each other.
AcquireImportLockNone(i) == lock' = lock \cup {i}

\* The import locks the directory of this name and no other.
AcquireImportLock(i) == lock = {} /\ lock' = {i}

\* The archive is unpacked next to the directory.
Unpack(i) ==
    /\ At(i, "idle") /\ AcquireImportLock(i)
    /\ \E c \in Contents : \E dir \in Packed(c) :
         /\ staged' = [staged EXCEPT ![i] = dir]
         /\ imports' = [imports EXCEPT ![i] = [Idle EXCEPT !.pc = "unpacked", !.data = dir.data]]
    /\ settled' = [settled EXCEPT !.peace = @ /\ Peaceful]
    /\ UNCHANGED <<Others, target, backups, marker, budget, owed>>

\* That the service is at rest is looked at once; that no run of an extension is
\* under way is not looked at.
ImportConfirm(i) == kind = "service" /\ ~running /\ Unpack(i)
ImportExtensionConfirm(i) == kind # "service" /\ Unpack(i)

\* A bug: the import takes the archive as it is.
KeepDataNothing(i) ==
    /\ At(i, "unpacked") /\ To(i, "ready")
    /\ UNCHANGED <<Others, target, backups, marker, staged, lock, budget, settled, owed>>

\* copyImportDir: an archive of a service without data takes the local data.
KeepData(i) ==
    /\ At(i, "unpacked")
    /\ staged' = IF kind = "service" /\ staged[i].data = Absent
                    /\ target # NoDir /\ target.data # Absent
                 THEN [staged EXCEPT ![i].data = target.data] ELSE staged
    /\ To(i, "ready")
    /\ UNCHANGED <<Others, target, backups, marker, lock, budget, settled, owed>>

\* validateServiceImport, validateExtensionImport; then the first marker, which
\* names no backup.
WriteMarker(n) == marker' = {n}
Prepare(i) ==
    /\ At(i, "ready") /\ To(i, "prepared") /\ WriteMarker(Unnamed)
    /\ UNCHANGED <<Others, target, backups, staged, lock, budget, settled, owed>>

\* Backups are named by the time they are made at.
NextBackup == MaxBackups - budget.backups + 1

\* The directory is there: the marker names the backup before it is made.
NameBackup(i) ==
    /\ At(i, "prepared")
    /\ IF target = NoDir
       THEN To(i, "activate") /\ UNCHANGED <<marker, budget>>
       ELSE /\ Spends("backups") /\ WriteMarker(NextBackup)
            /\ imports' = [imports EXCEPT ![i].pc = "backup", ![i].backup = NextBackup]
    /\ UNCHANGED <<Others, target, backups, staged, lock, settled, owed>>

MoveToBackup(i) ==
    /\ At(i, "backup")
    /\ IF target = NoDir
       THEN To(i, "failed") /\ UNCHANGED <<target, backups>>
       ELSE /\ backups' = backups \cup {[n |-> imports[i].backup, by |-> "import", dir |-> target]}
            /\ target' = NoDir
            /\ To(i, "activate")
    /\ UNCHANGED <<Others, marker, staged, lock, budget, settled, owed>>

\* os.Rename of a directory: the target must not be there or be empty.
Free == target \in {NoDir, Empty}

\* A bug: the import fails and leaves the backup where it is.
RollBackNothing(i) == UNCHANGED <<target, backups, owed>>

\* os.Rename(backupDir, cfg.TargetDir) after a failure.
RollBack(i) ==
    LET n == imports[i].backup IN
    IF n \in Made /\ Free
    THEN /\ target' = BackupOf(n)
         /\ backups' = {b \in backups : b.n # n}
         /\ UNCHANGED owed
    ELSE /\ owed' = (owed \/ n # NoBackup)
         /\ UNCHANGED <<target, backups>>

\* What an import into a directory left in peace has to make of it.
Imported(i) ==
    LET keeps == kind = "service" /\ imports[i].data = Absent /\ settled.peace /\ ~owed IN
    IF keeps THEN [staged[i] EXCEPT !.data = settled.dir.data] ELSE staged[i]

Activate(i) ==
    /\ At(i, "activate")
    /\ IF Free
       THEN /\ target' = staged[i]
            /\ staged' = [staged EXCEPT ![i] = NoDir]
            /\ settled' = [dir |-> Imported(i), peace |-> deletion \in {"idle", "sweep"}]
            /\ owed' = FALSE
            /\ To(i, "done") /\ UNCHANGED backups
       ELSE /\ RollBack(i) /\ To(i, "failed")
            /\ UNCHANGED <<staged, settled>>
    /\ UNCHANGED <<Others, marker, lock, budget>>

\* A call fails, or the archive is not valid: before the directory has been moved there is nothing to undo,
\* after it the backup is moved back, unless that fails as well.
Fail(i) ==
    /\ At(i, imports[i].pc) /\ Spends("faults")
    /\ \/ /\ imports[i].pc \in {"unpacked", "ready", "prepared", "backup"}
          /\ UNCHANGED <<target, backups, owed>>
       \/ imports[i].pc = "activate" /\ RollBack(i)
       \/ /\ imports[i].pc = "activate" /\ imports[i].backup # NoBackup
          /\ owed' = TRUE /\ UNCHANGED <<target, backups>>
    /\ To(i, IF imports[i].pc \in {"unpacked", "ready"} THEN "refused" ELSE "failed")
    /\ UNCHANGED <<Others, marker, staged, lock, settled>>

\* The deferred calls: the staging directory goes, and the marker, unless the
\* directory is missing or the import has failed before it wrote one. After a
\* success backups whose directory had not changed for a week go as well.
Returns(i, backupsKept) ==
    /\ staged' = [staged EXCEPT ![i] = NoDir]
    /\ imports' = [imports EXCEPT ![i] = Idle]
    /\ lock' = lock \ {i}
    /\ backups' = backupsKept
    /\ UNCHANGED <<kind, deletion, running, up, target, budget, settled, owed>>

CleanupImportBackups(old) == backups \ old

Succeed(i) ==
    /\ At(i, "done")
    /\ marker' = {}
    /\ \E old \in SUBSET backups : Returns(i, CleanupImportBackups(old))

GiveUp(i) ==
    /\ up /\ imports[i].pc \in {"failed", "refused"}
    /\ marker' = IF imports[i].pc = "refused" \/ target = NoDir THEN marker ELSE {}
    /\ Returns(i, backups)
-----------------------------------------------------------------------------
\* What else changes the directory: each is one request, that holds no lock.
Edits == up /\ Spends("edits")
Untouched == UNCHANGED <<kind, staged, imports, lock, up>>

\* A file is written into the directory, which os.WriteFile wants to be there.
Write(dir, c) == [dir EXCEPT !.conf = c]
Becomes(dir) == target' = dir /\ Settles(dir)

\* The requests go by the discovery of a moment ago, which may know of the
\* directory or not, whatever is there now. The creation of a service is refused
\* if it is known, that of an extension is not; both make the directory if it is
\* not there.
Create(c) ==
    /\ Edits
    /\ Becomes(Write(IF target = NoDir THEN Empty ELSE target, c))
    /\ Untouched /\ UNCHANGED <<backups, marker, deletion, running, owed>>

CreateService(c) == kind = "service" /\ Create(c)
CreateExtension(c) == kind = "extension" /\ Create(c)
CreateServiceExtension(c) == kind = "nested" /\ Create(c)

\* An update writes the file without making the directory. One of an extension
\* may write back what was known of it, with one field changed.
Update(c) ==
    /\ Edits /\ target # NoDir
    /\ Becomes(Write(target, c))
    /\ Untouched /\ UNCHANGED <<backups, marker, deletion, running, owed>>

UpdateService(c) == kind = "service" /\ Update(c)
UpdateExtension(c) == kind = "extension" /\ Update(c)
UpdateServiceExtension(c) == kind = "nested" /\ Update(c)
SaveExtensionEnv(c) == kind # "service" /\ Update(c)

\* The file manager: atomicWrite makes the directories it needs, DeleteFile
\* removes the whole directory.
Save(c) ==
    /\ Edits
    /\ Becomes(Write(IF target = NoDir THEN Empty ELSE target, c))
    /\ Untouched /\ UNCHANGED <<backups, marker, deletion, running, owed>>

RemoveAll ==
    /\ Edits /\ target # NoDir
    /\ Becomes(NoDir)
    /\ Untouched /\ UNCHANGED <<backups, marker, deletion, running, owed>>

\* The service is started and stopped; while it runs it writes its data.
StartStop ==
    /\ up /\ kind = "service" /\ (running \/ budget.edits > 0)
    /\ running' = ~running
    /\ Untouched /\ UNCHANGED <<target, backups, marker, deletion, budget, settled, owed>>

WriteData(d) ==
    /\ Edits /\ running /\ target # NoDir
    /\ Becomes([target EXCEPT !.data = d])
    /\ Untouched /\ UNCHANGED <<backups, marker, deletion, running, owed>>
-----------------------------------------------------------------------------
\* The deletion of a service moves data/ aside, within the directory, removes
\* the directory, and moves it back: by then it has gone with the directory.
Deletes(from, to) == up /\ deletion = from /\ deletion' = to

DeleteService ==
    /\ Deletes("idle", "remove") /\ Spends("edits")
    /\ kind = "service" /\ ~running
    /\ Becomes(IF target # NoDir /\ target.data # Absent
               THEN [target EXCEPT !.aside = target.data, !.data = Absent] ELSE target)
    /\ Untouched /\ UNCHANGED <<backups, marker, running, owed>>

RemoveServiceDir ==
    /\ \/ Deletes("remove", "restore") /\ Becomes(NoDir) /\ UNCHANGED budget
       \/ /\ Deletes("remove", "idle") /\ Spends("faults")
          /\ Becomes(IF target = NoDir THEN NoDir
                     ELSE [target EXCEPT !.data = target.aside, !.aside = Absent])
    /\ Untouched /\ UNCHANGED <<backups, marker, running, owed>>

RestoreData ==
    /\ Deletes("restore", "idle")
    /\ \E left \in {target, IF target = NoDir THEN Empty ELSE target} :
         Becomes(IF left # NoDir /\ left.aside # Absent
                 THEN [left EXCEPT !.data = left.aside, !.aside = Absent] ELSE left)
    /\ Untouched /\ UNCHANGED <<backups, marker, running, budget, owed>>

\* DeleteExtension makes a backup; which are left is decided by their names,
\* in which the form of the time an import gives sorts after that of a deletion
\* on the same day.
DeleteExtension ==
    /\ up /\ deletion \in {"idle", "sweep"} /\ deletion' = "sweep"
    /\ kind # "service" /\ target # NoDir
    /\ Spends("backups")
    /\ backups' = backups \cup {[n |-> NextBackup, by |-> "delete", dir |-> target]}
    /\ Becomes(NoDir)
    /\ Untouched /\ UNCHANGED <<marker, running, owed>>

SortsAfter(b, c) ==
    \/ b.by = "import" /\ c.by = "delete"
    \/ b.by = c.by /\ b.n > c.n

CleanupOldBackups ==
    /\ Deletes("sweep", "idle")
    /\ backups' = {b \in backups : Cardinality({c \in backups : SortsAfter(c, b)}) < MaxKeep}
    /\ Untouched /\ UNCHANGED <<target, marker, running, budget, settled, owed>>
-----------------------------------------------------------------------------
\* supd is killed, or comes to an end while requests are served; the services
\* go with it. What is on disk stays.
Crash ==
    /\ up /\ Spends("crashes")
    /\ up' = FALSE
    /\ imports' = [i \in Importers |-> Idle] /\ lock' = {} /\ deletion' = "idle"
    /\ running' = FALSE
    /\ settled' = [settled EXCEPT !.peace = @ /\ deletion \in {"idle", "sweep"}]
    /\ UNCHANGED <<kind, target, backups, marker, staged, owed>>

\* RecoverInterruptedImports. The directories of
\* services and of global extensions are looked at, no others.
Recovers == kind # "nested"
Restores == target = NoDir /\ marker \cap Made # {}

\* A bug: the marker is removed, the backup stays where it is.
RecoverInterruptedImportsNothing ==
    /\ staged' = [i \in Importers |-> NoDir] /\ marker' = {}
    /\ UNCHANGED <<target, backups, owed, budget, settled>>

RecoverInterruptedImports ==
    /\ staged' = [i \in Importers |-> NoDir]
    /\ \/ /\ Restores
          /\ target' = BackupOf(Max(marker))
          /\ backups' = {b \in backups : b.n \notin marker}
          /\ marker' = {} /\ owed' = FALSE /\ UNCHANGED budget
          /\ settled' = IF owed THEN [settled EXCEPT !.dir = target'] ELSE settled
       \/ /\ Restores /\ Spends("faults")
          /\ owed' = TRUE /\ UNCHANGED <<target, backups, marker, settled>>
       \/ /\ ~Restores
          /\ marker' = {} /\ UNCHANGED <<target, backups, owed, budget, settled>>

Boot ==
    /\ ~up /\ up' = TRUE
    /\ IF Recovers THEN RecoverInterruptedImports
       ELSE /\ owed' = (owed \/ target = NoDir)
            /\ UNCHANGED <<target, backups, marker, staged, budget, settled>>
    /\ UNCHANGED <<kind, imports, lock, deletion, running>>

ImportsNext ==
    \/ \E i \in Importers :
         \/ ImportConfirm(i) \/ ImportExtensionConfirm(i) \/ KeepData(i) \/ Prepare(i) \/ NameBackup(i)
         \/ MoveToBackup(i) \/ Activate(i) \/ Fail(i) \/ Succeed(i) \/ GiveUp(i)
    \/ \E c \in Contents :
         \/ CreateService(c) \/ CreateExtension(c) \/ CreateServiceExtension(c)
         \/ UpdateService(c) \/ UpdateExtension(c) \/ UpdateServiceExtension(c)
         \/ SaveExtensionEnv(c) \/ Save(c) \/ WriteData(c)
    \/ RemoveAll \/ StartStop
    \/ DeleteService \/ RemoveServiceDir \/ RestoreData
    \/ DeleteExtension \/ CleanupOldBackups
    \/ Crash \/ Boot
-----------------------------------------------------------------------------
(***************************************************************************)
(* With supd up and no import under way, the directory is what it was last *)
(* made to be, the old or the new one in full and with the data of the     *)
(* service, whatever failed and wherever supd was killed; or an import has *)
(* reported that it could not move the backup back, and the backup is      *)
(* there. Of an extension of a service a crash may leave the backup only.  *)
(* Nothing is claimed of a directory that something without the lock has   *)
(* written to during an import or a deletion.                              *)
(***************************************************************************)
NothingIsLost ==
    up /\ lock = {} /\ settled.peace /\ deletion \in {"idle", "sweep"} =>
        \/ target = settled.dir
        \/ owed /\ \E b \in backups : b.dir = settled.dir
=============================================================================
