--------------------------------- MODULE Logs ---------------------------------
(***************************************************************************)
(* The log files of one directory (package logging): that of a service,    *)
(* where the output of the service is rotated and the lines of extensions  *)
(* are appended to the same file by a writer that knows nothing of it; or  *)
(* that of an extension, where each run rotates a file of its own and the  *)
(* archives of all runs lie together.                                      *)
(***************************************************************************)
EXTENDS Naturals, FiniteSets, Sequences, Functions

CONSTANTS
    Buffer,         \* lines the buffer of a LogWriter holds (64 KB)
    Memory,         \* lines kept when the disk takes none (diskFullBufferCapacity)
    Megabyte,       \* lines in a megabyte
    MaxSizeMB,      \* a file of this size is rotated
    MaxFiles,       \* archives kept
    MaxLines,       \* bound on the lines written
    MaxTime,        \* bound on the seconds that pass
    MaxLogFaults    \* bound on what goes wrong: a full disk, a call that fails

ASSUME LogsAssumption ==
    /\ {Buffer, Megabyte, MaxSizeMB, MaxFiles} \subseteq Nat \ {0} /\ Memory \in Nat \ {0, 1}
    /\ {MaxLines, MaxLogFaults} \subseteq Nat /\ MaxTime \in Nat \ {0}

Writers == {"main", "other"}
Lines == 1..MaxLines
Names == [time : 1..MaxTime, seq : 0..MaxLines]
NoName == [time |-> 0, seq |-> 0]

VARIABLES
    place,      \* of a "service" or of an "extension"
    written,    \* by whom each line was written
    text,       \* what each file holds that ever was in the directory
    current,    \* the files that are written to
    archives,   \* the archives
    log,        \* the writers
    clock,      \* the second it is
    disk,       \* whether the disk takes anything, and what may still go wrong
    rotated,    \* when files were rotated, whether two writers met at it,
                \* and whether archives have been removed
    harmed      \* lines may be missing because something went wrong

logsVars == <<place, written, text, current, archives, log, clock, disk, rotated, harmed>>

\* The writers of a service share a file.
Path(w) == IF place = "service" THEN "main" ELSE w
Rotates(w) == place = "extension" \/ w = "main"

\* The LogWriter (its file, open or not, what is in its buffer, whether a
\* write has failed), the RotatingLogWriter around it (its memory, the size it
\* reckons with) and where it is with a rotation.
Opened(f, size) == [file |-> f, open |-> TRUE, buf |-> <<>>, bad |-> FALSE,
                    mem |-> <<>>, size |-> size, pc |-> "ready", name |-> NoName]

LogsTypeOK ==
    /\ place \in {"service", "extension"}
    /\ written \in Seq(Writers) /\ Len(written) <= MaxLines
    /\ text \in Seq(Seq(Lines))
    /\ current \in [Writers -> 0..Len(text)]
    /\ DOMAIN archives \subseteq Names /\ Range(archives) \subseteq DOMAIN text
    /\ Cardinality(DOMAIN archives) <=
         MaxFiles + disk.faults + Cardinality({w \in Writers : log[w].pc = "renamed"})
    /\ log \in [Writers -> [file : DOMAIN text, open : BOOLEAN, buf : Seq(Lines), bad : BOOLEAN,
                            mem : Seq(Lines), size : 0..MaxLines,
                            pc : {"ready", "full", "named", "renamed"}, name : Names \cup {NoName}]]
    /\ \A w \in Writers : Len(log[w].buf) <= Buffer /\ Len(log[w].mem) <= Memory
    /\ clock \in 1..MaxTime
    /\ disk \in [full : BOOLEAN, faults : 0..MaxLogFaults]
    /\ rotated \in [at : Seq(1..MaxTime), met : BOOLEAN, removed : BOOLEAN]
    /\ harmed \in BOOLEAN

LogsInit ==
    /\ place \in {"service", "extension"}
    /\ written = <<>>
    /\ text = IF place = "service" THEN << <<>> >> ELSE << <<>>, <<>> >>
    /\ current = [w \in Writers |-> IF Path(w) = "main" THEN 1 ELSE 2]
    /\ archives = <<>>
    /\ log = [w \in Writers |-> Opened(current[w], 0)]
    /\ clock = 1 /\ disk = [full |-> FALSE, faults |-> 0]
    /\ rotated = [at |-> <<>>, met |-> FALSE, removed |-> FALSE] /\ harmed = FALSE

Faulty == disk.faults < MaxLogFaults /\ disk' = [disk EXCEPT !.faults = @ + 1]
Flushed(w) == [text EXCEPT ![log[w].file] = @ \o log[w].buf]
Ready(w) == log[w].pc = "ready"
-----------------------------------------------------------------------------
\* A line: the buffer takes it, after it has been flushed if it is full.
Accepts(w) == /\ Ready(w) /\ Len(written) < MaxLines
              /\ written' = Append(written, w)
Line == Len(written) + 1
NoRoom(w) == Len(log[w].buf) = Buffer
Fails(w) == log[w].bad \/ (NoRoom(w) /\ (disk.full \/ ~log[w].open))

\* The half that is oldest makes room.
Add(mem, line) ==
    Append(IF Len(mem) >= Memory THEN SubSeq(mem, Memory \div 2 + 1, Len(mem)) ELSE mem, line)

\* A bufio.Writer that has failed once fails for ever: the line, and all after
\* it, stay in the memory of the rotating writer. The plain one drops them.
\* That Write then flushes the memory, which it does after a success, never
\* comes about.
LineFails(w) ==
    /\ Accepts(w) /\ Fails(w)
    /\ log' = [log EXCEPT ![w].bad = TRUE,
                          ![w].mem = IF Rotates(w) THEN Add(@, Line) ELSE @]
    /\ harmed' = TRUE
    /\ UNCHANGED <<place, text, current, archives, clock, disk, rotated>>

MaxSize == MaxSizeMB * Megabyte

\* The size reckoned with is corrected at every megabyte, and before a
\* rotation, if the file is there; what is in the buffer is then not counted.
IsThere(w) == current[Path(w)] # 0
RealSize(w) == Len(text[current[Path(w)]]) + IF NoRoom(w) THEN Buffer ELSE 0
Reckon(w) ==
    LET size == log[w].size + 1 IN
    IF IsThere(w) /\ (size >= MaxSize \/ log[w].size \div Megabyte # size \div Megabyte)
    THEN RealSize(w) ELSE size
IsFull(w) == IsThere(w) /\ log[w].size + 1 >= MaxSize /\ RealSize(w) >= MaxSize

WriteLine(w) ==
    /\ Accepts(w) /\ ~Fails(w)
    /\ text' = IF NoRoom(w) THEN Flushed(w) ELSE text
    /\ LET buf == IF NoRoom(w) THEN <<Line>> ELSE Append(log[w].buf, Line) IN
       log' = [log EXCEPT ![w].buf = buf,
                          ![w].size = IF Rotates(w) THEN Reckon(w) ELSE @,
                          ![w].pc = IF Rotates(w) /\ IsFull(w) THEN "full" ELSE @]
    /\ UNCHANGED <<place, current, archives, clock, disk, rotated, harmed>>

\* Every five seconds. The loop of a closed writer has ended.
FlushLoop(w) ==
    /\ log[w].open /\ log[w].buf # <<>> /\ ~log[w].bad
    /\ IF disk.full
       THEN /\ log' = [log EXCEPT ![w].bad = TRUE] /\ harmed' = TRUE
            /\ UNCHANGED text
       ELSE /\ log' = [log EXCEPT ![w].buf = <<>>] /\ text' = Flushed(w)
            /\ UNCHANGED harmed
    /\ UNCHANGED <<place, written, current, archives, clock, disk, rotated>>
-----------------------------------------------------------------------------
\* A rotation: the file is closed, an archive name found that is not there,
\* the file renamed, a new one opened, the oldest archives removed.

\* A bug: the name is that of the second, there or not.
ResolveConflictNot == [time |-> clock, seq |-> 0]

ResolveConflict ==
    CHOOSE name \in Names :
        /\ name.time = clock /\ name \notin DOMAIN archives
        /\ \A seq \in 0..(name.seq - 1) : [time |-> clock, seq |-> seq] \in DOMAIN archives

\* A bug: the buffer is not flushed.
CloseUnflushed(w) == UNCHANGED <<text, harmed>>

\* A flush that fails does not keep the rotation from going on.
Close(w) ==
    IF log[w].bad \/ disk.full
    THEN /\ harmed' = (harmed \/ log[w].buf # <<>>)
         /\ UNCHANGED text
    ELSE text' = Flushed(w) /\ UNCHANGED harmed

NameArchive(w) ==
    /\ log[w].pc = "full"
    /\ Close(w)
    /\ log' = [log EXCEPT ![w].open = FALSE, ![w].buf = <<>>, ![w].pc = "named",
                          ![w].name = ResolveConflict]
    /\ rotated' = [rotated EXCEPT !.met = @ \/
                     \E o \in Writers \ {w} : log[o].pc = "named" /\ log[o].name = ResolveConflict]
    /\ UNCHANGED <<place, written, current, archives, clock, disk>>

Renamed(w) == /\ log[w].pc = "named"
              /\ archives' = [n \in {log[w].name} \cup DOMAIN archives |->
                               IF n = log[w].name THEN current[Path(w)] ELSE archives[n]]
              /\ rotated' = [rotated EXCEPT !.at = Append(@, log[w].name.time)]

\* What was under that name is no more.
MoveCurrent(w) ==
    LET f == Len(text) + 1 IN
    /\ Renamed(w)
    /\ text' = Append(text, <<>>)
    /\ current' = [o \in Writers |-> IF Path(o) = Path(w) THEN f ELSE current[o]]
    /\ log' = [log EXCEPT ![w] = [Opened(f, 0) EXCEPT !.pc = "renamed", !.mem = log[w].mem]]
    /\ UNCHANGED <<place, written, clock, disk, harmed>>

\* The writer stays closed: the buffer takes lines until it is full.
ReopenFails(w) ==
    /\ Faulty /\ Renamed(w)
    /\ current' = [o \in Writers |-> IF Path(o) = Path(w) THEN 0 ELSE current[o]]
    /\ log' = [log EXCEPT ![w].pc = "ready", ![w].name = NoName]
    /\ harmed' = TRUE
    /\ UNCHANGED <<place, written, text, clock>>

RenameFails(w) ==
    /\ Faulty /\ log[w].pc = "named"
    /\ log' = [log EXCEPT ![w] = [Opened(current[Path(w)], log[w].size) EXCEPT !.mem = log[w].mem]]
    /\ UNCHANGED <<place, written, text, current, archives, clock, rotated, harmed>>

\* In the order of the names, "-" comes before ".": of one second, the first
\* archive is the last.
ArchiveBefore(m, n) ==
    \/ m.time < n.time
    \/ m.time = n.time /\ m.seq # 0 /\ (n.seq = 0 \/ m.seq < n.seq)

\* A bug: the archives that come last are removed.
OldArchivesNot ==
    {n \in DOMAIN archives :
        Cardinality({m \in DOMAIN archives : ArchiveBefore(m, n)}) >= MaxFiles}

\* Those with MaxFiles or more after them.
OldArchives ==
    {n \in DOMAIN archives :
        Cardinality({m \in DOMAIN archives : ArchiveBefore(n, m)}) >= MaxFiles}

CleanOldArchives(w) ==
    /\ log[w].pc = "renamed"
    /\ archives' = Restrict(archives, DOMAIN archives \ OldArchives)
    /\ log' = [log EXCEPT ![w].pc = "ready", ![w].name = NoName]
    /\ rotated' = [rotated EXCEPT !.removed = @ \/ OldArchives # {}]
    /\ UNCHANGED <<place, written, text, current, clock, disk, harmed>>
-----------------------------------------------------------------------------
\* The service has a new process, and that a new logger. (A writer that could
\* not be opened again must not be closed again: supd would panic.)
RebuildLogger ==
    /\ place = "service" /\ Ready("main") /\ log["main"].open
    /\ Close("main")
    /\ log' = [log EXCEPT !["main"] = Opened(current["main"], Len(text'[current["main"]]))]
    /\ UNCHANGED <<place, written, current, archives, clock, disk, rotated>>

DiskFills == /\ ~disk.full /\ disk.faults < MaxLogFaults
             /\ disk' = [full |-> TRUE, faults |-> disk.faults + 1]
             /\ UNCHANGED <<place, written, text, current, archives, log, clock, rotated, harmed>>
DiskFrees == /\ disk.full /\ disk' = [disk EXCEPT !.full = FALSE]
             /\ UNCHANGED <<place, written, text, current, archives, log, clock, rotated, harmed>>

Tick == /\ clock < MaxTime /\ clock' = clock + 1
        /\ UNCHANGED <<place, written, text, current, archives, log, disk, rotated, harmed>>

LogsNext ==
    \/ \E w \in Writers :
         \/ WriteLine(w) \/ LineFails(w) \/ FlushLoop(w)
         \/ NameArchive(w) \/ MoveCurrent(w) \/ ReopenFails(w) \/ RenameFails(w)
         \/ CleanOldArchives(w)
    \/ RebuildLogger \/ DiskFills \/ DiskFrees \/ Tick
-----------------------------------------------------------------------------
(***************************************************************************)
(* Nothing that was written is missing from the archives, the files and    *)
(* the buffers as long as no archive was removed, which it is only beyond  *)
(* MaxFiles, nothing has gone wrong and no two runs of an extension took   *)
(* the same archive name at the same time. When one was removed, what a    *)
(* service has in its archives, read in the order of their names, its file *)
(* and its buffer is the end of what it wrote, unless it was rotated twice *)
(* within a second. And what a writer that has failed keeps in memory is   *)
(* the end of what it was given.                                           *)
(***************************************************************************)
Files == Range(archives) \cup (Range(current) \ {0})
Kept == (UNION {Range(text[f]) : f \in Files})
        \cup (UNION {Range(log[w].buf) : w \in Writers})

\* The lines of w: in the order they were written, before those in another
\* sequence, all there are from some line on.
By(w, l) == written[l] = w
InOrder(w, s) == \A i, j \in DOMAIN s : i < j /\ By(w, s[i]) /\ By(w, s[j]) => s[i] < s[j]
Precedes(w, s, t) == \A l \in Range(s), m \in Range(t) : By(w, l) /\ By(w, m) => l < m
IsEnd(w, lines) ==
    \A l \in lines, m \in DOMAIN written : l < m /\ By(w, l) /\ By(w, m) => m \in lines

ServiceIsShown ==
    LET archive(n) == text[archives[n]]
        file == text[current["main"]]
        buf == log["main"].buf
        last == {file, buf}
    IN  /\ \A n \in DOMAIN archives :
             /\ InOrder("main", archive(n))
             /\ \A s \in last : Precedes("main", archive(n), s)
             /\ \A m \in DOMAIN archives :
                  ArchiveBefore(m, n) => Precedes("main", archive(m), archive(n))
        /\ InOrder("main", file) /\ InOrder("main", buf) /\ Precedes("main", file, buf)
        /\ IsEnd("main", (UNION {Range(archive(n)) : n \in DOMAIN archives})
                           \cup Range(file) \cup Range(buf))

MemoryIsRecent(w) ==
    /\ \A l \in Range(log[w].mem) : By(w, l)
    /\ InOrder(w, log[w].mem) /\ IsEnd(w, Range(log[w].mem))

LogsAreComplete ==
    /\ rotated.removed => Len(rotated.at) > MaxFiles
    /\ ~harmed /\ ~rotated.met /\ ~rotated.removed => Kept = DOMAIN written
    /\ ~harmed /\ place = "service" /\ IsInjective(rotated.at) => ServiceIsShown
    /\ \A w \in Writers : log[w].bad => MemoryIsRecent(w)
=============================================================================
