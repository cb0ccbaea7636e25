------------------------------ MODULE FileHistory ------------------------------
(***************************************************************************)
(* The files users edit and their history (api/file_handler.go and         *)
(* api/file_provider.go). A snapshot copies the file into the history      *)
(* under the next number, v001, v002, ..., and removes the oldest ones;    *)
(* the requests of users are served at the same time, and nothing keeps    *)
(* two of them apart.                                                      *)
(***************************************************************************)
EXTENDS Naturals, FiniteSets, Sequences, FiniteSetsExt, Functions

CONSTANTS
    Paths,          \* the files
    Texts,          \* what a file can hold
    Sound,          \* the contents ValidateFile has nothing against
    Snappers,       \* the requests for a snapshot
    MaxVersions,    \* versions kept (file_history_versions)
    Radix, Width,   \* numbers are written with Width digits, or more if need be
    MaxTaken,       \* bound on the snapshots taken
    MaxWrites       \* bound on the changes of files

None == "none"
ASSUME FileHistoryAssumption ==
    /\ None \notin Paths \cup Texts /\ Sound \subseteq Texts
    /\ MaxVersions \in Nat \ {0} /\ Radix \in Nat \ {0, 1} /\ Width \in Nat \ {0}
    /\ MaxTaken \in Nat /\ MaxWrites \in Nat

Versions == 1..(MaxTaken + 1)

VARIABLES
    file,       \* the content of each file
    histDirs,   \* the files that have a directory in the history
    hist,       \* the versions in it
    snap,       \* each snapshot under way
    taken,      \* the versions written of each file, under the name it has now
    raced,      \* the files a snapshot of which was not alone
    count       \* the snapshots and changes so far

fileVars == <<file, histDirs, hist, snap, taken, raced, count>>

Histories == UNION {[S -> Texts] : S \in SUBSET Versions}
Quiet == [pc |-> "idle", of |-> None, content |-> None, version |-> 0]

FileHistoryTypeOK ==
    /\ file \in [Paths -> Texts \cup {None}]
    /\ histDirs \subseteq Paths
    /\ hist \in [Paths -> Histories]
    /\ \A p \in Paths \ histDirs : hist[p] = <<>>
    /\ snap \in [Snappers -> [pc : {"idle", "read", "numbered", "written"}, of : Paths \cup {None},
                              content : Texts \cup {None}, version : {0} \cup Versions]]
    /\ taken \in [Paths -> Seq([version : Versions, content : Texts])]
    /\ raced \subseteq Paths
    /\ count \in [taken : 0..MaxTaken, writes : 0..MaxWrites]

FileHistoryInit ==
    /\ file \in [Paths -> Texts \cup {None}]
    /\ histDirs = {} /\ hist = [p \in Paths |-> <<>>]
    /\ snap = [s \in Snappers |-> Quiet]
    /\ taken = [p \in Paths |-> <<>>] /\ raced = {}
    /\ count = [taken |-> 0, writes |-> 0]

InUse(p) == \E s \in Snappers : snap[s].of = p
-----------------------------------------------------------------------------
\* Snapshots. A file that is not there has none, and nobody is told.
Read(s, p) ==
    /\ file[p] # None
    /\ snap' = [snap EXCEPT ![s] = [pc |-> "read", of |-> p, content |-> file[p], version |-> 0]]

SnapshotFile(s, p) ==
    /\ snap[s] = Quiet
    /\ count.taken < MaxTaken /\ count' = [count EXCEPT !.taken = @ + 1]
    /\ Read(s, p)
    /\ raced' = IF InUse(p) THEN raced \cup {p} ELSE raced
    /\ UNCHANGED <<file, histDirs, hist, taken>>

\* A bug: the number after as many as there are, which one that is kept has
\* once others have been removed.
NextVersionByCount(p) == Cardinality(DOMAIN hist[p]) + 1

\* The number after the greatest one there is.
NextVersion(p) == Max({0} \cup DOMAIN hist[p]) + 1

Number(s) ==
    LET p == snap[s].of IN
    /\ snap[s].pc = "read"
    /\ histDirs' = histDirs \cup {p}
    /\ snap' = [snap EXCEPT ![s].pc = "numbered", ![s].version = NextVersion(p)]
    /\ UNCHANGED <<file, hist, taken, raced, count>>

\* The directory may have been moved away in the meantime: the version is lost.
WriteVersion(s) ==
    LET now == snap[s]
        p == now.of
    IN
    /\ now.pc = "numbered"
    /\ snap' = [snap EXCEPT ![s].pc = "written"]
    /\ IF p \in histDirs
       THEN /\ hist' = [hist EXCEPT ![p] = [v \in {now.version} \cup DOMAIN @ |->
                                          IF v = now.version THEN now.content ELSE @[v]]]
            /\ taken' = [taken EXCEPT ![p] =
                           Append(@, [version |-> now.version, content |-> now.content])]
       ELSE UNCHANGED <<hist, taken>>
    /\ UNCHANGED <<file, histDirs, raced, count>>

\* The order of the names, digit by digit: a number with one digit more comes
\* right after the one it begins with.
Limit == Radix ^ Width - 1
Fits(n) == n <= Limit
NameBefore(m, n) ==
    CASE Fits(m) /\ ~Fits(n) -> m <= n \div Radix
      [] ~Fits(m) /\ Fits(n) -> ~(n <= m \div Radix)
      [] OTHER               -> m < n

\* A bug: the newest by name.
OldestNot(versions) ==
    {v \in versions : Cardinality({n \in versions : NameBefore(n, v)}) >= MaxVersions}

\* Those with MaxVersions or more after them in the order of the names.
Oldest(versions) ==
    {v \in versions : Cardinality({n \in versions : NameBefore(v, n)}) >= MaxVersions}

Evict(s) ==
    LET p == snap[s].of IN
    /\ snap[s].pc = "written"
    /\ hist' = [hist EXCEPT ![p] = Restrict(@, DOMAIN @ \ Oldest(DOMAIN @))]
    /\ snap' = [snap EXCEPT ![s] = Quiet]
    /\ UNCHANGED <<file, histDirs, taken, raced, count>>
-----------------------------------------------------------------------------
\* What users do with the files. The history of a file that is deleted stays;
\* that of a file that is written over is taken for that of the new one.
Writes == count.writes < MaxWrites /\ count' = [count EXCEPT !.writes = @ + 1]
AtomicWrite(p, c) ==
    /\ file' = [file EXCEPT ![p] = c]
    /\ UNCHANGED <<histDirs, hist, snap, taken, raced>>

\* Only a save is refused for what ValidateFile says of the text.
ValidateFile(c) == c \in Sound

WriteFile(p, c) == Writes /\ ValidateFile(c) /\ AtomicWrite(p, c)
CreateFile(p, c) == Writes /\ AtomicWrite(p, c)
UploadFile(p, c) == Writes /\ AtomicWrite(p, c)
DeleteFile(p) == Writes /\ file[p] # None /\ AtomicWrite(p, None)

\* The version may have been removed since the user has seen it; what the file
\* holds now is not kept.
FileHistory(p) == DOMAIN hist[p]
RollbackFile(p, v) == Writes /\ v \in FileHistory(p) /\ AtomicWrite(p, hist[p][v])

\* A bug: the history of a file that was there is kept.
MoveHistoryUnlessThere(p, q) ==
    IF p \in histDirs /\ q \notin histDirs
    THEN /\ histDirs' = (histDirs \ {p}) \cup {q}
         /\ hist' = [hist EXCEPT ![q] = hist[p], ![p] = <<>>]
         /\ taken' = [taken EXCEPT ![q] = taken[p], ![p] = <<>>]
    ELSE /\ UNCHANGED <<histDirs, hist>>
         /\ taken' = IF p \in histDirs THEN [taken EXCEPT ![q] = taken[p], ![p] = <<>>] ELSE taken

\* The history goes with the file, over that of the file that was there.
MoveHistory(p, q) ==
    IF p \in histDirs
    THEN /\ histDirs' = (histDirs \ {p}) \cup {q}
         /\ hist' = [hist EXCEPT ![q] = hist[p], ![p] = <<>>]
         /\ taken' = [taken EXCEPT ![q] = taken[p], ![p] = <<>>]
    ELSE UNCHANGED <<histDirs, hist, taken>>

MoveFile(p, q) ==
    /\ Writes /\ p # q /\ file[p] # None
    /\ file' = [file EXCEPT ![q] = file[p], ![p] = None]
    /\ MoveHistory(p, q)
    /\ raced' = IF InUse(p) \/ InUse(q) THEN raced \cup {p, q}
                ELSE IF p \in raced THEN raced \cup {q} ELSE raced
    /\ UNCHANGED snap

FileHistoryNext ==
    \/ \E s \in Snappers :
         \/ \E p \in Paths : SnapshotFile(s, p)
         \/ Number(s) \/ WriteVersion(s) \/ Evict(s)
    \/ \E p \in Paths :
         \/ \E c \in Texts : WriteFile(p, c) \/ CreateFile(p, c) \/ UploadFile(p, c)
         \/ DeleteFile(p)
         \/ \E v \in Versions : RollbackFile(p, v)
         \/ \E q \in Paths : MoveFile(p, q)
-----------------------------------------------------------------------------
(***************************************************************************)
(* The history of a file, moved with it or not, is exactly the newest      *)
(* MaxVersions of the snapshots taken of it, each under the number it was  *)
(* taken under and with what the file held, once no snapshot is under way. *)
(* Nothing is claimed of a file two snapshots of which, or one and a move, *)
(* were served at the same time, nor once the numbers outgrow their width. *)
(***************************************************************************)
Newest(p) ==
    LET all == taken[p]
        from == Max({0, Len(all) - MaxVersions})
    IN  {all[k] : k \in (from + 1)..Len(all)}

HistoryKeepsNewest ==
    \A p \in Paths \ raced :
        ~InUse(p) /\ (\A k \in 1..Len(taken[p]) : Fits(taken[p][k].version)) =>
            {[version |-> v, content |-> hist[p][v]] : v \in DOMAIN hist[p]} = Newest(p)
=============================================================================
