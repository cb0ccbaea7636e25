------------------------------ MODULE FilesProofs ------------------------------
(***************************************************************************)
(* What TLAPS proves of the files supd keeps: for any number of requests   *)
(* at the same time, any limits, and however often calls fail and supd is  *)
(* killed. The three parts have invariants of their own, which the steps   *)
(* of the other parts leave alone.                                         *)
(***************************************************************************)
EXTENDS Files, TLAPS, WellFoundedInduction, FiniteSetTheorems, SequenceTheorems

-----------------------------------------------------------------------------
(* Numbers and finite sets. *)

\* A set of natural numbers that is not empty has a least element.
LEMMA LeastNumber ==
    ASSUME NEW T \in SUBSET Nat, T # {}
    PROVE  \E x \in T : \A y \in T : x <= y
<1> DEFINE Below == {0..m : m \in T}
<1>1. \A m \in Nat : IsFiniteSet(0..m) /\ 0..m \subseteq Nat
  BY FS_Interval
<1>2. Below \subseteq FiniteSubsetsOf(Nat) /\ Below # {}
  BY <1>1 DEF FiniteSubsetsOf
<1>3. \E X \in Below : \A Y \in Below : ~ (<<Y, X>> \in StrictSubsetOrdering(Nat))
  <2> HIDE DEF Below
  <2> QED
    BY <1>2, FS_StrictSubsetOrderingWellFounded, WFMin
<1>4. PICK x \in T : \A Y \in Below : ~ (<<Y, 0..x>> \in StrictSubsetOrdering(Nat))
  BY <1>3
<1>5. \A y \in T : y < x => <<0..y, 0..x>> \in StrictSubsetOrdering(Nat)
  BY <1>1 DEF StrictSubsetOrdering
<1>6. \A y \in T : ~(y < x)
  BY <1>4, <1>5
<1> QED
  BY <1>6

\* One that has a bound has a greatest, which is what Max returns.
LEMMA MaxIsGreatest ==
    ASSUME NEW S \in SUBSET Nat, S # {}, NEW n \in Nat, \A x \in S : x <= n
    PROVE  Max(S) \in S /\ \A x \in S : x <= Max(S)
<1> DEFINE T == {n - x : x \in S}
<1>1. T \in SUBSET Nat /\ T # {}
  <2>1. \A x \in S : n - x \in Nat
    OBVIOUS
  <2> QED
    BY <2>1
<1>2. PICK t \in T : \A u \in T : t <= u
  <2> HIDE DEF T
  <2> QED
    BY <1>1, LeastNumber
<1>3. PICK m \in S : t = n - m
  BY <1>2
<1>4. \A x \in S : n - m <= n - x
  BY <1>2, <1>3
<1>5. \A x \in S : m >= x
  BY <1>4
<1> QED
  BY <1>5 DEF Max

-----------------------------------------------------------------------------
(* The file history: its types. *)

Reading == {s \in Snappers : snap[s].pc = "read"}

\* Every snapshot that has been counted adds one to the greatest number at the most, those
\* that have yet to take theirs none so far: this is what bounds the numbers, through moves
\* and through snapshots that take the same one.
NumbersAreCounted ==
    /\ IsFiniteSet(Reading) /\ Cardinality(Reading) <= count.taken
    /\ \A p \in Paths : \A v \in DOMAIN hist[p] : v + Cardinality(Reading) <= count.taken
    /\ \A s \in Snappers : snap[s].pc \in {"numbered", "written"} =>
          /\ snap[s].version + Cardinality(Reading) <= count.taken
          /\ snap[s].version \in Versions

SnapsAreGiven ==
    \A s \in Snappers :
        IF snap[s].pc = "idle" THEN snap[s] = Quiet
        ELSE snap[s].of \in Paths /\ snap[s].content \in Texts

FileTypeInv == FileHistoryTypeOK /\ NumbersAreCounted /\ SnapsAreGiven

LEMMA FileTypeBegins == FileHistoryInit => FileTypeInv
<1> SUFFICES ASSUME FileHistoryInit PROVE FileTypeInv
  OBVIOUS
<1> USE FileHistoryAssumption DEF FileHistoryInit
<1>1. Reading = {}
  BY DEF Reading, Quiet
<1>2. /\ \A p \in Paths : hist[p] = <<>> /\ DOMAIN hist[p] = {}
      /\ \A s \in Snappers : snap[s] = Quiet
  OBVIOUS
<1>3. \A p \in Paths : hist[p] \in [{} -> Texts]
  BY <1>2
<1>4. hist \in [Paths -> Histories]
  <2>1. {} \in SUBSET Versions
    OBVIOUS
  <2>2. [{} -> Texts] \subseteq Histories
    BY <2>1 DEF Histories
  <2> QED
    BY <1>3, <2>2
<1>5. NumbersAreCounted
  BY <1>1, <1>2, FS_EmptySet DEF NumbersAreCounted, Quiet
<1>6. SnapsAreGiven
  BY <1>2 DEF SnapsAreGiven, Quiet
<1>7. snap \in [Snappers -> [pc : {"idle", "read", "numbered", "written"}, of : Paths \cup {None},
                             content : Texts \cup {None}, version : {0} \cup Versions]]
  BY DEF Quiet
<1>8. taken \in [Paths -> Seq([version : Versions, content : Texts])]
  OBVIOUS
<1> QED
  BY <1>2, <1>4, <1>5, <1>6, <1>7, <1>8 DEF FileTypeInv, FileHistoryTypeOK

LEMMA HistoriesAre ==
    ASSUME NEW h
    PROVE  h \in Histories <=> h \in [DOMAIN h -> Texts] /\ DOMAIN h \subseteq Versions
BY DEF Histories

\* The next number is greater than all there are, and the one before it is there.
LEMMA NextVersionIsNext ==
    ASSUME FileTypeInv, NEW p \in Paths
    PROVE  /\ NextVersion(p) \in Nat \ {0}
           /\ \A v \in DOMAIN hist[p] : v < NextVersion(p)
           /\ NextVersion(p) - 1 \in {0} \cup DOMAIN hist[p]
<1> DEFINE S == {0} \cup DOMAIN hist[p]
<1>1. DOMAIN hist[p] \subseteq Versions
  BY HistoriesAre DEF FileTypeInv, FileHistoryTypeOK
<1>2. MaxTaken + 1 \in Nat
  BY FileHistoryAssumption
<1>3. S \in SUBSET Nat /\ S # {} /\ \A x \in S : x <= MaxTaken + 1
  BY <1>1, <1>2 DEF Versions
<1> HIDE DEF S
<1>4. Max(S) \in S /\ \A x \in S : x <= Max(S)
  BY <1>2, <1>3, MaxIsGreatest
<1> QED
  BY <1>3, <1>4 DEF NextVersion, S

\* What a step leaves as it is, and what may happen to files alone.
LEMMA FileTypeUntouched ==
    ASSUME FileTypeInv, UNCHANGED <<histDirs, hist, snap, taken>>, raced' \subseteq Paths,
           file' \in [Paths -> Texts \cup {None}],
           count' \in [taken : 0..MaxTaken, writes : 0..MaxWrites], count'.taken = count.taken
    PROVE  FileTypeInv'
<1>1. Reading' = Reading
  BY DEF Reading
<1>2. NumbersAreCounted' /\ SnapsAreGiven'
  BY <1>1 DEF FileTypeInv, NumbersAreCounted, SnapsAreGiven
<1>3. FileHistoryTypeOK'
  BY DEF FileTypeInv, FileHistoryTypeOK
<1> QED
  BY <1>2, <1>3 DEF FileTypeInv

LEMMA SnapshotFileType ==
    ASSUME FileTypeInv, NEW s \in Snappers, NEW p \in Paths, SnapshotFile(s, p)
    PROVE  FileTypeInv'
<1> USE DEF FileTypeInv, FileHistoryTypeOK
<1>1. /\ snap[s] = Quiet
      /\ snap' = [snap EXCEPT ![s] = [pc |-> "read", of |-> p, content |-> file[p], version |-> 0]]
      /\ file[p] \in Texts
      /\ UNCHANGED <<file, histDirs, hist, taken>>
  BY DEF SnapshotFile, Read
<1>2. /\ count.taken \in 0..(MaxTaken - 1)
      /\ count' = [count EXCEPT !.taken = @ + 1]
  BY FileHistoryAssumption DEF SnapshotFile
<1>3. /\ count' \in [taken : 0..MaxTaken, writes : 0..MaxWrites]
      /\ count'.taken = count.taken + 1
  BY <1>2, FileHistoryAssumption
<1>4. Reading' = Reading \cup {s} /\ s \notin Reading
  BY <1>1 DEF Reading, Quiet
<1>5. /\ IsFiniteSet(Reading') /\ Cardinality(Reading') = Cardinality(Reading) + 1
      /\ Cardinality(Reading) \in Nat
  BY <1>4, FS_AddElement, FS_CardinalityType DEF NumbersAreCounted
<1>6. \A o \in Snappers \ {s} : snap'[o] = snap[o]
  BY <1>1
<1>7. snap'[s] = [pc |-> "read", of |-> p, content |-> file[p], version |-> 0]
  BY <1>1
<1>8. NumbersAreCounted'
  <2>1. Cardinality(Reading') <= count'.taken
    BY <1>2, <1>3, <1>5 DEF NumbersAreCounted
  <2>2. \A q \in Paths : \A v \in DOMAIN hist'[q] : v + Cardinality(Reading') <= count'.taken
    <3> SUFFICES ASSUME NEW q \in Paths, NEW v \in DOMAIN hist[q]
                 PROVE  v + Cardinality(Reading') <= count'.taken
      BY <1>1
    <3>1. v \in Nat
      BY HistoriesAre DEF Versions
    <3> QED
      BY <3>1, <1>2, <1>3, <1>5 DEF NumbersAreCounted
  <2>3. ASSUME NEW o \in Snappers, snap'[o].pc \in {"numbered", "written"}
        PROVE  /\ snap'[o].version + Cardinality(Reading') <= count'.taken
               /\ snap'[o].version \in Versions
    <3>1. o # s /\ snap'[o] = snap[o]
      BY <1>6, <1>7, <2>3
    <3>2. snap[o].version \in Versions /\ snap[o].version + Cardinality(Reading) <= count.taken
      BY <2>3, <3>1 DEF NumbersAreCounted
    <3> QED
      BY <3>1, <3>2, <1>2, <1>3, <1>5 DEF Versions
  <2> QED
    BY <1>5, <2>1, <2>2, <2>3 DEF NumbersAreCounted
<1>9. SnapsAreGiven'
  BY <1>1, <1>6, <1>7 DEF SnapsAreGiven
<1>10. FileHistoryTypeOK'
  <2>1. raced' \subseteq Paths
    BY DEF SnapshotFile
  <2> QED
    BY <1>1, <1>3, <2>1
<1> QED
  BY <1>8, <1>9, <1>10

LEMMA NumberType ==
    ASSUME FileTypeInv, NEW s \in Snappers, Number(s)
    PROVE  FileTypeInv'
<1> USE DEF FileTypeInv, FileHistoryTypeOK
<1> DEFINE p == snap[s].of
<1> DEFINE v == NextVersion(p)
<1>1. /\ snap[s].pc = "read" /\ p \in Paths /\ snap[s].content \in Texts
      /\ histDirs' = histDirs \cup {p}
      /\ snap' = [snap EXCEPT ![s].pc = "numbered", ![s].version = v]
      /\ UNCHANGED <<file, hist, taken, raced, count>>
  BY DEF Number, SnapsAreGiven
<1>2. v \in Nat \ {0} /\ v - 1 \in {0} \cup DOMAIN hist[p]
  BY <1>1, NextVersionIsNext
<1> HIDE DEF v
<1>3. /\ snap'[s].pc = "numbered" /\ snap'[s].version = v
      /\ snap'[s].of = p /\ snap'[s].content = snap[s].content
      /\ \A o \in Snappers \ {s} : snap'[o] = snap[o]
  BY <1>1
<1>4. Reading' = Reading \ {s} /\ s \in Reading
  BY <1>1, <1>3 DEF Reading
<1>5. /\ IsFiniteSet(Reading') /\ Cardinality(Reading') = Cardinality(Reading) - 1
      /\ Cardinality(Reading) \in Nat /\ Cardinality(Reading') \in Nat
  BY <1>4, FS_RemoveElement, FS_CardinalityType DEF NumbersAreCounted
<1>6. v + Cardinality(Reading') <= count.taken /\ v \in Versions
  <2>1. count.taken \in 0..MaxTaken /\ MaxTaken \in Nat
    BY FileHistoryAssumption
  <2>2. v - 1 + Cardinality(Reading) <= count.taken
    BY <1>1, <1>2, <1>5, <2>1 DEF NumbersAreCounted
  <2> QED
    BY <1>2, <1>5, <2>1, <2>2 DEF Versions
<1>7. NumbersAreCounted'
  <2>0. count.taken \in Int
    OBVIOUS
  <2>1. \A q \in Paths : \A n \in DOMAIN hist'[q] : n + Cardinality(Reading') <= count'.taken
    <3> SUFFICES ASSUME NEW q \in Paths, NEW n \in DOMAIN hist[q]
                 PROVE  n + Cardinality(Reading') <= count.taken
      BY <1>1
    <3>1. n \in Nat
      BY HistoriesAre DEF Versions
    <3> QED
      BY <3>1, <2>0, <1>5 DEF NumbersAreCounted
  <2>2. ASSUME NEW o \in Snappers, snap'[o].pc \in {"numbered", "written"}
        PROVE  /\ snap'[o].version + Cardinality(Reading') <= count'.taken
               /\ snap'[o].version \in Versions
    <3>1. CASE o = s
      BY <3>1, <1>1, <1>3, <1>6
    <3>2. CASE o # s
      <4>1. snap[o].version \in Versions /\ snap[o].version + Cardinality(Reading) <= count.taken
        BY <2>2, <3>2, <1>3 DEF NumbersAreCounted
      <4> QED
        BY <4>1, <3>2, <2>0, <1>1, <1>3, <1>5 DEF Versions
    <3> QED
      BY <3>1, <3>2
  <2>3. Cardinality(Reading') <= count'.taken
    BY <2>0, <1>1, <1>5 DEF NumbersAreCounted
  <2> QED
    BY <1>5, <2>1, <2>2, <2>3 DEF NumbersAreCounted
<1>8. SnapsAreGiven'
  BY <1>1, <1>3 DEF SnapsAreGiven
<1>9. FileHistoryTypeOK'
  <2>1. histDirs' \subseteq Paths /\ \A q \in Paths \ histDirs' : hist'[q] = <<>>
    BY <1>1
  <2>2. snap' \in [Snappers -> [pc : {"idle", "read", "numbered", "written"},
                               of : Paths \cup {None}, content : Texts \cup {None},
                               version : {0} \cup Versions]]
    <3> DEFINE x == [snap[s] EXCEPT !.pc = "numbered", !.version = v]
    <3>1. x \in [pc : {"idle", "read", "numbered", "written"}, of : Paths \cup {None},
                 content : Texts \cup {None}, version : {0} \cup Versions]
      BY <1>6
    <3>2. snap' = [snap EXCEPT ![s] = x]
      BY <1>1
    <3> HIDE DEF x
    <3> QED
      BY <3>1, <3>2
  <2> QED
    BY <1>1, <2>1, <2>2
<1> QED
  BY <1>7, <1>8, <1>9

LEMMA WriteVersionType ==
    ASSUME FileTypeInv, NEW s \in Snappers, WriteVersion(s)
    PROVE  FileTypeInv'
<1> USE DEF FileTypeInv, FileHistoryTypeOK
<1> DEFINE now == snap[s]
<1> DEFINE p == now.of
<1>1. /\ now.pc = "numbered" /\ p \in Paths /\ now.content \in Texts /\ now.version \in Versions
      /\ now.version + Cardinality(Reading) <= count.taken
      /\ snap' = [snap EXCEPT ![s].pc = "written"]
      /\ UNCHANGED <<file, histDirs, raced, count>>
  BY DEF WriteVersion, SnapsAreGiven, NumbersAreCounted
<1>2. /\ snap'[s].pc = "written" /\ snap'[s].version = now.version
      /\ snap'[s].of = p /\ snap'[s].content = now.content
      /\ \A o \in Snappers \ {s} : snap'[o] = snap[o]
  BY <1>1
<1>3. Reading' = Reading
  BY <1>1, <1>2 DEF Reading
<1>4. /\ snap' \in [Snappers -> [pc : {"idle", "read", "numbered", "written"},
                                 of : Paths \cup {None}, content : Texts \cup {None},
                                 version : {0} \cup Versions]]
      /\ SnapsAreGiven'
  BY <1>1, <1>2 DEF SnapsAreGiven
<1>5. /\ hist' \in [Paths -> Histories]
      /\ \A q \in Paths \ histDirs : hist'[q] = <<>>
      /\ \A q \in Paths : DOMAIN hist'[q] \subseteq DOMAIN hist[q] \cup
                            (IF q = p THEN {now.version} ELSE {})
      /\ taken' \in [Paths -> Seq([version : Versions, content : Texts])]
  <2>1. CASE p \in histDirs
    <3> DEFINE h == [v \in {now.version} \cup DOMAIN hist[p] |->
                       IF v = now.version THEN now.content ELSE hist[p][v]]
    <3>1. hist' = [hist EXCEPT ![p] = h]
      BY <1>1, <2>1 DEF WriteVersion
    <3>2. hist[p] \in [DOMAIN hist[p] -> Texts] /\ DOMAIN hist[p] \subseteq Versions
      BY <1>1, HistoriesAre
    <3>3. h \in [{now.version} \cup DOMAIN hist[p] -> Texts]
      BY <1>1, <3>2
    <3>4. h \in Histories /\ DOMAIN h \subseteq DOMAIN hist[p] \cup {now.version}
      BY <1>1, <3>2, <3>3, HistoriesAre
    <3>5. taken' \in [Paths -> Seq([version : Versions, content : Texts])]
      <4>1. [version |-> now.version, content |-> now.content] \in [version : Versions, content : Texts]
        BY <1>1
      <4>2. taken' = [taken EXCEPT ![p] =
                        Append(@, [version |-> now.version, content |-> now.content])]
        BY <1>1, <2>1 DEF WriteVersion
      <4>3. Append(taken[p], [version |-> now.version, content |-> now.content])
              \in Seq([version : Versions, content : Texts])
        <5>1. taken[p] \in Seq([version : Versions, content : Texts])
          BY <1>1
        <5> QED
          BY <5>1, <4>1, AppendProperties
      <4> QED
        BY <4>2, <4>3
    <3> HIDE DEF h
    <3> QED
      BY <1>1, <2>1, <3>1, <3>4, <3>5
  <2>2. CASE p \notin histDirs
    BY <1>1, <2>2 DEF WriteVersion
  <2> QED
    BY <2>1, <2>2
<1>6. NumbersAreCounted'
  <2>1. \A q \in Paths : \A v \in DOMAIN hist'[q] : v + Cardinality(Reading) <= count.taken
    BY <1>1, <1>5 DEF NumbersAreCounted
  <2>2. \A o \in Snappers : snap'[o].pc \in {"numbered", "written"} =>
          /\ snap'[o].version + Cardinality(Reading) <= count.taken
          /\ snap'[o].version \in Versions
    BY <1>1, <1>2 DEF NumbersAreCounted
  <2> QED
    BY <1>1, <1>3, <2>1, <2>2 DEF NumbersAreCounted
<1> QED
  BY <1>1, <1>4, <1>5, <1>6

LEMMA EvictType ==
    ASSUME FileTypeInv, NEW s \in Snappers, Evict(s)
    PROVE  FileTypeInv'
<1> USE DEF FileTypeInv, FileHistoryTypeOK
<1> DEFINE p == snap[s].of
<1> DEFINE h == Restrict(hist[p], DOMAIN hist[p] \ Oldest(DOMAIN hist[p]))
<1>1. /\ snap[s].pc = "written" /\ p \in Paths
      /\ hist' = [hist EXCEPT ![p] = h]
      /\ snap' = [snap EXCEPT ![s] = Quiet]
      /\ UNCHANGED <<file, histDirs, taken, raced, count>>
  BY DEF Evict, SnapsAreGiven
<1>2. snap'[s] = Quiet /\ \A o \in Snappers \ {s} : snap'[o] = snap[o]
  BY <1>1
<1>3. Reading' = Reading
  BY <1>1, <1>2 DEF Reading, Quiet
<1>4. hist[p] \in [DOMAIN hist[p] -> Texts] /\ DOMAIN hist[p] \subseteq Versions
  BY <1>1, HistoriesAre
<1>5. h \in Histories /\ DOMAIN h \subseteq DOMAIN hist[p]
  <2>1. DOMAIN h \subseteq DOMAIN hist[p] /\ h \in [DOMAIN h -> Texts]
    BY <1>4 DEF Restrict
  <2> HIDE DEF h
  <2> QED
    BY <1>4, <2>1, HistoriesAre
<1>6. \A q \in Paths \ histDirs : hist'[q] = <<>>
  <2>1. CASE p \in histDirs
    BY <1>1, <2>1
  <2>2. CASE p \notin histDirs
    <3>1. hist[p] = <<>>
      BY <1>1, <2>2
    <3>2. h = <<>>
      BY <3>1 DEF Restrict
    <3> QED
      BY <1>1, <3>2
  <2> QED
    BY <2>1, <2>2
<1> HIDE DEF h
<1>7. snap' \in [Snappers -> [pc : {"idle", "read", "numbered", "written"},
                              of : Paths \cup {None}, content : Texts \cup {None},
                              version : {0} \cup Versions]]
  BY <1>1 DEF Quiet
<1>8. SnapsAreGiven'
  BY <1>2 DEF SnapsAreGiven, Quiet
<1>9. NumbersAreCounted'
  <2>1. \A q \in Paths : DOMAIN hist'[q] \subseteq DOMAIN hist[q]
    BY <1>1, <1>5
  <2> QED
    BY <1>1, <1>2, <1>3, <2>1 DEF NumbersAreCounted, Quiet
<1> QED
  BY <1>1, <1>5, <1>6, <1>7, <1>8, <1>9

LEMMA MoveFileType ==
    ASSUME FileTypeInv, NEW p \in Paths, NEW q \in Paths, MoveFile(p, q)
    PROVE  FileTypeInv'
<1> USE DEF FileTypeInv, FileHistoryTypeOK
<1>1. /\ p # q /\ UNCHANGED snap
      /\ file' \in [Paths -> Texts \cup {None}]
      /\ count' \in [taken : 0..MaxTaken, writes : 0..MaxWrites] /\ count'.taken = count.taken
      /\ raced' \subseteq Paths
  <2>1. p # q /\ UNCHANGED snap /\ file' \in [Paths -> Texts \cup {None}]
    BY DEF MoveFile
  <2>2. count' \in [taken : 0..MaxTaken, writes : 0..MaxWrites] /\ count'.taken = count.taken
    BY FileHistoryAssumption DEF MoveFile, Writes
  <2>3. raced' \subseteq Paths
    BY DEF MoveFile
  <2> QED
    BY <2>1, <2>2, <2>3
<1>2. /\ histDirs' \subseteq Paths /\ hist' \in [Paths -> Histories]
      /\ \A o \in Paths \ histDirs' : hist'[o] = <<>>
      /\ \A o \in Paths : \E u \in Paths : DOMAIN hist'[o] \subseteq DOMAIN hist[u]
      /\ taken' \in [Paths -> Seq([version : Versions, content : Texts])]
  <2>1. CASE p \in histDirs
    <3>1. /\ histDirs' = (histDirs \ {p}) \cup {q}
          /\ hist' = [hist EXCEPT ![q] = hist[p], ![p] = <<>>]
          /\ taken' = [taken EXCEPT ![q] = taken[p], ![p] = <<>>]
      BY <2>1 DEF MoveFile, MoveHistory
    <3>2. /\ hist'[p] = <<>> /\ hist'[q] = hist[p]
          /\ \A o \in Paths \ {p, q} : hist'[o] = hist[o]
      BY <1>1, <3>1
    <3>3. <<>> \in Histories /\ DOMAIN <<>> = {}
      <4>1. <<>> \in [{} -> Texts] /\ DOMAIN <<>> = {}
        OBVIOUS
      <4> QED
        BY <4>1, HistoriesAre
    <3>4. hist' \in [Paths -> Histories]
      BY <3>1, <3>2, <3>3
    <3>5. taken' \in [Paths -> Seq([version : Versions, content : Texts])]
      <4> DEFINE S == Seq([version : Versions, content : Texts])
      <4>1. <<>> \in S
        OBVIOUS
      <4>2. taken \in [Paths -> S]
        OBVIOUS
      <4> HIDE DEF S
      <4>3. taken' \in [Paths -> S]
        BY <3>1, <4>1, <4>2
      <4> QED
        BY <4>3 DEF S
    <3>6. \A o \in Paths : \E u \in Paths : DOMAIN hist'[o] \subseteq DOMAIN hist[u]
      BY <3>2, <3>3
    <3> QED
      BY <3>1, <3>2, <3>4, <3>5, <3>6
  <2>2. CASE p \notin histDirs
    BY <2>2 DEF MoveFile, MoveHistory
  <2> QED
    BY <2>1, <2>2
<1>3. Reading' = Reading
  BY <1>1 DEF Reading
<1>4. NumbersAreCounted' /\ SnapsAreGiven'
  BY <1>1, <1>2, <1>3 DEF NumbersAreCounted, SnapsAreGiven
<1> QED
  BY <1>1, <1>2, <1>4

LEMMA AtomicWriteType ==
    ASSUME FileTypeInv, NEW p \in Paths, NEW c \in Texts \cup {None}, Writes, AtomicWrite(p, c)
    PROVE  FileTypeInv'
<1>1. /\ count' \in [taken : 0..MaxTaken, writes : 0..MaxWrites]
      /\ count'.taken = count.taken
  <2>1. /\ count' = [count EXCEPT !.writes = @ + 1] /\ count.writes < MaxWrites
        /\ count \in [taken : 0..MaxTaken, writes : 0..MaxWrites]
    BY DEF Writes, FileTypeInv, FileHistoryTypeOK
  <2>2. count.writes + 1 \in 0..MaxWrites
    BY <2>1, FileHistoryAssumption
  <2> QED
    BY <2>1, <2>2
<1>2. UNCHANGED <<histDirs, hist, snap, taken, raced>> /\ file' \in [Paths -> Texts \cup {None}]
  BY DEF AtomicWrite, FileTypeInv, FileHistoryTypeOK
<1>3. raced' \subseteq Paths
  BY <1>2 DEF FileTypeInv, FileHistoryTypeOK
<1> QED
  BY <1>1, <1>2, <1>3, FileTypeUntouched

\* The steps of the file history by what they do.
LEMMA FileHistoryCases ==
    ASSUME FileTypeInv, FileHistoryNext
    PROVE  \/ \E s \in Snappers : \/ \E p \in Paths : SnapshotFile(s, p)
                                  \/ Number(s) \/ WriteVersion(s) \/ Evict(s)
           \/ \E p \in Paths, c \in Texts \cup {None} : Writes /\ AtomicWrite(p, c)
           \/ \E p \in Paths, q \in Paths : MoveFile(p, q)
<1>1. ASSUME NEW p \in Paths, NEW v \in Versions, RollbackFile(p, v)
      PROVE  Writes /\ hist[p][v] \in Texts /\ AtomicWrite(p, hist[p][v])
  BY <1>1, HistoriesAre DEF RollbackFile, FileHistory, FileTypeInv, FileHistoryTypeOK
<1> QED
  BY <1>1 DEF FileHistoryNext, WriteFile, CreateFile, UploadFile, DeleteFile

LEMMA FileTypeNext ==
    ASSUME FileTypeInv, FileHistoryNext
    PROVE  FileTypeInv'
BY FileHistoryCases, SnapshotFileType, NumberType, WriteVersionType, EvictType, MoveFileType,
   AtomicWriteType
-----------------------------------------------------------------------------
(* The file history: what is kept. *)

AllFit(p) == \A k \in DOMAIN taken[p] : Fits(taken[p][k].version)
Grows(p) == \A j, k \in DOMAIN taken[p] : j < k => taken[p][j].version < taken[p][k].version

\* The last n of the versions taken.
Recent(p, n) == {k \in DOMAIN taken[p] : Len(taken[p]) - n < k}
Holds(p, n) ==
    /\ DOMAIN hist[p] = {taken[p][k].version : k \in Recent(p, n)}
    /\ \A k \in Recent(p, n) : hist[p][taken[p][k].version] = taken[p][k].content

\* Between a version being written and the oldest being removed there is one too many.
IsWritten(p) == \E s \in Snappers : snap[s].of = p /\ snap[s].pc = "written"
Room(p) == IF IsWritten(p) THEN MaxVersions + 1 ELSE MaxVersions

Alone(p) == \A s, t \in Snappers : snap[s].of = p /\ snap[t].of = p => s = t
NumberIsNew(p) ==
    \A s \in Snappers : snap[s].of = p /\ snap[s].pc = "numbered" =>
        \A k \in DOMAIN taken[p] : taken[p][k].version < snap[s].version
HasItsDir(p) == \A s \in Snappers : snap[s].of = p /\ snap[s].pc # "read" => p \in histDirs

\* What is so of a file whose snapshots were alone: once the numbers outgrow their width only
\* that its directory is there.
IsInOrder(p) ==
    /\ Alone(p) /\ HasItsDir(p)
    /\ AllFit(p) => Grows(p) /\ NumberIsNew(p) /\ Holds(p, Room(p))

HistoryInv ==
    /\ FileTypeInv
    /\ \A p \in Paths \ histDirs : taken[p] = <<>>
    /\ \A p \in Paths \ raced : IsInOrder(p)
LEMMA HistoryBegins == FileHistoryInit => HistoryInv
<1> SUFFICES ASSUME FileHistoryInit PROVE HistoryInv
  OBVIOUS
<1>1. /\ \A p \in Paths : taken[p] = <<>> /\ hist[p] = <<>>
      /\ \A s \in Snappers : snap[s].of \notin Paths
  BY FileHistoryAssumption DEF FileHistoryInit, Quiet
<1>2. ASSUME NEW p \in Paths PROVE IsInOrder(p)
  BY <1>1, <1>2 DEF IsInOrder, Alone, HasItsDir, Grows, NumberIsNew, Holds, Recent
<1> QED
  BY <1>1, <1>2, FileTypeBegins DEF HistoryInv

\* What is in order stays so where nothing happens.
LEMMA InOrderOfOther ==
    ASSUME NEW p, IsInOrder(p), taken'[p] = taken[p], hist'[p] = hist[p],
           p \in histDirs => p \in histDirs',
           \A s \in Snappers : snap[s].of = p \/ snap'[s].of = p => snap'[s] = snap[s]
    PROVE  IsInOrder(p)'
<1>1. IsWritten(p)' <=> IsWritten(p)
  BY DEF IsWritten
<1>2. Room(p)' = Room(p) /\ (AllFit(p)' <=> AllFit(p)) /\ (Grows(p)' <=> Grows(p))
  BY <1>1 DEF Room, AllFit, Grows
<1>3. Alone(p)' /\ HasItsDir(p)' /\ (NumberIsNew(p) => NumberIsNew(p)')
  BY DEF IsInOrder, Alone, HasItsDir, NumberIsNew
<1>4. Holds(p, Room(p)) => Holds(p, Room(p))'
  BY <1>2 DEF Holds, Recent
<1> QED
  BY <1>2, <1>3, <1>4 DEF IsInOrder

\* The versions taken: numbers, in a sequence.
LEMMA TakenType ==
    ASSUME FileTypeInv, NEW p \in Paths
    PROVE  /\ taken[p] \in Seq([version : Versions, content : Texts])
           /\ Len(taken[p]) \in Nat /\ DOMAIN taken[p] = 1..Len(taken[p])
           /\ \A k \in DOMAIN taken[p] : /\ taken[p][k] \in [version : Versions, content : Texts]
                                         /\ taken[p][k].version \in Nat
<1>1. taken[p] \in Seq([version : Versions, content : Texts])
  BY DEF FileTypeInv, FileHistoryTypeOK
<1>2. \A k \in DOMAIN taken[p] : taken[p][k] \in [version : Versions, content : Texts]
  BY <1>1, ElementOfSeq, LenProperties
<1> QED
  BY <1>1, <1>2 DEF Versions

LEMMA SnapshotFileHistory ==
    ASSUME HistoryInv, NEW s \in Snappers, NEW p \in Paths, SnapshotFile(s, p)
    PROVE  HistoryInv'
<1>1. FileTypeInv /\ FileTypeInv'
  BY SnapshotFileType DEF HistoryInv
<1>2. /\ snap[s] = Quiet
      /\ snap' = [snap EXCEPT ![s] = [pc |-> "read", of |-> p, content |-> file[p], version |-> 0]]
      /\ UNCHANGED <<histDirs, hist, taken>> /\ raced \subseteq raced'
      /\ p \notin raced' => ~InUse(p)
      /\ snap \in [Snappers -> [pc : {"idle", "read", "numbered", "written"},
                                of : Paths \cup {None}, content : Texts \cup {None},
                                version : {0} \cup Versions]]
  BY <1>1 DEF SnapshotFile, Read, FileTypeInv, FileHistoryTypeOK
<1>3. /\ snap'[s].of = p /\ snap'[s].pc = "read"
      /\ \A o \in Snappers \ {s} : snap'[o] = snap[o]
      /\ snap[s].of \notin Paths
  BY <1>2, FileHistoryAssumption DEF Quiet
<1>4. ASSUME NEW q \in Paths \ raced' PROVE IsInOrder(q)'
  <2>0. IsInOrder(q)
    BY <1>2, <1>4 DEF HistoryInv
  <2>1. CASE q # p
    BY <1>2, <1>3, <2>0, <2>1, InOrderOfOther
  <2>2. CASE q = p
    <3>1. \A o \in Snappers : (snap'[o].of = p <=> o = s) /\ snap[o].of # p
      BY <1>2, <1>3, <2>2 DEF InUse
    <3>2. Alone(p)' /\ HasItsDir(p)' /\ NumberIsNew(p)' /\ ~IsWritten(p)' /\ ~IsWritten(p)
      BY <1>3, <3>1 DEF Alone, HasItsDir, NumberIsNew, IsWritten
    <3>3. AllFit(p)' => Grows(p)' /\ Holds(p, Room(p))'
      BY <1>2, <2>0, <2>2, <3>2 DEF IsInOrder, AllFit, Grows, Holds, Recent, Room
    <3> QED
      BY <2>2, <3>2, <3>3 DEF IsInOrder
  <2> QED
    BY <2>1, <2>2
<1>5. \A q \in Paths \ histDirs' : taken'[q] = <<>>
  BY <1>2 DEF HistoryInv
<1> QED
  BY <1>1, <1>4, <1>5 DEF HistoryInv

\* The snapshot that takes a number is the only one: all that were taken are older.
LEMMA NumberHistory ==
    ASSUME HistoryInv, NEW s \in Snappers, Number(s)
    PROVE  HistoryInv'
<1>1. FileTypeInv /\ FileTypeInv'
  BY NumberType DEF HistoryInv
<1>5. PICK p \in Paths : snap[s].of = p
  BY <1>1 DEF Number, FileTypeInv, SnapsAreGiven
<1> DEFINE v == NextVersion(p)
<1>2. /\ snap[s].pc = "read"
      /\ histDirs' = histDirs \cup {p} /\ UNCHANGED <<hist, taken, raced>>
      /\ snap' = [snap EXCEPT ![s].pc = "numbered", ![s].version = v]
      /\ snap \in [Snappers -> [pc : {"idle", "read", "numbered", "written"},
                                of : Paths \cup {None}, content : Texts \cup {None},
                                version : {0} \cup Versions]]
  BY <1>1, <1>5 DEF Number, FileTypeInv, FileHistoryTypeOK
<1>3. v \in Nat /\ \A n \in DOMAIN hist[p] : n < v
  BY <1>1, <1>2, NextVersionIsNext
<1> HIDE DEF v
<1>4. /\ snap'[s].of = p /\ snap'[s].pc = "numbered" /\ snap'[s].version = v
      /\ \A o \in Snappers \ {s} : snap'[o] = snap[o]
  BY <1>2, <1>5
<1>6. ASSUME NEW q \in Paths \ raced' PROVE IsInOrder(q)'
  <2>0. IsInOrder(q)
    BY <1>2, <1>6 DEF HistoryInv
  <2>1. CASE q # p
    BY <1>2, <1>4, <1>5, <2>0, <2>1, InOrderOfOther
  <2>2. CASE q = p
    <3>1. \A o \in Snappers : (snap'[o].of = p => o = s) /\ (snap[o].of = p => o = s)
      BY <1>4, <1>5, <2>0, <2>2 DEF IsInOrder, Alone
    <3>2. Alone(p)' /\ HasItsDir(p)' /\ ~IsWritten(p)' /\ ~IsWritten(p)
      BY <1>2, <1>4, <3>1 DEF Alone, HasItsDir, IsWritten
    <3>3. AllFit(p)' => Grows(p) /\ Holds(p, MaxVersions) /\ Grows(p)' /\ Holds(p, Room(p))'
      BY <1>2, <2>0, <2>2, <3>2 DEF IsInOrder, AllFit, Grows, Holds, Recent, Room
    <3>4. ASSUME AllFit(p)', NEW k \in DOMAIN taken[p] PROVE taken[p][k].version < v
      <4> DEFINE L == Len(taken[p])
      <4>1. L \in Nat /\ k \in 1..L /\ L \in DOMAIN taken[p] /\ DOMAIN taken[p] = 1..L
        BY <1>1, <1>2, <3>4, TakenType
      <4>2. L \in Recent(p, MaxVersions)
        BY <4>1, FileHistoryAssumption DEF Recent
      <4>3. taken[p][L].version \in DOMAIN hist[p]
        BY <3>3, <3>4, <4>2 DEF Holds
      <4>4. taken[p][L].version < v /\ taken[p][L].version \in Nat /\ taken[p][k].version \in Nat
        BY <1>1, <1>2, <1>3, <4>1, <4>3, TakenType
      <4>5. k < L => taken[p][k].version < taken[p][L].version
        BY <3>3, <3>4, <4>1 DEF Grows
      <4> HIDE DEF L
      <4>6. k < L \/ k = L
        BY <4>1
      <4> QED
        BY <1>3, <4>4, <4>5, <4>6
    <3>5. AllFit(p)' => NumberIsNew(p)'
      BY <1>2, <1>4, <3>1, <3>4 DEF NumberIsNew
    <3> QED
      BY <2>2, <3>2, <3>3, <3>5 DEF IsInOrder
  <2> QED
    BY <2>1, <2>2
<1>7. \A q \in Paths \ histDirs' : taken'[q] = <<>>
  BY <1>2 DEF HistoryInv
<1> QED
  BY <1>1, <1>6, <1>7 DEF HistoryInv

\* The version that is written is the last, and one more than there is room for.
LEMMA WriteVersionHistory ==
    ASSUME HistoryInv, NEW s \in Snappers, WriteVersion(s)
    PROVE  HistoryInv'
<1>1. FileTypeInv /\ FileTypeInv'
  BY WriteVersionType DEF HistoryInv
<1>2. PICK p \in Paths : snap[s].of = p
  BY <1>1 DEF WriteVersion, FileTypeInv, SnapsAreGiven
<1> DEFINE rec == [version |-> snap[s].version, content |-> snap[s].content]
<1>3. /\ snap[s].pc = "numbered"
      /\ UNCHANGED <<histDirs, raced>>
      /\ snap' = [snap EXCEPT ![s].pc = "written"]
      /\ snap \in [Snappers -> [pc : {"idle", "read", "numbered", "written"},
                                of : Paths \cup {None}, content : Texts \cup {None},
                                version : {0} \cup Versions]]
      /\ hist \in [Paths -> Histories]
      /\ taken \in [Paths -> Seq([version : Versions, content : Texts])]
  BY <1>1, <1>2 DEF WriteVersion, FileTypeInv, FileHistoryTypeOK
<1>4. /\ snap'[s].of = p /\ snap'[s].pc = "written"
      /\ \A o \in Snappers \ {s} : snap'[o] = snap[o]
  BY <1>2, <1>3
<1>5. /\ \A q \in Paths \ {p} : hist'[q] = hist[q] /\ taken'[q] = taken[q]
      /\ p \notin histDirs => UNCHANGED <<hist, taken>>
      /\ p \in histDirs =>
           /\ taken'[p] = Append(taken[p], rec)
           /\ hist'[p] = [v \in {snap[s].version} \cup DOMAIN hist[p] |->
                            IF v = snap[s].version THEN snap[s].content ELSE hist[p][v]]
  <2> DEFINE h == [v \in {snap[s].version} \cup DOMAIN hist[p] |->
                     IF v = snap[s].version THEN snap[s].content ELSE hist[p][v]]
  <2>1. CASE p \in histDirs
    <3>1. hist' = [hist EXCEPT ![p] = h] /\ taken' = [taken EXCEPT ![p] = Append(@, rec)]
      BY <1>2, <2>1 DEF WriteVersion
    <3> HIDE DEF h, rec
    <3>2. hist'[p] = h /\ taken'[p] = Append(taken[p], rec)
      BY <1>3, <3>1
    <3>3. \A q \in Paths \ {p} : hist'[q] = hist[q] /\ taken'[q] = taken[q]
      BY <1>3, <3>1
    <3> QED
      BY <2>1, <3>2, <3>3 DEF h
  <2>2. CASE p \notin histDirs
    BY <1>2, <2>2 DEF WriteVersion
  <2> QED
    BY <2>1, <2>2
<1>6. ASSUME NEW q \in Paths \ raced' PROVE IsInOrder(q)'
  <2>0. IsInOrder(q)
    BY <1>3, <1>6 DEF HistoryInv
  <2>1. CASE q # p
    BY <1>2, <1>3, <1>4, <1>5, <2>0, <2>1, InOrderOfOther
  <2>2. CASE q = p
    <3>1. \A o \in Snappers : (snap'[o].of = p => o = s) /\ (snap[o].of = p => o = s)
      BY <1>2, <1>4, <2>0, <2>2 DEF IsInOrder, Alone
    <3>2. Alone(p)' /\ HasItsDir(p)' /\ IsWritten(p)' /\ ~IsWritten(p) /\ NumberIsNew(p)'
      BY <1>2, <1>3, <1>4, <3>1, <2>0, <2>2 DEF IsInOrder, Alone, HasItsDir, IsWritten,
         NumberIsNew
    <3>3. p \in histDirs
      BY <1>2, <1>3, <2>0, <2>2 DEF IsInOrder, HasItsDir
    <3> DEFINE L == Len(taken[p])
    <3>4. /\ L \in Nat /\ DOMAIN taken[p] = 1..L /\ DOMAIN taken'[p] = 1..(L + 1)
          /\ Len(taken'[p]) = L + 1
          /\ taken'[p][L + 1] = rec
          /\ \A k \in 1..L : taken'[p][k] = taken[p][k]
      <4>1. taken[p] \in Seq([version : Versions, content : Texts])
        BY <1>3
      <4>2. rec \in [version : Versions, content : Texts]
        BY <1>1, <1>3 DEF FileTypeInv, SnapsAreGiven, NumbersAreCounted
      <4> HIDE DEF rec
      <4> QED
        BY <4>1, <4>2, <1>5, <3>3, AppendProperties, LenProperties
    <3>5. SUFFICES ASSUME AllFit(p)' PROVE Grows(p)' /\ Holds(p, Room(p))'
      BY <2>2, <3>2 DEF IsInOrder
    <3>6. Grows(p) /\ NumberIsNew(p) /\ Holds(p, MaxVersions)
      <4>1. AllFit(p)
        BY <3>4, <3>5 DEF AllFit
      <4> QED
        BY <4>1, <2>0, <2>2, <3>2 DEF IsInOrder, Room
    <3>7. \A k \in 1..L : taken[p][k].version < snap[s].version
      BY <1>2, <1>3, <3>4, <3>6 DEF NumberIsNew
    <3>8. Grows(p)'
      <4>1. rec.version = snap[s].version
        OBVIOUS
      <4> HIDE DEF rec
      <4>2. ASSUME NEW j \in 1..(L + 1), NEW k \in 1..(L + 1), j < k
            PROVE  taken'[p][j].version < taken'[p][k].version
        <5>1. j \in 1..L /\ (k \in 1..L \/ k = L + 1)
          BY <3>4, <4>2
        <5>2. CASE k = L + 1
          BY <5>1, <5>2, <3>4, <3>7, <4>1
        <5>3. CASE k \in 1..L
          BY <4>2, <5>1, <5>3, <3>4, <3>6 DEF Grows
        <5> QED
          BY <5>1, <5>2, <5>3
      <4> QED
        BY <3>4, <4>2 DEF Grows
    <3>9. /\ Recent(p, MaxVersions + 1)' = Recent(p, MaxVersions) \cup {L + 1}
          /\ Recent(p, MaxVersions) \subseteq 1..L
      BY <3>4, FileHistoryAssumption DEF Recent
    <3>10. Room(p)' = MaxVersions + 1
      BY <3>2 DEF Room
    <3>11. \A k \in Recent(p, MaxVersions) : /\ taken'[p][k] = taken[p][k]
                                             /\ taken[p][k].version # snap[s].version
      <4> SUFFICES ASSUME NEW k \in Recent(p, MaxVersions)
                   PROVE  taken'[p][k] = taken[p][k] /\ taken[p][k].version # snap[s].version
        OBVIOUS
      <4>1. k \in 1..L
        BY <3>9
      <4>2. taken[p][k].version \in Nat
        BY <4>1, <3>4, <1>1, TakenType
      <4> QED
        BY <4>1, <4>2, <3>4, <3>7
    <3>12. DOMAIN hist'[p] = DOMAIN hist[p] \cup {snap[s].version}
      BY <1>5, <3>3
    <3>13. Holds(p, Room(p))'
      <4>1. DOMAIN hist'[p] = {taken'[p][k].version : k \in Recent(p, MaxVersions) \cup {L + 1}}
        BY <3>4, <3>6, <3>11, <3>12 DEF Holds
      <4>2. \A k \in Recent(p, MaxVersions) \cup {L + 1} :
               hist'[p][taken'[p][k].version] = taken'[p][k].content
        <5>1. ASSUME NEW k \in Recent(p, MaxVersions)
              PROVE  hist'[p][taken'[p][k].version] = taken'[p][k].content
          <6>1. /\ taken'[p][k] = taken[p][k] /\ taken[p][k].version # snap[s].version
                /\ taken[p][k].version \in DOMAIN hist[p]
                /\ hist[p][taken[p][k].version] = taken[p][k].content
            BY <3>6, <3>11 DEF Holds
          <6> QED
            BY <1>5, <3>3, <6>1
        <5>2. hist'[p][taken'[p][L + 1].version] = taken'[p][L + 1].content
          BY <1>5, <3>3, <3>4
        <5> QED
          BY <5>1, <5>2
      <4> QED
        BY <4>1, <4>2, <3>9, <3>10 DEF Holds
    <3> QED
      BY <3>8, <3>13
  <2> QED
    BY <2>1, <2>2
<1>7. \A q \in Paths \ histDirs' : taken'[q] = <<>>
  BY <1>3, <1>5 DEF HistoryInv
<1> QED
  BY <1>1, <1>6, <1>7 DEF HistoryInv

\* Of versions that fit and grow, those from some point on are as many as there are after it.
LEMMA LaterVersions ==
    ASSUME FileTypeInv, NEW p \in Paths, AllFit(p), Grows(p), NEW n \in Nat,
           NEW k \in Recent(p, n)
    PROVE  LET D == {taken[p][j].version : j \in Recent(p, n)}
               later == {v \in D : NameBefore(taken[p][k].version, v)}
           IN  IsFiniteSet(later) /\ Cardinality(later) = Len(taken[p]) - k
<1> DEFINE L == Len(taken[p])
<1> DEFINE ver(j) == taken[p][j].version
<1> DEFINE D == {ver(j) : j \in Recent(p, n)}
<1> DEFINE later == {v \in D : NameBefore(ver(k), v)}
<1>1. L \in Nat /\ DOMAIN taken[p] = 1..L /\ \A j \in 1..L : ver(j) \in Nat /\ Fits(ver(j))
  BY TakenType DEF AllFit
<1>2. k \in 1..L /\ Recent(p, n) = {j \in 1..L : L - n < j}
  BY <1>1 DEF Recent
<1>3. \A i, j \in 1..L : i < j => ver(i) < ver(j)
  BY <1>1 DEF Grows
<1>4. \A j \in 1..L : NameBefore(ver(k), ver(j)) <=> k < j
  <2> SUFFICES ASSUME NEW j \in 1..L PROVE NameBefore(ver(k), ver(j)) <=> k < j
    OBVIOUS
  <2>1. NameBefore(ver(k), ver(j)) <=> ver(k) < ver(j)
    BY <1>1, <1>2 DEF NameBefore
  <2>2. k < j \/ k = j \/ j < k
    BY <1>1, <1>2
  <2>3. k < j => ver(k) < ver(j)
    BY <1>2, <1>3
  <2>4. j < k => ver(j) < ver(k)
    BY <1>2, <1>3
  <2>5. ver(k) \in Nat /\ ver(j) \in Nat
    BY <1>1, <1>2
  <2> HIDE DEF ver
  <2> QED
    BY <1>1, <1>2, <2>1, <2>2, <2>3, <2>4, <2>5
<1>5. later = {ver(j) : j \in (k + 1)..L}
  BY <1>1, <1>2, <1>4
<1> DEFINE f == [j \in (k + 1)..L |-> ver(j)]
<1>6. f \in Bijection((k + 1)..L, later)
  <2>1. f \in [(k + 1)..L -> later] /\ \A v \in later : \E j \in (k + 1)..L : f[j] = v
    BY <1>5
  <2>2. ASSUME NEW i \in (k + 1)..L, NEW j \in (k + 1)..L, f[i] = f[j] PROVE i = j
    <3>1. i \in 1..L /\ j \in 1..L /\ ver(i) = ver(j) /\ ver(i) \in Nat
      BY <1>1, <1>2, <2>2
    <3>2. ~(i < j) /\ ~(j < i)
      BY <1>1, <1>3, <3>1
    <3> QED
      BY <3>1, <3>2
  <2> HIDE DEF f, later
  <2>3. f \in Injection((k + 1)..L, later)
    BY <2>1, <2>2 DEF Injection, IsInjective
  <2>4. f \in Surjection((k + 1)..L, later)
    BY <2>1 DEF Surjection
  <2> QED
    BY <2>3, <2>4 DEF Bijection
<1>7. IsFiniteSet((k + 1)..L) /\ Cardinality((k + 1)..L) = L - k
  <2>1. k \in Int /\ k + 1 \in Int /\ L \in Int /\ k <= L
    BY <1>1, <1>2
  <2>2. Cardinality((k + 1)..L) = IF k + 1 > L THEN 0 ELSE L - (k + 1) + 1
    BY <2>1, FS_Interval
  <2>3. IsFiniteSet((k + 1)..L)
    BY <2>1, FS_Interval
  <2>4. (IF k + 1 > L THEN 0 ELSE L - (k + 1) + 1) = L - k
    BY <2>1
  <2> QED
    BY <2>2, <2>3, <2>4
<1> HIDE DEF f, later
<1>8. IsFiniteSet(later) /\ Cardinality(later) = L - k
  BY <1>6, <1>7, FS_Bijection DEF ExistsBijection
<1> QED
  BY <1>8 DEF later

\* What is removed is what there is no room for.
LEMMA EvictHistory ==
    ASSUME HistoryInv, NEW s \in Snappers, Evict(s)
    PROVE  HistoryInv'
<1>1. FileTypeInv /\ FileTypeInv'
  BY EvictType DEF HistoryInv
<1>2. PICK p \in Paths : snap[s].of = p
  BY <1>1 DEF Evict, FileTypeInv, SnapsAreGiven
<1> DEFINE D == DOMAIN hist[p]
<1> DEFINE h == Restrict(hist[p], D \ Oldest(D))
<1>3. /\ snap[s].pc = "written"
      /\ UNCHANGED <<histDirs, taken, raced>>
      /\ snap' = [snap EXCEPT ![s] = Quiet] /\ hist' = [hist EXCEPT ![p] = h]
      /\ hist \in [Paths -> Histories]
      /\ snap \in [Snappers -> [pc : {"idle", "read", "numbered", "written"},
                                of : Paths \cup {None}, content : Texts \cup {None},
                                version : {0} \cup Versions]]
  BY <1>1, <1>2 DEF Evict, FileTypeInv, FileHistoryTypeOK
<1> HIDE DEF h
<1>4. /\ snap'[s].of \notin Paths
      /\ \A o \in Snappers \ {s} : snap'[o] = snap[o]
      /\ hist'[p] = h /\ \A q \in Paths \ {p} : hist'[q] = hist[q]
  BY <1>3, FileHistoryAssumption DEF Quiet
<1>5. ASSUME NEW q \in Paths \ raced' PROVE IsInOrder(q)'
  <2>0. IsInOrder(q)
    BY <1>3, <1>5 DEF HistoryInv
  <2>1. CASE q # p
    BY <1>2, <1>3, <1>4, <2>0, <2>1, InOrderOfOther
  <2>2. CASE q = p
    <3>1. /\ \A o \in Snappers : snap'[o].of # p /\ (snap[o].of = p => o = s)
      BY <1>2, <1>4, <2>0, <2>2 DEF IsInOrder, Alone
    <3>2. Alone(p)' /\ HasItsDir(p)' /\ ~IsWritten(p)' /\ IsWritten(p) /\ NumberIsNew(p)'
      BY <1>2, <1>3, <3>1 DEF Alone, HasItsDir, IsWritten, NumberIsNew
    <3>3. SUFFICES ASSUME AllFit(p)' PROVE Grows(p)' /\ Holds(p, Room(p))'
      BY <2>2, <3>2 DEF IsInOrder
    <3>4. Room(p)' = MaxVersions
      BY <3>2 DEF Room
    <3>5. AllFit(p) /\ Grows(p) /\ Holds(p, MaxVersions + 1) /\ Grows(p)'
      <4>1. AllFit(p)
        BY <1>3, <3>3 DEF AllFit
      <4>2. Grows(p) /\ Holds(p, MaxVersions + 1)
        BY <4>1, <2>0, <2>2, <3>2 DEF IsInOrder, Room
      <4> QED
        BY <1>3, <4>1, <4>2 DEF Grows
    <3> DEFINE L == Len(taken[p])
    <3>6. L \in Nat /\ DOMAIN taken[p] = 1..L /\ MaxVersions \in Nat
      BY <1>1, TakenType, FileHistoryAssumption
    <3>7. /\ Recent(p, MaxVersions) \subseteq Recent(p, MaxVersions + 1)
          /\ \A k \in Recent(p, MaxVersions + 1) :
                k \in Nat /\ k <= L /\ (k \notin Recent(p, MaxVersions) <=> L - k >= MaxVersions)
      BY <3>6 DEF Recent
    <3>8. D = {taken[p][k].version : k \in Recent(p, MaxVersions + 1)}
      BY <3>5 DEF Holds
    <3>9. ASSUME NEW k \in Recent(p, MaxVersions + 1)
          PROVE  taken[p][k].version \in Oldest(D) <=> k \notin Recent(p, MaxVersions)
      <4>1. Cardinality({v \in D : NameBefore(taken[p][k].version, v)}) = L - k
        <5>1. MaxVersions + 1 \in Nat
          BY <3>6
        <5> HIDE DEF D
        <5> QED
          BY <1>1, <5>1, <3>5, <3>8, LaterVersions
      <4>2. taken[p][k].version \in Oldest(D) <=> L - k >= MaxVersions
        BY <3>8, <4>1 DEF Oldest
      <4> QED
        BY <3>7, <4>2
    <3>10. D \ Oldest(D) = {taken[p][k].version : k \in Recent(p, MaxVersions)}
      BY <3>7, <3>8, <3>9
    <3>11. /\ DOMAIN h = D \ Oldest(D)
           /\ \A v \in D \ Oldest(D) : h[v] = hist[p][v]
      BY DEF h, Restrict, Oldest
    <3>12. \A k \in Recent(p, MaxVersions) : h[taken[p][k].version] = taken[p][k].content
      BY <3>5, <3>7, <3>10, <3>11 DEF Holds
    <3>13. Recent(p, MaxVersions)' = Recent(p, MaxVersions)
      BY <1>3 DEF Recent
    <3>14. Holds(p, MaxVersions)'
      BY <1>3, <1>4, <3>10, <3>11, <3>12, <3>13 DEF Holds
    <3> QED
      BY <3>4, <3>5, <3>14
  <2> QED
    BY <2>1, <2>2
<1>6. \A q \in Paths \ histDirs' : taken'[q] = <<>>
  BY <1>3 DEF HistoryInv
<1> QED
  BY <1>1, <1>5, <1>6 DEF HistoryInv

\* A file that has been moved has what it had; nothing is known of the name it leaves.
LEMMA MoveFileHistory ==
    ASSUME HistoryInv, NEW p \in Paths, NEW q \in Paths, MoveFile(p, q)
    PROVE  HistoryInv'
<1>1. FileTypeInv /\ FileTypeInv'
  BY MoveFileType DEF HistoryInv
<1>2. /\ p # q /\ UNCHANGED snap
      /\ raced' = IF InUse(p) \/ InUse(q) THEN raced \cup {p, q}
                  ELSE IF p \in raced THEN raced \cup {q} ELSE raced
      /\ hist \in [Paths -> Histories]
      /\ taken \in [Paths -> Seq([version : Versions, content : Texts])]
  BY <1>1 DEF MoveFile, FileTypeInv, FileHistoryTypeOK
<1>3. CASE p \in histDirs
  <2>1. /\ histDirs' = (histDirs \ {p}) \cup {q}
        /\ hist' = [hist EXCEPT ![q] = hist[p], ![p] = <<>>]
        /\ taken' = [taken EXCEPT ![q] = taken[p], ![p] = <<>>]
    BY <1>3 DEF MoveFile, MoveHistory
  <2>2. /\ hist'[p] = <<>> /\ hist'[q] = hist[p]
        /\ taken'[p] = <<>> /\ taken'[q] = taken[p]
        /\ \A o \in Paths \ {p, q} : hist'[o] = hist[o] /\ taken'[o] = taken[o]
    BY <1>2, <2>1
  <2>3. ASSUME NEW o \in Paths \ raced' PROVE IsInOrder(o)'
    <3>0. IsInOrder(o)
      BY <1>2, <2>3 DEF HistoryInv
    <3>1. CASE o \notin {p, q}
      BY <1>2, <2>1, <2>2, <3>0, <3>1, InOrderOfOther
    <3>2. CASE o = p
      <4>1. ~InUse(p)
        BY <1>2, <2>3, <3>2
      <4>2. Alone(p)' /\ HasItsDir(p)' /\ NumberIsNew(p)'
        BY <1>2, <4>1 DEF Alone, HasItsDir, NumberIsNew, InUse
      <4>3. Grows(p)' /\ Holds(p, Room(p))'
        BY <2>2 DEF Grows, Holds, Recent
      <4> QED
        BY <3>2, <4>2, <4>3 DEF IsInOrder
    <3>3. CASE o = q
      <4>1. ~InUse(p) /\ ~InUse(q) /\ p \notin raced
        BY <1>2, <2>3, <3>3
      <4>2. Alone(q)' /\ HasItsDir(q)' /\ NumberIsNew(q)'
        BY <1>2, <4>1 DEF Alone, HasItsDir, NumberIsNew, InUse
      <4>3. Room(p) = MaxVersions /\ Room(q)' = MaxVersions
        BY <1>2, <4>1 DEF Room, IsWritten, InUse
      <4>4. AllFit(q)' => AllFit(p)
        BY <2>2 DEF AllFit
      <4>5. IsInOrder(p)
        BY <4>1 DEF HistoryInv
      <4>6. AllFit(q)' => Grows(q)' /\ Holds(q, MaxVersions)'
        BY <2>2, <4>3, <4>4, <4>5 DEF IsInOrder, Grows, Holds, Recent
      <4> QED
        BY <3>3, <4>2, <4>3, <4>6 DEF IsInOrder
    <3> QED
      BY <3>1, <3>2, <3>3
  <2>4. \A o \in Paths \ histDirs' : taken'[o] = <<>>
    BY <2>1, <2>2 DEF HistoryInv
  <2> QED
    BY <1>1, <2>3, <2>4 DEF HistoryInv
<1>4. CASE p \notin histDirs
  <2>1. UNCHANGED <<histDirs, hist, taken>>
    BY <1>4 DEF MoveFile, MoveHistory
  <2>2. ASSUME NEW o \in Paths \ raced' PROVE IsInOrder(o)'
    <3>1. IsInOrder(o)
      BY <1>2, <2>2 DEF HistoryInv
    <3> QED
      BY <1>2, <2>1, <3>1, InOrderOfOther
  <2> QED
    BY <1>1, <2>1, <2>2 DEF HistoryInv
<1> QED
  BY <1>3, <1>4

\* What leaves the histories alone leaves them in order.
LEMMA HistoryUntouched ==
    ASSUME HistoryInv, FileTypeInv', UNCHANGED <<histDirs, hist, snap, taken, raced>>
    PROVE  HistoryInv'
<1>1. ASSUME NEW o \in Paths \ raced' PROVE IsInOrder(o)'
  <2>1. IsInOrder(o)
    BY <1>1 DEF HistoryInv
  <2> QED
    BY <2>1, InOrderOfOther
<1> QED
  BY <1>1 DEF HistoryInv

LEMMA HistoryNext ==
    ASSUME HistoryInv, FileHistoryNext
    PROVE  HistoryInv'
<1>1. FileTypeInv /\ FileTypeInv'
  BY FileTypeNext DEF HistoryInv
<1>2. ASSUME NEW p \in Paths, NEW c \in Texts \cup {None}, Writes, AtomicWrite(p, c)
      PROVE  HistoryInv'
  BY <1>1, <1>2, HistoryUntouched DEF AtomicWrite
<1> QED
  BY <1>1, <1>2, FileHistoryCases, SnapshotFileHistory, NumberHistory, WriteVersionHistory,
     EvictHistory, MoveFileHistory

LEMMA HistoryIsNewest == HistoryInv => HistoryKeepsNewest
<1> SUFFICES ASSUME HistoryInv, NEW p \in Paths \ raced, ~InUse(p),
                    \A k \in 1..Len(taken[p]) : Fits(taken[p][k].version)
             PROVE  {[version |-> v, content |-> hist[p][v]] : v \in DOMAIN hist[p]} = Newest(p)
  BY DEF HistoryKeepsNewest
<1> DEFINE L == Len(taken[p])
<1> DEFINE from == Max({0, L - MaxVersions})
<1>1. /\ L \in Nat /\ DOMAIN taken[p] = 1..L /\ MaxVersions \in Nat
      /\ \A k \in 1..L : taken[p][k] \in [version : Versions, content : Texts]
  BY TakenType, FileHistoryAssumption DEF HistoryInv
<1>2. Holds(p, MaxVersions)
  BY <1>1 DEF HistoryInv, IsInOrder, AllFit, Room, IsWritten, InUse
<1>3. from = IF L > MaxVersions THEN L - MaxVersions ELSE 0
  <2>1. \A x \in Int : Max({0, x}) = IF x > 0 THEN x ELSE 0
    BY DEF Max
  <2>2. L - MaxVersions \in Int
    BY <1>1
  <2> QED
    BY <1>1, <2>1, <2>2
<1>4. Recent(p, MaxVersions) = (from + 1)..L
  BY <1>1, <1>3 DEF Recent
<1>5. \A k \in Recent(p, MaxVersions) :
        [version |-> taken[p][k].version, content |-> hist[p][taken[p][k].version]] = taken[p][k]
  BY <1>1, <1>2 DEF Holds, Recent
<1>6. {[version |-> v, content |-> hist[p][v]] : v \in DOMAIN hist[p]}
        = {taken[p][k] : k \in Recent(p, MaxVersions)}
  <2> DEFINE F(v) == [version |-> v, content |-> hist[p][v]]
  <2>1. DOMAIN hist[p] = {taken[p][k].version : k \in Recent(p, MaxVersions)}
    BY <1>2 DEF Holds
  <2>2. \A k \in Recent(p, MaxVersions) : F(taken[p][k].version) = taken[p][k]
    BY <1>5
  <2> HIDE DEF F
  <2>3. {F(v) : v \in DOMAIN hist[p]} = {taken[p][k] : k \in Recent(p, MaxVersions)}
    BY <2>1, <2>2
  <2> QED
    BY <2>3 DEF F
<1> QED
  BY <1>4, <1>6 DEF Newest

LEMMA SpecHistoryInv == Spec => []HistoryInv
<1>1. Init => HistoryInv
  BY HistoryBegins DEF Init
<1>2. HistoryInv /\ [Next]_vars => HistoryInv'
  <2> SUFFICES ASSUME HistoryInv, [Next]_vars PROVE HistoryInv'
    OBVIOUS
  <2>1. CASE FileHistoryNext
    BY <2>1, HistoryNext
  <2>2. CASE UNCHANGED fileVars
    <3>1. FileTypeInv /\ raced' \subseteq Paths /\ file' \in [Paths -> Texts \cup {None}]
          /\ count' \in [taken : 0..MaxTaken, writes : 0..MaxWrites] /\ count' = count
      BY <2>2 DEF fileVars, HistoryInv, FileTypeInv, FileHistoryTypeOK
    <3>2. FileTypeInv'
      BY <2>2, <3>1, FileTypeUntouched DEF fileVars
    <3> QED
      BY <2>2, <3>2, HistoryUntouched DEF fileVars
  <2> QED
    BY <2>1, <2>2 DEF Next, vars
<1> QED
  BY <1>1, <1>2, PTL DEF Spec

\* With no snapshot of a file under way, its history is exactly the newest MaxVersions of
\* those taken of it, moved with it or not, each under its number and with what the file
\* held: SnapshotFile, Rollback and MoveFile served in any order (file_handler.go), whatever
\* the limit and however numbers are written, as long as they fit their width.
THEOREM HistoryIsKept == Spec => []HistoryKeepsNewest
BY SpecHistoryInv, HistoryIsNewest, PTL

-----------------------------------------------------------------------------
(* The directories and what replaces them. *)

Calm == deletion \in {"idle", "sweep"}

\* The last backup an import has made.
LastBackup(b) ==
    b \in backups /\ b.by = "import" /\ \A c \in backups : c.by = "import" => c.n <= b.n
Held == \E b \in backups : LastBackup(b) /\ b.dir = settled.dir
IsSettled == target = settled.dir \/ (owed /\ target = NoDir /\ Held)

\* The lock tells which import is under way.
LocksAreHeld ==
    /\ \A i \in Importers \ lock : imports[i] = Idle
    /\ \A i \in lock : imports[i].pc # "idle"
    /\ \A i, j \in lock : i = j
    /\ ~up => lock = {} /\ deletion = "idle"

\* No number is given twice.
BackupsAreTold ==
    /\ \A b \in backups : b.n < NextBackup
    /\ \A b, c \in backups : b.n = c.n => b = c
    /\ marker # {} => \E n \in 0..(NextBackup - 1) : marker = {n}
    /\ \A i \in Importers : imports[i].backup < NextBackup

\* What the marker says at each step of an import.
StepIsMarked(i) ==
    LET pc == imports[i].pc
        n == imports[i].backup
    IN
    /\ pc \in {"unpacked", "ready", "prepared"} => n = NoBackup
    /\ pc \in {"unpacked", "ready", "prepared", "backup", "activate"} => staged[i] # NoDir
    /\ pc = "prepared" => marker = {Unnamed}
    /\ pc = "backup" => /\ n # NoBackup /\ marker = {n} /\ n \notin Made
                        /\ \A c \in backups : c.by = "import" => c.n < n
    /\ pc = "activate" => /\ marker = {n}
                          /\ n # NoBackup => \E b \in backups : LastBackup(b) /\ b.n = n
    /\ pc = "done" => ~owed

\* A marker that names a backup is there only while an import may need it, or
\* after one that could not move it back.
MarkersAreSpent ==
    Recovers /\ up /\ ~owed /\ (\A i \in lock : imports[i].pc \notin {"activate", "done"}) =>
        marker \cap Made = {}

\* The data an import has taken over is that of the directory it replaces.
DataIsKept(i) ==
    LET pc == imports[i].pc IN
    /\ pc = "unpacked" => staged[i].data = imports[i].data
    /\ pc \in {"ready", "prepared", "backup", "activate"} /\ kind = "service"
         /\ imports[i].data = Absent /\ settled.peace /\ ~owed =>
         staged[i].data = settled.dir.data

\* Where the directory is at each step of an import left in peace,
StepIsSettled(i) ==
    LET pc == imports[i].pc
        n == imports[i].backup
    IN
    /\ Calm
    /\ CASE pc \in {"backup", "done"} -> target = settled.dir /\ target # NoDir
         [] pc = "activate" ->
              /\ target = NoDir
              /\ IF n = NoBackup THEN IsSettled
                 ELSE \E b \in backups : LastBackup(b) /\ b.n = n /\ b.dir = settled.dir
         [] OTHER -> IsSettled

\* and what a crash leaves: a directory that will stay, one an import has lost, or a
\* backup that will be moved back.
CanBeRecovered ==
    \/ target = settled.dir /\ (Recovers /\ target = NoDir /\ ~owed => marker \cap Made = {})
    \/ target = NoDir /\ owed /\ Held
    \/ target = NoDir /\ \E b \in backups : LastBackup(b) /\ marker = {b.n} /\ b.dir = settled.dir

DirIsSettled ==
    settled.peace =>
        /\ up /\ lock = {} /\ Calm => IsSettled
        /\ \A i \in lock : StepIsSettled(i)
        /\ ~up => CanBeRecovered

ImportsInv ==
    /\ ImportsTypeOK /\ LocksAreHeld /\ BackupsAreTold
    /\ \A i \in lock : StepIsMarked(i) /\ DataIsKept(i)
    /\ MarkersAreSpent /\ DirIsSettled

Budgets == [backups : 0..MaxBackups, faults : 0..MaxFaults, crashes : 0..MaxCrashes,
            edits : 0..MaxEdits]

LEMMA SpendsType ==
    ASSUME ImportsTypeOK, NEW what \in {"backups", "faults", "crashes", "edits"}, Spends(what)
    PROVE  /\ budget' \in Budgets
           /\ what # "backups" => budget'.backups = budget.backups
           /\ what = "backups" => budget.backups > 0 /\ budget'.backups = budget.backups - 1
<1>1. budget \in Budgets /\ {MaxBackups, MaxFaults, MaxCrashes, MaxEdits} \subseteq Nat
  BY ImportsAssumption DEF ImportsTypeOK, Budgets
<1>2. CASE what = "backups"
  BY <1>1, <1>2 DEF Spends, Budgets
<1>3. CASE what = "faults"
  BY <1>1, <1>3 DEF Spends, Budgets
<1>4. CASE what = "crashes"
  BY <1>1, <1>4 DEF Spends, Budgets
<1>5. CASE what = "edits"
  BY <1>1, <1>5 DEF Spends, Budgets
<1> QED
  BY <1>2, <1>3, <1>4, <1>5

\* The next backup has a number of its own.
LEMMA NextBackupType ==
    ASSUME ImportsTypeOK
    PROVE  /\ NextBackup \in 1..(MaxBackups + 1) /\ MaxBackups \in Nat
           /\ budget.backups > 0 => NextBackup \in 1..MaxBackups
           /\ \A b \in backups : b.n \in 1..MaxBackups /\ b.dir \in Dirs /\ b.by \in {"import", "delete"}
BY ImportsAssumption DEF ImportsTypeOK, NextBackup

LEMMA DirsAre ==
    /\ NoDir \notin Dirs /\ Empty \in Dirs /\ NoDir.data = Absent
    /\ \A c \in Contents : Packed(c) \subseteq Dirs
    /\ \A d \in Dirs, c \in Contents : Write(d, c) \in Dirs
<1>1. NoDir.conf \notin Contents \cup {Absent}
  BY ImportsAssumption DEF NoDir, Absent
<1>2. NoDir \notin Dirs
  BY <1>1 DEF Dirs
<1> QED
  BY <1>2 DEF Dirs, NoDir, Empty, Packed, Write, Absent

\* A backup is known by its number.
LEMMA BackupOfIs ==
    ASSUME ImportsTypeOK, BackupsAreTold, NEW b \in backups
    PROVE  BackupOf(b.n) = b.dir /\ BackupOf(b.n) \in Dirs
<1>1. \A c \in backups : c.n = b.n => c = b
  BY DEF BackupsAreTold
<1> QED
  BY <1>1, NextBackupType DEF BackupOf

LEMMA ImportsBegin == ImportsInit => ImportsInv
<1> SUFFICES ASSUME ImportsInit PROVE ImportsInv
  OBVIOUS
<1>1. PICK c \in Contents : target \in {NoDir} \cup Packed(c)
  BY DEF ImportsInit
<1>2. target \in Dirs \cup {NoDir}
  BY <1>1, DirsAre
<1>3. ImportsTypeOK
  <2>1. Cardinality({}) = 0
    BY FS_EmptySet
  <2>2. Idle \in [pc : ImportSteps, backup : 0..MaxBackups, data : Contents \cup {Absent}]
    BY ImportsAssumption DEF Idle, ImportSteps, NoBackup
  <2>3. /\ imports \in [Importers -> [pc : ImportSteps, backup : 0..MaxBackups,
                                      data : Contents \cup {Absent}]]
        /\ staged \in [Importers -> Dirs \cup {NoDir}]
    BY <2>2 DEF ImportsInit
  <2>4. /\ budget \in [backups : 0..MaxBackups, faults : 0..MaxFaults,
                       crashes : 0..MaxCrashes, edits : 0..MaxEdits]
        /\ settled \in [dir : Dirs \cup {NoDir}, peace : BOOLEAN]
    BY <1>2, ImportsAssumption DEF ImportsInit
  <2>5. kind \in {"service", "extension", "nested"}
    BY ImportsAssumption DEF ImportsInit
  <2>6. Cardinality(marker) <= 1 /\ Cardinality(lock) <= 1
    <3>1. marker = {} /\ lock = {}
      BY DEF ImportsInit
    <3> QED
      BY <2>1, <3>1
  <2> QED
    BY <1>2, <2>3, <2>4, <2>5, <2>6 DEF ImportsTypeOK, ImportsInit
<1>4. LocksAreHeld
  BY DEF LocksAreHeld, ImportsInit
<1>5. BackupsAreTold
  BY <1>3, NextBackupType DEF BackupsAreTold, ImportsInit, Idle, NoBackup
<1>6. MarkersAreSpent /\ DirIsSettled
  BY DEF MarkersAreSpent, DirIsSettled, IsSettled, ImportsInit
<1> QED
  BY <1>3, <1>4, <1>5, <1>6 DEF ImportsInv, ImportsInit

\* What is done without the lock makes the directory what it is, in peace or not.
LEMMA EditKeepsImports ==
    ASSUME ImportsInv, up, NEW dir \in Dirs \cup {NoDir}, Becomes(dir),
           UNCHANGED <<kind, staged, imports, lock, up, backups, marker, owed>>,
           deletion' \in {"idle", "remove", "restore", "sweep"}, running' \in BOOLEAN,
           budget' \in Budgets, budget'.backups = budget.backups
    PROVE  ImportsInv'
<1>1. target' = dir /\ settled' = [dir |-> dir, peace |-> Peaceful] /\ Peaceful \in BOOLEAN
  BY DEF Becomes, Settles, Peaceful
<1>2. settled'.dir = target' /\ settled'.peace = Peaceful /\ NextBackup' = NextBackup
  BY <1>1 DEF NextBackup
<1>3. ImportsTypeOK'
  BY <1>1 DEF ImportsInv, ImportsTypeOK, Budgets
<1>4. LocksAreHeld'
  BY DEF ImportsInv, LocksAreHeld
<1>5. BackupsAreTold' /\ MarkersAreSpent'
  BY <1>2 DEF ImportsInv, BackupsAreTold, MarkersAreSpent, Made, Recovers
<1>6. \A i \in lock' : StepIsMarked(i)'
  BY DEF ImportsInv, StepIsMarked, Made, LastBackup
<1>7. \A i \in lock' : ~settled'.peace
  BY <1>2 DEF Peaceful
<1>8. \A i \in lock' : DataIsKept(i)'
  BY <1>7 DEF ImportsInv, DataIsKept
<1>9. DirIsSettled'
  BY <1>2, <1>7 DEF DirIsSettled, IsSettled
<1> QED
  BY <1>3, <1>4, <1>5, <1>6, <1>8, <1>9 DEF ImportsInv

\* The requests that are edits: creation, update, the file manager, the data of a service,
\* the deletion of a service.
LEMMA EditsKeepImports ==
    ASSUME ImportsInv, NEW c \in Contents,
           \/ CreateService(c) \/ CreateExtension(c) \/ CreateServiceExtension(c)
           \/ UpdateService(c) \/ UpdateExtension(c) \/ UpdateServiceExtension(c)
           \/ SaveExtensionEnv(c) \/ Save(c) \/ WriteData(c) \/ RemoveAll
    PROVE  ImportsInv'
<1>1. /\ ImportsTypeOK /\ target \in Dirs \cup {NoDir}
      /\ deletion \in {"idle", "remove", "restore", "sweep"} /\ running \in BOOLEAN
  BY DEF ImportsInv, ImportsTypeOK
<1>2. ASSUME Edits
      PROVE  up /\ budget' \in Budgets /\ budget'.backups = budget.backups
  BY <1>1, <1>2, SpendsType DEF Edits
<1>3. CASE Create(c)
  <2>1. Write(IF target = NoDir THEN Empty ELSE target, c) \in Dirs
    BY <1>1, DirsAre
  <2> QED
    BY <1>1, <1>2, <1>3, <2>1, EditKeepsImports DEF Create, Untouched
<1>4. CASE Update(c)
  <2>1. Write(target, c) \in Dirs
    BY <1>1, <1>4, DirsAre DEF Update
  <2> QED
    BY <1>1, <1>2, <1>4, <2>1, EditKeepsImports DEF Update, Untouched
<1>5. CASE Save(c)
  <2>1. Write(IF target = NoDir THEN Empty ELSE target, c) \in Dirs
    BY <1>1, DirsAre
  <2> QED
    BY <1>1, <1>2, <1>5, <2>1, EditKeepsImports DEF Save, Untouched
<1>6. CASE WriteData(c)
  <2>1. [target EXCEPT !.data = c] \in Dirs
    BY <1>1, <1>6 DEF WriteData, Dirs
  <2> QED
    BY <1>1, <1>2, <1>6, <2>1, EditKeepsImports DEF WriteData, Untouched
<1>7. CASE RemoveAll
  BY <1>1, <1>2, <1>7, EditKeepsImports DEF RemoveAll, Untouched
<1> QED
  BY <1>3, <1>4, <1>5, <1>6, <1>7
     DEF CreateService, CreateExtension, CreateServiceExtension,
         UpdateService, UpdateExtension, UpdateServiceExtension, SaveExtensionEnv

LEMMA DeletionKeepsImports ==
    ASSUME ImportsInv, DeleteService \/ RemoveServiceDir \/ RestoreData
    PROVE  ImportsInv'
<1>1. /\ ImportsTypeOK /\ target \in Dirs \cup {NoDir} /\ NoDir \notin Dirs
      /\ running \in BOOLEAN /\ budget \in Budgets
  BY DirsAre DEF ImportsInv, ImportsTypeOK, Budgets
<1>2. CASE DeleteService
  <2> DEFINE dir == IF target # NoDir /\ target.data # Absent
                    THEN [target EXCEPT !.aside = target.data, !.data = Absent] ELSE target
  <2>1. dir \in Dirs \cup {NoDir}
    BY <1>1 DEF Dirs
  <2>2. budget' \in Budgets /\ budget'.backups = budget.backups
    BY <1>1, <1>2, SpendsType DEF DeleteService
  <2>3. Becomes(dir)
    BY <1>2 DEF DeleteService
  <2> HIDE DEF dir
  <2> QED
    BY <1>1, <1>2, <2>1, <2>2, <2>3, EditKeepsImports DEF DeleteService, Deletes, Untouched
<1>3. CASE RemoveServiceDir
  <2> DEFINE dir == IF target = NoDir THEN NoDir
                    ELSE [target EXCEPT !.data = target.aside, !.aside = Absent]
  <2>1. dir \in Dirs \cup {NoDir}
    BY <1>1 DEF Dirs
  <2>2. \/ Becomes(NoDir) /\ UNCHANGED budget
        \/ Becomes(dir) /\ Spends("faults")
    BY <1>3 DEF RemoveServiceDir
  <2>3. budget' \in Budgets /\ budget'.backups = budget.backups
    BY <1>1, <2>2, SpendsType
  <2>4. PICK new \in Dirs \cup {NoDir} : Becomes(new)
    BY <2>1, <2>2
  <2> QED
    BY <1>1, <1>3, <2>3, <2>4, EditKeepsImports DEF RemoveServiceDir, Deletes, Untouched
<1>4. CASE RestoreData
  <2>1. PICK left \in {target, IF target = NoDir THEN Empty ELSE target} :
          Becomes(IF left # NoDir /\ left.aside # Absent
                  THEN [left EXCEPT !.data = left.aside, !.aside = Absent] ELSE left)
    BY <1>4 DEF RestoreData
  <2> DEFINE dir == IF left # NoDir /\ left.aside # Absent
                    THEN [left EXCEPT !.data = left.aside, !.aside = Absent] ELSE left
  <2>2. left \in Dirs \cup {NoDir}
    BY <1>1, <2>1, DirsAre
  <2>3. dir \in Dirs \cup {NoDir}
    BY <1>1, <2>2 DEF Dirs
  <2>4. Becomes(dir)
    BY <2>1
  <2> HIDE DEF dir
  <2> QED
    BY <1>1, <1>4, <2>3, <2>4, EditKeepsImports DEF RestoreData, Deletes, Untouched
<1> QED
  BY <1>2, <1>3, <1>4

\* The start and the stop of a service leave its directory alone.
LEMMA ImportsUntouched ==
    ASSUME ImportsInv, running' \in BOOLEAN,
           UNCHANGED <<kind, target, backups, marker, staged, imports, lock, deletion, up,
                       budget,
                       settled, owed>>
    PROVE  ImportsInv'
<1>1. ImportsTypeOK' /\ LocksAreHeld' /\ BackupsAreTold' /\ MarkersAreSpent'
  BY DEF ImportsInv, ImportsTypeOK, LocksAreHeld, BackupsAreTold, MarkersAreSpent, NextBackup,
              Made, Recovers
<1>2. \A i \in lock' : StepIsMarked(i)' /\ DataIsKept(i)'
  BY DEF ImportsInv, StepIsMarked, DataIsKept, Made, LastBackup
<1>3. DirIsSettled'
  BY DEF ImportsInv, DirIsSettled, IsSettled, Held, LastBackup, Calm, StepIsSettled,
              CanBeRecovered, Made, Recovers
<1> QED
  BY <1>1, <1>2, <1>3 DEF ImportsInv

\* The backup of a deletion is of no concern to imports.
LEMMA DeleteExtensionKeepsImports ==
    ASSUME ImportsInv, DeleteExtension
    PROVE  ImportsInv'
<1> DEFINE new == [n |-> NextBackup, by |-> "delete", dir |-> target]
<1>1. /\ ImportsTypeOK /\ up /\ target \in Dirs /\ backups' = backups \cup {new}
      /\ deletion' = "sweep" /\ target' = NoDir
      /\ settled' = [dir |-> NoDir, peace |-> Peaceful] /\ Peaceful \in BOOLEAN
      /\ UNCHANGED <<kind, staged, imports, lock, up, marker, running, owed>>
  BY DEF ImportsInv, ImportsTypeOK, DeleteExtension, Untouched, Becomes, Settles, Peaceful
<1>2. /\ budget' \in Budgets /\ NextBackup \in 1..MaxBackups /\ NextBackup' = NextBackup + 1
      /\ MaxBackups \in Nat
  <2>1. Spends("backups")
    BY DEF DeleteExtension
  <2>2. /\ budget' \in Budgets /\ budget.backups > 0 /\ budget'.backups = budget.backups - 1
    BY <1>1, <2>1, SpendsType
  <2>3. budget.backups \in Nat /\ MaxBackups \in Nat
    BY <1>1, ImportsAssumption DEF ImportsTypeOK
  <2> QED
    BY <1>1, <2>2, <2>3, NextBackupType DEF NextBackup
<1>3. new \in [n : 1..MaxBackups, by : {"import", "delete"}, dir : Dirs]
  BY <1>1, <1>2
<1>4. new.n = NextBackup /\ new.by = "delete"
  OBVIOUS
<1> HIDE DEF new
<1>5. /\ BackupsAreTold /\ \A b \in backups : b.n \in 1..MaxBackups
      /\ \A i \in Importers : imports[i].backup \in 0..MaxBackups
  BY <1>1, NextBackupType DEF ImportsInv, ImportsTypeOK
<1>6. settled'.dir = target' /\ settled'.peace = Peaceful
  BY <1>1
<1>7. ImportsTypeOK'
  BY <1>1, <1>2, <1>3, DirsAre DEF ImportsTypeOK, Budgets
<1>8. LocksAreHeld'
  BY <1>1 DEF ImportsInv, LocksAreHeld
<1>9. BackupsAreTold'
  <2>1. \A b \in backups' : b.n < NextBackup'
    BY <1>1, <1>2, <1>4, <1>5 DEF BackupsAreTold
  <2>2. \A b, c \in backups' : b.n = c.n => b = c
    BY <1>1, <1>2, <1>4, <1>5 DEF BackupsAreTold
  <2>3. marker' # {} => \E n \in 0..(NextBackup' - 1) : marker' = {n}
    BY <1>1, <1>2, <1>5 DEF BackupsAreTold
  <2>4. \A i \in Importers : imports'[i].backup < NextBackup'
    BY <1>1, <1>2, <1>5 DEF BackupsAreTold
  <2> QED
    BY <2>1, <2>2, <2>3, <2>4 DEF BackupsAreTold
<1>10. /\ Made' = Made \cup {NextBackup}
       /\ \A n \in marker : n # NextBackup
       /\ \A b : LastBackup(b) => LastBackup(b)'
  <2>1. \A n \in marker : n # NextBackup
    BY <1>2, <1>5 DEF BackupsAreTold
  <2> QED
    BY <1>1, <1>4, <2>1 DEF Made, LastBackup
<1>11. MarkersAreSpent'
  BY <1>1, <1>10 DEF ImportsInv, MarkersAreSpent, Recovers
<1>12. ASSUME NEW i \in lock' PROVE StepIsMarked(i)'
  <2>1. StepIsMarked(i) /\ i \in Importers /\ imports[i].backup # NextBackup
    <3>1. i \in Importers
      BY <1>1, <1>12 DEF ImportsTypeOK
    <3> QED
      BY <1>1, <1>2, <1>5, <1>12, <3>1 DEF ImportsInv, BackupsAreTold
  <2>2. \A c \in backups' : c.by = "import" => c \in backups
    BY <1>1, <1>4
  <2> QED
    BY <1>1, <1>10, <2>1, <2>2 DEF StepIsMarked
<1>13. \A i \in lock' : ~settled'.peace
  BY <1>1, <1>6 DEF Peaceful
<1>14. \A i \in lock' : DataIsKept(i)'
  BY <1>1, <1>13 DEF ImportsInv, DataIsKept
<1>15. DirIsSettled'
  BY <1>1, <1>6, <1>13 DEF DirIsSettled, IsSettled
<1> QED
  BY <1>7, <1>8, <1>9, <1>11, <1>12, <1>14, <1>15 DEF ImportsInv

\* What a deletion sweeps away is never the last backup of an import.
LEMMA CleanupKeepsImports ==
    ASSUME ImportsInv, CleanupOldBackups
    PROVE  ImportsInv'
<1>1. /\ ImportsTypeOK /\ up /\ deletion = "sweep" /\ deletion' = "idle"
      /\ backups' = {b \in backups : Cardinality({c \in backups : SortsAfter(c, b)}) < MaxKeep}
      /\ UNCHANGED <<kind, staged, imports, lock, up, target, marker, running, budget, settled,
                     owed>>
  BY DEF ImportsInv, CleanupOldBackups, Deletes, Untouched
<1>2. \A b : LastBackup(b) => LastBackup(b)'
  <2> SUFFICES ASSUME NEW b, LastBackup(b) PROVE LastBackup(b)'
    OBVIOUS
  <2>1. \A c \in backups : c.n \in Nat /\ b.n \in Nat
    BY <1>1, NextBackupType DEF LastBackup
  <2>2. {c \in backups : SortsAfter(c, b)} = {}
    BY <2>1 DEF LastBackup, SortsAfter
  <2>3. Cardinality({c \in backups : SortsAfter(c, b)}) < MaxKeep
    BY <2>2, FS_EmptySet, ImportsAssumption
  <2> QED
    BY <1>1, <2>3 DEF LastBackup
<1>3. backups' \subseteq backups /\ Made' \subseteq Made
  BY <1>1 DEF Made
<1>4. ImportsTypeOK' /\ LocksAreHeld'
  BY <1>1, <1>3 DEF ImportsInv, ImportsTypeOK, LocksAreHeld
<1>5. BackupsAreTold' /\ MarkersAreSpent'
  BY <1>1, <1>3 DEF ImportsInv, BackupsAreTold, MarkersAreSpent, NextBackup, Recovers
<1>6. ASSUME NEW i \in lock' PROVE StepIsMarked(i)' /\ DataIsKept(i)'
  <2>1. StepIsMarked(i) /\ DataIsKept(i)
    BY <1>1, <1>6 DEF ImportsInv
  <2>2. \A b : LastBackup(b) => b \in backups'
    BY <1>2 DEF LastBackup
  <2> QED
    BY <1>1, <1>2, <1>3, <2>1, <2>2 DEF StepIsMarked, DataIsKept
<1>7. DirIsSettled'
  <2>1. Held => Held'
    BY <1>1, <1>2 DEF Held, LastBackup
  <2>2. IsSettled => IsSettled'
    BY <1>1, <2>1 DEF IsSettled
  <2>3. Calm /\ Calm'
    BY <1>1 DEF Calm
  <2>4. \A i \in lock : StepIsSettled(i) => StepIsSettled(i)'
    BY <1>1, <1>2, <2>2, <2>3 DEF StepIsSettled, LastBackup
  <2> QED
    BY <1>1, <2>2, <2>3, <2>4 DEF ImportsInv, DirIsSettled
<1> QED
  BY <1>4, <1>5, <1>6, <1>7 DEF ImportsInv

\* A marker names one backup.
LEMMA OneNumber ==
    ASSUME NEW n \in 0..MaxBackups, NEW M, M = {n}
    PROVE  M \in SUBSET (0..MaxBackups) /\ Cardinality(M) <= 1
<1>1. Cardinality(M) = 1
  BY FS_Singleton
<1>2. M \in SUBSET (0..MaxBackups)
  OBVIOUS
<1> QED
  BY <1>1, <1>2

ImportStates == [pc : ImportSteps, backup : 0..MaxBackups, data : Contents \cup {Absent}]

\* What holds of the import under way, which has the lock to itself.
LEMMA HolderIs ==
    ASSUME ImportsInv, NEW i \in Importers, imports[i].pc # "idle"
    PROVE  /\ lock = {i} /\ up /\ imports[i] \in ImportStates
           /\ \A o \in Importers \ {i} : imports[o] = Idle
           /\ StepIsMarked(i) /\ DataIsKept(i)
           /\ settled.peace => StepIsSettled(i)
<1>1. i \in lock
  BY DEF ImportsInv, LocksAreHeld, Idle
<1>2. lock \subseteq Importers /\ imports[i] \in ImportStates
  BY DEF ImportsInv, ImportsTypeOK, ImportStates
<1>3. lock = {i} /\ up
  BY <1>1, <1>2 DEF ImportsInv, LocksAreHeld
<1> QED
  BY <1>1, <1>2, <1>3 DEF ImportsInv, LocksAreHeld, DirIsSettled

\* What a step of it has to establish.
LEMMA HolderKeepsImports ==
    ASSUME NEW i \in Importers, lock' = {i}, up', imports'[i].pc # "idle",
           \A o \in Importers \ {i} : imports'[o] = Idle,
           ImportsTypeOK', BackupsAreTold', MarkersAreSpent', StepIsMarked(i)', DataIsKept(i)',
           settled'.peace => StepIsSettled(i)'
    PROVE  ImportsInv'
<1>1. LocksAreHeld'
  BY DEF LocksAreHeld
<1>2. DirIsSettled'
  BY DEF DirIsSettled
<1> QED
  BY <1>1, <1>2 DEF ImportsInv

LEMMA ToIs ==
    ASSUME ImportsTypeOK, NEW i \in Importers, NEW pc \in ImportSteps, To(i, pc)
    PROVE  /\ imports' \in [Importers -> ImportStates]
           /\ imports'[i].pc = pc /\ imports'[i].backup = imports[i].backup
           /\ imports'[i].data = imports[i].data
           /\ \A o \in Importers \ {i} : imports'[o] = imports[o]
<1> DEFINE x == [imports[i] EXCEPT !.pc = pc]
<1>1. imports \in [Importers -> ImportStates]
  BY DEF ImportsTypeOK, ImportStates
<1>2. /\ x \in ImportStates /\ x.pc = pc /\ x.backup = imports[i].backup
      /\ x.data = imports[i].data
  BY <1>1 DEF ImportStates
<1>3. imports' = [imports EXCEPT ![i] = x]
  BY DEF To
<1> HIDE DEF x
<1> QED
  BY <1>1, <1>2, <1>3

\* An import begins in peace or not: what the directory is then is settled.
LEMMA UnpackKeepsImports ==
    ASSUME ImportsInv, NEW i \in Importers, Unpack(i)
    PROVE  ImportsInv'
<1>0. PICK c \in Contents : \E dir \in Packed(c) :
        /\ staged' = [staged EXCEPT ![i] = dir]
        /\ imports' = [imports EXCEPT ![i] = [Idle EXCEPT !.pc = "unpacked", !.data = dir.data]]
  BY DEF Unpack
<1>1. PICK dir \in Packed(c) :
        /\ staged' = [staged EXCEPT ![i] = dir]
        /\ imports' = [imports EXCEPT ![i] = [Idle EXCEPT !.pc = "unpacked", !.data = dir.data]]
  BY <1>0
<1>2. /\ ImportsTypeOK /\ up /\ up' /\ lock = {} /\ lock' = {i}
      /\ settled' = [settled EXCEPT !.peace = @ /\ Peaceful]
      /\ UNCHANGED <<kind, deletion, running, up, target, backups, marker, budget, owed>>
      /\ \A o \in Importers : imports[o] = Idle
  BY DEF Unpack, At, Others, AcquireImportLock, ImportsInv, LocksAreHeld
<1> DEFINE x == [Idle EXCEPT !.pc = "unpacked", !.data = dir.data]
<1>3. /\ dir \in Dirs /\ dir # NoDir /\ dir.data \in Contents \cup {Absent}
      /\ x \in ImportStates /\ x.pc = "unpacked" /\ x.backup = NoBackup /\ x.data = dir.data
  <2>1. dir \in Dirs /\ dir # NoDir
    BY DirsAre
  <2>2. dir.data \in Contents \cup {Absent}
    BY <2>1 DEF Dirs
  <2>3. Idle \in ImportStates /\ Idle.backup = NoBackup
    BY ImportsAssumption DEF Idle, ImportStates, ImportSteps, NoBackup
  <2>4. x \in ImportStates /\ x.pc = "unpacked" /\ x.backup = Idle.backup /\ x.data = dir.data
    BY <2>2, <2>3 DEF ImportStates, ImportSteps
  <2> QED
    BY <2>1, <2>2, <2>3, <2>4
<1> HIDE DEF x
<1>4. /\ imports \in [Importers -> ImportStates] /\ imports' = [imports EXCEPT ![i] = x]
      /\ staged \in [Importers -> Dirs \cup {NoDir}]
      /\ settled \in [dir : Dirs \cup {NoDir}, peace : BOOLEAN]
  BY <1>1, <1>2 DEF x, ImportsTypeOK, ImportStates
<1>5. /\ imports' \in [Importers -> ImportStates] /\ imports'[i] = x
      /\ \A o \in Importers \ {i} : imports'[o] = Idle
      /\ staged' \in [Importers -> Dirs \cup {NoDir}] /\ staged'[i] = dir
  BY <1>1, <1>2, <1>3, <1>4
<1>6. /\ settled' \in [dir : Dirs \cup {NoDir}, peace : BOOLEAN]
      /\ settled'.dir = settled.dir
      /\ settled'.peace => settled.peace /\ Calm
  <2>1. (settled.peace /\ Peaceful) \in BOOLEAN
    OBVIOUS
  <2>2. settled' = [settled EXCEPT !.peace = (settled.peace /\ Peaceful)]
    BY <1>2
  <2>3. settled'.dir = settled.dir /\ settled'.peace = (settled.peace /\ Peaceful)
    BY <1>4, <2>2
  <2>4. settled' \in [dir : Dirs \cup {NoDir}, peace : BOOLEAN]
    BY <1>4, <2>1, <2>2
  <2> QED
    BY <2>3, <2>4 DEF Peaceful, Calm
<1>7. ImportsTypeOK'
  <2>1. Cardinality(lock') = 1 /\ lock' \in SUBSET Importers
    BY <1>2, FS_Singleton
  <2> QED
    BY <1>2, <1>5, <1>6, <2>1 DEF ImportsTypeOK, ImportStates
<1>8. BackupsAreTold'
  <2>1. imports'[i].backup < NextBackup' /\ NextBackup' = NextBackup
    BY <1>2, <1>3, <1>5, NextBackupType DEF NextBackup, NoBackup
  <2>2. \A o \in Importers : imports'[o].backup < NextBackup'
    BY <1>2, <1>3, <1>5, <2>1 DEF Idle
  <2> QED
    BY <1>2, <2>1, <2>2 DEF ImportsInv, BackupsAreTold
<1>9. MarkersAreSpent'
  BY <1>2 DEF ImportsInv, MarkersAreSpent, Made, Recovers
<1>10. StepIsMarked(i)' /\ DataIsKept(i)'
  BY <1>3, <1>5 DEF StepIsMarked, DataIsKept
<1>11. settled'.peace => StepIsSettled(i)'
  <2>1. settled'.peace => IsSettled /\ Calm
    BY <1>2, <1>6 DEF ImportsInv, DirIsSettled
  <2>2. settled'.peace => IsSettled' /\ Calm'
    BY <1>2, <1>6, <2>1 DEF IsSettled, Held, LastBackup, Calm
  <2> QED
    BY <1>3, <1>5, <2>2 DEF StepIsSettled
<1> QED
  BY <1>2, <1>3, <1>5, <1>7, <1>8, <1>9, <1>10, <1>11, HolderKeepsImports

\* An archive without data takes that of the directory, which is settled if it is in peace.
LEMMA KeepDataKeepsImports ==
    ASSUME ImportsInv, NEW i \in Importers, KeepData(i)
    PROVE  ImportsInv'
<1>1. /\ imports[i].pc = "unpacked" /\ up /\ To(i, "ready") /\ ImportsTypeOK
      /\ UNCHANGED <<kind, deletion, running, up, target, backups, marker, lock, budget,
                     settled, owed>>
  BY DEF KeepData, At, Others, ImportsInv
<1>2. /\ lock = {i} /\ imports[i] \in ImportStates
      /\ \A o \in Importers \ {i} : imports[o] = Idle
      /\ StepIsMarked(i) /\ DataIsKept(i) /\ (settled.peace => StepIsSettled(i))
  BY <1>1, HolderIs
<1>3. /\ imports' \in [Importers -> ImportStates]
      /\ imports'[i].pc = "ready" /\ imports'[i].backup = imports[i].backup
      /\ imports'[i].data = imports[i].data
      /\ \A o \in Importers \ {i} : imports'[o] = imports[o]
  BY <1>1, ToIs DEF ImportSteps
<1> DEFINE takes == /\ kind = "service" /\ staged[i].data = Absent
                    /\ target # NoDir /\ target.data # Absent
<1> DEFINE new == IF takes THEN [staged[i] EXCEPT !.data = target.data] ELSE staged[i]
<1>4. /\ staged[i] \in Dirs /\ target \in Dirs \cup {NoDir} /\ staged[i].data = imports[i].data
      /\ staged \in [Importers -> Dirs \cup {NoDir}] /\ staged[i] # NoDir
  BY <1>1, <1>2 DEF ImportsTypeOK, StepIsMarked, DataIsKept
<1>5. /\ new \in Dirs /\ staged' = [staged EXCEPT ![i] = new]
      /\ new.data = IF takes THEN target.data ELSE imports[i].data
  <2>1. new \in Dirs /\ new.data = IF takes THEN target.data ELSE imports[i].data
    BY <1>4 DEF Dirs
  <2>2. CASE takes
    BY <2>1, <2>2 DEF KeepData
  <2>3. CASE ~takes
    BY <1>4, <2>1, <2>3 DEF KeepData
  <2> QED
    BY <2>2, <2>3
<1> HIDE DEF new
<1>6. staged' \in [Importers -> Dirs \cup {NoDir}] /\ staged'[i] = new /\ new # NoDir
  BY <1>4, <1>5, DirsAre
<1>7. ImportsTypeOK'
  BY <1>1, <1>3, <1>6 DEF ImportsTypeOK, ImportStates
<1>8. BackupsAreTold'
  BY <1>1, <1>3 DEF ImportsInv, BackupsAreTold, NextBackup
<1>9. MarkersAreSpent'
  BY <1>1, <1>2 DEF ImportsInv, MarkersAreSpent, Made, Recovers
<1>10. StepIsMarked(i)'
  BY <1>1, <1>2, <1>3, <1>6 DEF StepIsMarked
<1>11. DataIsKept(i)'
  <2>1. ASSUME kind = "service", imports[i].data = Absent, settled.peace, ~owed
        PROVE  new.data = settled.dir.data
    <3>1. target = settled.dir
      BY <1>1, <1>2, <2>1 DEF StepIsSettled, IsSettled
    <3> QED
      BY <1>4, <1>5, <2>1, <3>1, DirsAre
  <2> QED
    BY <1>1, <1>3, <1>6, <2>1 DEF DataIsKept
<1>12. settled'.peace => StepIsSettled(i)'
  BY <1>1, <1>2, <1>3 DEF StepIsSettled, IsSettled, Held, LastBackup, Calm
<1> QED
  BY <1>1, <1>2, <1>3, <1>7, <1>8, <1>9, <1>10, <1>11, <1>12, HolderKeepsImports

LEMMA PrepareKeepsImports ==
    ASSUME ImportsInv, NEW i \in Importers, Prepare(i)
    PROVE  ImportsInv'
<1>1. /\ imports[i].pc = "ready" /\ up /\ To(i, "prepared") /\ ImportsTypeOK /\ marker' = {Unnamed}
      /\ UNCHANGED <<kind, deletion, running, up, target, backups, staged, lock, budget,
                     settled, owed>>
  BY DEF Prepare, WriteMarker, At, Others, ImportsInv
<1>2. /\ lock = {i} /\ imports[i] \in ImportStates
      /\ \A o \in Importers \ {i} : imports[o] = Idle
      /\ StepIsMarked(i) /\ DataIsKept(i) /\ (settled.peace => StepIsSettled(i))
  BY <1>1, HolderIs
<1>3. /\ imports' \in [Importers -> ImportStates]
      /\ imports'[i].pc = "prepared" /\ imports'[i].backup = imports[i].backup
      /\ imports'[i].data = imports[i].data
      /\ \A o \in Importers \ {i} : imports'[o] = imports[o]
  BY <1>1, ToIs DEF ImportSteps
<1>4. /\ NextBackup \in 1..(MaxBackups + 1) /\ MaxBackups \in Nat /\ Unnamed = 0
      /\ \A b \in backups : b.n # 0
  BY <1>1, NextBackupType DEF Unnamed
<1>5. ImportsTypeOK'
  <2>1. marker' \in SUBSET (0..MaxBackups) /\ Cardinality(marker') <= 1
    BY <1>1, <1>4, OneNumber
  <2> QED
    BY <1>1, <1>3, <2>1 DEF ImportsTypeOK, ImportStates
<1>6. BackupsAreTold'
  BY <1>1, <1>3, <1>4 DEF ImportsInv, BackupsAreTold, NextBackup
<1>7. MarkersAreSpent'
  BY <1>1, <1>4 DEF MarkersAreSpent, Made
<1>8. StepIsMarked(i)' /\ DataIsKept(i)'
  BY <1>1, <1>2, <1>3 DEF StepIsMarked, DataIsKept
<1>9. settled'.peace => StepIsSettled(i)'
  BY <1>1, <1>2, <1>3 DEF StepIsSettled, IsSettled, Held, LastBackup, Calm
<1> QED
  BY <1>1, <1>2, <1>3, <1>5, <1>6, <1>7, <1>8, <1>9, HolderKeepsImports

\* The number of the backup is new, and none is made before it is in the marker.
LEMMA NameBackupKeepsImports ==
    ASSUME ImportsInv, NEW i \in Importers, NameBackup(i)
    PROVE  ImportsInv'
<1>1. /\ imports[i].pc = "prepared" /\ up /\ ImportsTypeOK
      /\ UNCHANGED <<kind, deletion, running, up, target, backups, staged, lock, settled, owed>>
  BY DEF NameBackup, At, Others, ImportsInv
<1>2. /\ lock = {i} /\ imports[i] \in ImportStates
      /\ \A o \in Importers \ {i} : imports[o] = Idle
      /\ StepIsMarked(i) /\ DataIsKept(i) /\ (settled.peace => StepIsSettled(i))
  BY <1>1, HolderIs
<1>3. /\ NextBackup \in 1..(MaxBackups + 1) /\ MaxBackups \in Nat /\ NoBackup = 0 /\ Unnamed = 0
      /\ \A b \in backups : b.n # 0 /\ b.n \in Nat
      /\ imports[i].backup = NoBackup /\ marker = {Unnamed} /\ staged[i] # NoDir
  BY <1>1, <1>2, NextBackupType DEF NoBackup, Unnamed, StepIsMarked
<1>4. CASE target = NoDir
  <2>1. To(i, "activate") /\ UNCHANGED <<marker, budget>>
    BY <1>4 DEF NameBackup
  <2>2. /\ imports' \in [Importers -> ImportStates]
        /\ imports'[i].pc = "activate" /\ imports'[i].backup = imports[i].backup
        /\ imports'[i].data = imports[i].data
        /\ \A o \in Importers \ {i} : imports'[o] = imports[o]
    BY <1>1, <2>1, ToIs DEF ImportSteps
  <2>3. ImportsTypeOK'
    BY <1>1, <2>1, <2>2 DEF ImportsTypeOK, ImportStates
  <2>4. BackupsAreTold' /\ MarkersAreSpent'
    BY <1>1, <1>3, <2>1, <2>2 DEF ImportsInv, BackupsAreTold, NextBackup, MarkersAreSpent, Made
  <2>5. StepIsMarked(i)' /\ DataIsKept(i)'
    BY <1>1, <1>2, <1>3, <2>1, <2>2 DEF StepIsMarked, DataIsKept
  <2>6. settled'.peace => StepIsSettled(i)'
    <3>1. settled.peace => Calm /\ IsSettled
      BY <1>1, <1>2 DEF StepIsSettled
    <3>2. settled.peace => Calm' /\ IsSettled'
      BY <1>1, <3>1 DEF IsSettled, Held, LastBackup, Calm
    <3> QED
      BY <1>1, <1>3, <1>4, <2>2, <3>2 DEF StepIsSettled
  <2> QED
    BY <1>1, <1>2, <2>2, <2>3, <2>4, <2>5, <2>6, HolderKeepsImports
<1>5. CASE target # NoDir
  <2>1. /\ Spends("backups") /\ marker' = {NextBackup}
        /\ imports' = [imports EXCEPT ![i].pc = "backup", ![i].backup = NextBackup]
    BY <1>5 DEF NameBackup, WriteMarker
  <2>2. /\ budget' \in Budgets /\ NextBackup \in 1..MaxBackups /\ NextBackup' = NextBackup + 1
    <3>1. budget' \in Budgets /\ budget.backups > 0 /\ budget'.backups = budget.backups - 1
      BY <1>1, <2>1, SpendsType
    <3>2. budget.backups \in Nat
      BY <1>1 DEF ImportsTypeOK
    <3> QED
      BY <1>1, <1>3, <3>1, <3>2, NextBackupType DEF NextBackup
  <2> DEFINE x == [imports[i] EXCEPT !.pc = "backup", !.backup = NextBackup]
  <2>3. /\ x \in ImportStates /\ x.pc = "backup" /\ x.backup = NextBackup
        /\ x.data = imports[i].data
    <3>1. NextBackup \in 0..MaxBackups
      BY <1>3, <2>2
    <3> QED
      BY <1>2, <3>1 DEF ImportStates, ImportSteps
  <2>4. imports' = [imports EXCEPT ![i] = x] /\ imports \in [Importers -> ImportStates]
    BY <1>1, <2>1 DEF ImportsTypeOK, ImportStates
  <2> HIDE DEF x
  <2>5. /\ imports' \in [Importers -> ImportStates] /\ imports'[i] = x
        /\ \A o \in Importers \ {i} : imports'[o] = imports[o]
    BY <2>3, <2>4
  <2>6. ImportsTypeOK'
    <3>1. marker' \in SUBSET (0..MaxBackups) /\ Cardinality(marker') <= 1
      BY <1>3, <2>1, <2>2, OneNumber
    <3> QED
      BY <1>1, <2>2, <2>5, <3>1 DEF ImportsTypeOK, ImportStates, Budgets
  <2>7. \A b \in backups : b.n < NextBackup
    BY DEF ImportsInv, BackupsAreTold
  <2>8. BackupsAreTold'
    <3>1. \A b \in backups' : b.n < NextBackup'
      BY <1>1, <1>3, <2>2, <2>7
    <3>2. \A o \in Importers : imports'[o].backup < NextBackup'
      <4>1. imports'[i].backup < NextBackup'
        BY <2>2, <2>3, <2>5
      <4>2. ASSUME NEW o \in Importers \ {i} PROVE imports'[o].backup < NextBackup'
        BY <1>2, <1>3, <2>2, <2>5 DEF Idle
      <4> QED
        BY <4>1, <4>2
    <3>3. marker' # {} => \E n \in 0..(NextBackup' - 1) : marker' = {n}
      BY <2>1, <2>2
    <3> QED
      BY <1>1, <3>1, <3>2, <3>3 DEF ImportsInv, BackupsAreTold
  <2>9. NextBackup \notin Made
    BY <1>3, <2>7 DEF Made
  <2>10. MarkersAreSpent'
    BY <1>1, <2>1, <2>9 DEF MarkersAreSpent, Made
  <2>11. StepIsMarked(i)' /\ DataIsKept(i)'
    BY <1>1, <1>2, <1>3, <2>1, <2>2, <2>3, <2>5, <2>7, <2>9 DEF StepIsMarked, DataIsKept, Made
  <2>12. settled'.peace => StepIsSettled(i)'
    BY <1>1, <1>2, <1>5, <2>3, <2>5 DEF StepIsSettled, IsSettled, Calm
  <2> QED
    BY <1>1, <1>2, <2>3, <2>5, <2>6, <2>8, <2>10, <2>11, <2>12, HolderKeepsImports
<1> QED
  BY <1>4, <1>5

\* The backup that is made is that of the marker, and the last.
LEMMA MoveToBackupKeepsImports ==
    ASSUME ImportsInv, NEW i \in Importers, MoveToBackup(i)
    PROVE  ImportsInv'
<1>1. /\ imports[i].pc = "backup" /\ up /\ ImportsTypeOK
      /\ UNCHANGED <<kind, deletion, running, up, marker, staged, lock, budget, settled, owed>>
  BY DEF MoveToBackup, At, Others, ImportsInv
<1>2. /\ lock = {i} /\ imports[i] \in ImportStates
      /\ \A o \in Importers \ {i} : imports[o] = Idle
      /\ StepIsMarked(i) /\ DataIsKept(i) /\ (settled.peace => StepIsSettled(i))
  BY <1>1, HolderIs
<1> DEFINE n == imports[i].backup
<1>3. /\ n # NoBackup /\ marker = {n} /\ n \notin Made /\ staged[i] # NoDir
      /\ \A c \in backups : c.by = "import" => c.n < n
      /\ settled.peace => Calm /\ target = settled.dir /\ target # NoDir
  BY <1>1, <1>2 DEF StepIsMarked, StepIsSettled
<1>4. /\ n \in 1..MaxBackups /\ n < NextBackup /\ NextBackup' = NextBackup
      /\ \A b \in backups : b.n \in Nat
  <2>1. MaxBackups \in Nat /\ n \in 0..MaxBackups
    BY <1>2, ImportsAssumption DEF ImportStates
  <2> QED
    BY <1>1, <1>3, <2>1, NextBackupType DEF NoBackup, ImportsInv, BackupsAreTold, NextBackup
<1>5. CASE target = NoDir
  <2>1. To(i, "failed") /\ UNCHANGED <<target, backups>>
    BY <1>5 DEF MoveToBackup
  <2>2. /\ imports' \in [Importers -> ImportStates]
        /\ imports'[i].pc = "failed" /\ imports'[i].backup = n
        /\ \A o \in Importers \ {i} : imports'[o] = imports[o]
    BY <1>1, <2>1, ToIs DEF ImportSteps
  <2> HIDE DEF n
  <2>3. ImportsTypeOK'
    BY <1>1, <2>1, <2>2 DEF ImportsTypeOK, ImportStates
  <2>4. BackupsAreTold' /\ MarkersAreSpent'
    BY <1>1, <1>3, <1>4, <2>1, <2>2 DEF ImportsInv, BackupsAreTold, MarkersAreSpent, Made
  <2>5. StepIsMarked(i)' /\ DataIsKept(i)' /\ ~settled'.peace
    BY <1>1, <1>3, <1>5, <2>2 DEF StepIsMarked, DataIsKept
  <2> QED
    BY <1>1, <1>2, <2>2, <2>3, <2>4, <2>5, HolderKeepsImports
<1>6. CASE target # NoDir
  <2>0. PICK new : new = [n |-> n, by |-> "import", dir |-> target]
    OBVIOUS
  <2>1. To(i, "activate") /\ backups' = backups \cup {new} /\ target' = NoDir
    BY <1>6, <2>0 DEF MoveToBackup
  <2>2. /\ imports' \in [Importers -> ImportStates]
        /\ imports'[i].pc = "activate" /\ imports'[i].backup = n
        /\ imports'[i].data = imports[i].data
        /\ \A o \in Importers \ {i} : imports'[o] = imports[o]
    BY <1>1, <2>1, ToIs DEF ImportSteps
  <2>3. /\ new.n = n /\ new.by = "import" /\ new.dir = target
        /\ new \in [n : 1..MaxBackups, by : {"import", "delete"}, dir : Dirs]
    BY <1>1, <1>4, <1>6, <2>0 DEF ImportsTypeOK
  <2> HIDE DEF n
  <2>4. ImportsTypeOK'
    BY <1>1, <2>1, <2>2, <2>3 DEF ImportsTypeOK, ImportStates
  <2>5. BackupsAreTold'
    BY <1>1, <1>3, <1>4, <2>1, <2>2, <2>3 DEF ImportsInv, BackupsAreTold, Made
  <2>6. MarkersAreSpent'
    BY <1>1, <1>2, <2>2 DEF MarkersAreSpent
  <2>7. LastBackup(new)'
    <3>1. \A c \in backups' : c.by = "import" => c.n <= new.n
      BY <1>3, <1>4, <2>1, <2>3
    <3> QED
      BY <2>1, <2>3, <3>1 DEF LastBackup
  <2>8. StepIsMarked(i)' /\ DataIsKept(i)'
    BY <1>1, <1>2, <1>3, <2>1, <2>2, <2>3, <2>7 DEF StepIsMarked, DataIsKept
  <2>9. settled'.peace => StepIsSettled(i)'
    BY <1>1, <1>3, <2>1, <2>2, <2>3, <2>7 DEF StepIsSettled, Calm
  <2> QED
    BY <1>1, <1>2, <2>2, <2>4, <2>5, <2>6, <2>8, <2>9, HolderKeepsImports
<1> QED
  BY <1>5, <1>6

\* The backup is moved back if nothing is in its way; if something is, the import says so.
LEMMA RollBackKeepsImports ==
    ASSUME ImportsInv, NEW i \in Importers, imports[i].pc = "activate", RollBack(i), To(i, "failed"),
           UNCHANGED <<kind, deletion, running, up, staged, lock, settled, marker>>,
           budget' \in Budgets, budget'.backups = budget.backups
    PROVE  ImportsInv'
<1>1. ImportsTypeOK /\ BackupsAreTold /\ NextBackup' = NextBackup
  BY DEF ImportsInv, NextBackup
<1>2. /\ lock = {i} /\ imports[i] \in ImportStates /\ up
      /\ \A o \in Importers \ {i} : imports[o] = Idle
      /\ StepIsMarked(i) /\ (settled.peace => StepIsSettled(i))
  BY HolderIs
<1> DEFINE n == imports[i].backup
<1>3. /\ marker = {n}
      /\ n # NoBackup => \E b \in backups : LastBackup(b) /\ b.n = n
      /\ settled.peace => Calm /\ target = NoDir
      /\ settled.peace /\ n = NoBackup => IsSettled
      /\ settled.peace /\ n # NoBackup => \E b \in backups : b.n = n /\ b.dir = settled.dir
  BY <1>2 DEF StepIsMarked, StepIsSettled
<1>4. NoBackup \notin Made
  BY <1>1, NextBackupType DEF Made, NoBackup
<1>5. /\ imports' \in [Importers -> ImportStates]
      /\ imports'[i].pc = "failed" /\ imports'[i].backup = n
      /\ \A o \in Importers \ {i} : imports'[o] = imports[o]
  BY <1>1, ToIs DEF ImportSteps
<1>6. StepIsMarked(i)' /\ DataIsKept(i)'
  BY <1>5 DEF StepIsMarked, DataIsKept
<1>7. n < NextBackup
  BY <1>1 DEF BackupsAreTold
<1>8. CASE n \in Made /\ Free
  <2>1. PICK b \in backups : b.n = n /\ (settled.peace => b.dir = settled.dir)
    <3>1. PICK b \in backups : b.n = n
      BY <1>8 DEF Made
    <3>2. settled.peace => b.dir = settled.dir
      BY <1>1, <1>3, <1>4, <1>8, <3>1 DEF BackupsAreTold
    <3> QED
      BY <3>1, <3>2
  <2>2. target' = b.dir /\ b.dir \in Dirs /\ backups' = {c \in backups : c.n # n} /\ UNCHANGED owed
    BY <1>1, <1>8, <2>1, BackupOfIs DEF RollBack
  <2> HIDE DEF n
  <2>3. ImportsTypeOK'
    BY <1>1, <1>5, <2>2 DEF ImportsTypeOK, ImportStates, Budgets
  <2>4. BackupsAreTold'
    BY <1>1, <1>5, <1>7, <2>2 DEF BackupsAreTold
  <2>5. MarkersAreSpent'
    BY <1>3, <2>2 DEF MarkersAreSpent, Made
  <2>6. settled'.peace => StepIsSettled(i)'
    BY <1>3, <1>5, <2>1, <2>2 DEF StepIsSettled, IsSettled, Calm
  <2> QED
    BY <1>2, <1>5, <1>6, <2>3, <2>4, <2>5, <2>6, HolderKeepsImports
<1>9. CASE ~(n \in Made /\ Free)
  <2>1. owed' = (owed \/ n # NoBackup) /\ UNCHANGED <<target, backups>>
    BY <1>9 DEF RollBack
  <2>2. n # NoBackup => n \in Made /\ ~Free
    BY <1>3, <1>9 DEF Made
  <2>3. settled.peace => n = NoBackup /\ IsSettled /\ Calm
    BY <1>3, <2>2 DEF Free
  <2> HIDE DEF n
  <2>4. ImportsTypeOK'
    <3>1. owed' \in BOOLEAN
      BY <2>1
    <3> QED
      BY <1>1, <1>5, <2>1, <3>1 DEF ImportsTypeOK, ImportStates, Budgets
  <2>5. BackupsAreTold'
    BY <1>1, <1>5, <1>7, <2>1 DEF BackupsAreTold
  <2>6. MarkersAreSpent'
    BY <1>3, <1>4, <2>1 DEF MarkersAreSpent, Made
  <2>7. settled'.peace => StepIsSettled(i)'
    <3>1. settled.peace => IsSettled' /\ Calm'
      BY <2>1, <2>3 DEF IsSettled, Held, LastBackup, Calm
    <3> QED
      BY <1>5, <3>1 DEF StepIsSettled
  <2> QED
    BY <1>2, <1>5, <1>6, <2>4, <2>5, <2>6, <2>7, HolderKeepsImports
<1> QED
  BY <1>8, <1>9

LEMMA SameData ==
    ASSUME NEW d \in Dirs, NEW data, data = d.data
    PROVE  [d EXCEPT !.data = data] = d
BY DEF Dirs

\* What has been put in place is what was to be: with the data of the service, if it was in peace.
LEMMA ActivateKeepsImports ==
    ASSUME ImportsInv, NEW i \in Importers, Activate(i)
    PROVE  ImportsInv'
<1>1. /\ imports[i].pc = "activate" /\ up /\ ImportsTypeOK /\ budget \in Budgets
      /\ UNCHANGED <<kind, deletion, running, up, marker, lock, budget>>
  BY DEF Activate, At, Others, ImportsInv, ImportsTypeOK, Budgets
<1>2. CASE Free
  <2>1. /\ target' = staged[i] /\ staged' = [staged EXCEPT ![i] = NoDir] /\ owed' = FALSE
        /\ settled' = [dir |-> Imported(i), peace |-> Calm]
        /\ To(i, "done") /\ UNCHANGED backups
    BY <1>2 DEF Activate, Calm
  <2>2. /\ lock = {i} /\ imports[i] \in ImportStates
        /\ \A o \in Importers \ {i} : imports[o] = Idle
        /\ StepIsMarked(i) /\ DataIsKept(i)
    BY <1>1, HolderIs
  <2>3. /\ imports' \in [Importers -> ImportStates]
        /\ imports'[i].pc = "done" /\ imports'[i].backup = imports[i].backup
        /\ \A o \in Importers \ {i} : imports'[o] = imports[o]
    BY <1>1, <2>1, ToIs DEF ImportSteps
  <2>4. staged[i] \in Dirs /\ staged[i] # NoDir
    BY <1>1, <2>2 DEF ImportsTypeOK, StepIsMarked
  <2>5. Imported(i) = staged[i]
    <3>1. kind = "service" /\ imports[i].data = Absent /\ settled.peace /\ ~owed =>
            settled.dir.data = staged[i].data
      BY <1>1, <2>2 DEF DataIsKept
    <3> QED
      BY <2>4, <3>1, SameData DEF Imported
  <2>6. settled'.dir = target' /\ settled'.peace = Calm /\ Calm \in BOOLEAN
    BY <2>1, <2>5 DEF Calm
  <2>7. ImportsTypeOK'
    <3>1. settled' \in [dir : Dirs \cup {NoDir}, peace : BOOLEAN]
      BY <2>1, <2>4, <2>5, <2>6
    <3> QED
      BY <1>1, <2>1, <2>3, <2>4, <3>1 DEF ImportsTypeOK, ImportStates
  <2>8. BackupsAreTold' /\ MarkersAreSpent'
    BY <1>1, <2>1, <2>2, <2>3 DEF ImportsInv, BackupsAreTold, NextBackup, MarkersAreSpent
  <2>9. StepIsMarked(i)' /\ DataIsKept(i)'
    BY <2>1, <2>3 DEF StepIsMarked, DataIsKept
  <2>10. settled'.peace => StepIsSettled(i)'
    BY <1>1, <2>1, <2>3, <2>4, <2>6 DEF StepIsSettled, Calm
  <2> QED
    BY <1>1, <2>2, <2>3, <2>7, <2>8, <2>9, <2>10, HolderKeepsImports
<1>3. CASE ~Free
  BY <1>1, <1>3, RollBackKeepsImports DEF Activate
<1> QED
  BY <1>2, <1>3

\* A call fails: nothing is lost that the import does not say.
LEMMA FailKeepsImports ==
    ASSUME ImportsInv, NEW i \in Importers, Fail(i)
    PROVE  ImportsInv'
<1> DEFINE pc == imports[i].pc
<1> DEFINE n == imports[i].backup
<1>1. /\ pc \in {"unpacked", "ready", "prepared", "backup", "activate"} /\ up /\ ImportsTypeOK
      /\ Spends("faults")
      /\ UNCHANGED <<kind, deletion, running, up, marker, staged, lock, settled>>
  BY DEF Fail, At, Others, ImportsInv
<1>2. /\ budget' \in Budgets /\ budget'.backups = budget.backups /\ NextBackup' = NextBackup
  BY <1>1, SpendsType DEF NextBackup
<1>3. /\ lock = {i} /\ imports[i] \in ImportStates
      /\ \A o \in Importers \ {i} : imports[o] = Idle
      /\ StepIsMarked(i) /\ (settled.peace => StepIsSettled(i))
  BY <1>1, HolderIs
<1>4. PICK new \in {"refused", "failed"} : To(i, new) /\ (pc = "activate" => new = "failed")
  BY <1>1 DEF Fail
<1>5. /\ imports' \in [Importers -> ImportStates]
      /\ imports'[i].pc = new /\ imports'[i].backup = n
      /\ \A o \in Importers \ {i} : imports'[o] = imports[o]
  BY <1>1, <1>4, ToIs DEF ImportSteps
<1>6. StepIsMarked(i)' /\ DataIsKept(i)'
  BY <1>5 DEF StepIsMarked, DataIsKept
<1>7. CASE pc # "activate"
  <2>1. UNCHANGED <<target, backups, owed>>
    BY <1>7 DEF Fail
  <2>2. settled.peace => IsSettled /\ Calm
    BY <1>1, <1>3, <1>7 DEF StepIsSettled, IsSettled
  <2>3. ImportsTypeOK'
    BY <1>1, <1>2, <1>5, <2>1 DEF ImportsTypeOK, ImportStates, Budgets
  <2>4. BackupsAreTold' /\ MarkersAreSpent'
    BY <1>1, <1>2, <1>3, <1>5, <1>7, <2>1
       DEF ImportsInv, BackupsAreTold, MarkersAreSpent, Recovers, Made
  <2>5. settled.peace => IsSettled' /\ Calm'
    BY <1>1, <2>1, <2>2 DEF IsSettled, Held, LastBackup, Calm
  <2>6. settled'.peace => StepIsSettled(i)'
    BY <1>1, <1>5, <2>5 DEF StepIsSettled
  <2> QED
    BY <1>1, <1>3, <1>5, <1>6, <2>3, <2>4, <2>6, HolderKeepsImports
<1>8. CASE pc = "activate" /\ RollBack(i)
  BY <1>1, <1>2, <1>4, <1>8, RollBackKeepsImports
<1>9. CASE pc = "activate" /\ n # NoBackup /\ owed' = TRUE /\ UNCHANGED <<target, backups>>
  <2>1. settled.peace => Calm /\ target = NoDir /\ Held
    BY <1>3, <1>9 DEF StepIsSettled, Held
  <2>2. settled.peace => IsSettled' /\ Calm'
    BY <1>1, <1>9, <2>1 DEF IsSettled, Held, LastBackup, Calm
  <2>3. ImportsTypeOK'
    BY <1>1, <1>2, <1>5, <1>9 DEF ImportsTypeOK, ImportStates, Budgets
  <2>4. BackupsAreTold' /\ MarkersAreSpent'
    BY <1>1, <1>2, <1>5, <1>9 DEF ImportsInv, BackupsAreTold, MarkersAreSpent
  <2>5. settled'.peace => StepIsSettled(i)'
    BY <1>1, <1>5, <2>2 DEF StepIsSettled
  <2> QED
    BY <1>1, <1>3, <1>5, <1>6, <2>3, <2>4, <2>5, HolderKeepsImports
<1> QED
  BY <1>1, <1>7, <1>8, <1>9 DEF Fail

\* An import that returns gives the lock back: the directory is settled.
LEMMA ReturnKeepsImports ==
    ASSUME ImportsInv, NEW i \in Importers, up, imports[i].pc \in {"done", "failed", "refused"},
           Returns(i, backups'), backups' \subseteq backups, marker' = {} \/ marker' = marker,
           imports[i].pc = "done" => marker' = {},
           imports[i].pc # "done" => UNCHANGED backups
    PROVE  ImportsInv'
<1>1. /\ ImportsTypeOK /\ BackupsAreTold /\ MarkersAreSpent
      /\ staged' = [staged EXCEPT ![i] = NoDir] /\ imports' = [imports EXCEPT ![i] = Idle]
      /\ lock' = lock \ {i}
      /\ UNCHANGED <<kind, deletion, running, up, target, budget, settled, owed>>
  BY DEF Returns, ImportsInv
<1>2. /\ lock = {i} /\ (settled.peace => StepIsSettled(i))
      /\ \A o \in Importers \ {i} : imports[o] = Idle
  BY HolderIs
<1>3. /\ lock' = {} /\ Idle \in ImportStates /\ NoDir \notin Dirs
      /\ imports' \in [Importers -> ImportStates]
      /\ \A o \in Importers : imports'[o] = Idle
      /\ staged' \in [Importers -> Dirs \cup {NoDir}]
  <2>1. Idle \in ImportStates
    BY ImportsAssumption DEF Idle, ImportStates, ImportSteps, NoBackup
  <2>2. imports \in [Importers -> ImportStates]
    BY <1>1 DEF ImportsTypeOK, ImportStates
  <2> QED
    BY <1>1, <1>2, <2>1, <2>2, DirsAre DEF ImportsTypeOK
<1>4. ImportsTypeOK'
  <2>1. \A S : S = {} => Cardinality(S) <= 1
    BY FS_EmptySet
  <2>2. Cardinality(marker) <= 1 /\ marker \in SUBSET (0..MaxBackups)
    BY <1>1 DEF ImportsTypeOK
  <2>3. Cardinality(marker') <= 1 /\ marker' \in SUBSET (0..MaxBackups)
    BY <2>1, <2>2
  <2>4. Cardinality(lock') <= 1
    BY <1>3, <2>1
  <2> QED
    BY <1>1, <1>3, <2>3, <2>4 DEF ImportsTypeOK, ImportStates
<1>5. LocksAreHeld'
  BY <1>1, <1>3 DEF LocksAreHeld
<1>6. BackupsAreTold'
  <2>1. \A o \in Importers : imports'[o].backup < NextBackup'
    BY <1>1, <1>3, NextBackupType DEF NextBackup, Idle, NoBackup
  <2> QED
    BY <1>1, <2>1 DEF BackupsAreTold, NextBackup
<1>7. MarkersAreSpent'
  BY <1>1, <1>2 DEF MarkersAreSpent, Made, Recovers
<1>8. DirIsSettled'
  <2>1. settled.peace => IsSettled'
    <3>1. CASE imports[i].pc = "done"
      BY <1>1, <1>2, <3>1 DEF StepIsSettled, IsSettled
    <3>2. CASE imports[i].pc # "done"
      <4>1. UNCHANGED backups /\ (settled.peace => IsSettled)
        BY <1>2, <3>2 DEF StepIsSettled
      <4> QED
        BY <1>1, <4>1 DEF IsSettled, Held, LastBackup
    <3> QED
      BY <3>1, <3>2
  <2> QED
    BY <1>1, <1>3, <2>1 DEF DirIsSettled
<1> QED
  BY <1>3, <1>4, <1>5, <1>6, <1>7, <1>8 DEF ImportsInv

LEMMA ReturnsKeepImports ==
    ASSUME ImportsInv, NEW i \in Importers, Succeed(i) \/ GiveUp(i)
    PROVE  ImportsInv'
<1>1. CASE Succeed(i)
  <2>1. PICK old \in SUBSET backups : Returns(i, CleanupImportBackups(old))
    BY <1>1 DEF Succeed
  <2>2. backups' = backups \ old /\ Returns(i, backups')
    BY <2>1 DEF Returns, CleanupImportBackups
  <2> QED
    BY <1>1, <2>2, ReturnKeepsImports DEF Succeed, At
<1>2. CASE GiveUp(i)
  <2>1. Returns(i, backups') /\ UNCHANGED backups
    BY <1>2 DEF GiveUp, Returns
  <2> QED
    BY <1>2, <2>1, ReturnKeepsImports DEF GiveUp
<1> QED
  BY <1>1, <1>2

\* Wherever supd is killed, the directory stays, or is lost as the import has said, or can be
\* had from the backup the marker names.
LEMMA CrashKeepsImports ==
    ASSUME ImportsInv, Crash
    PROVE  ImportsInv'
<1>1. /\ ImportsTypeOK /\ up /\ Spends("crashes") /\ up' = FALSE
      /\ imports' = [i \in Importers |-> Idle] /\ lock' = {} /\ deletion' = "idle"
      /\ running' = FALSE
      /\ settled' = [settled EXCEPT !.peace = @ /\ Calm]
      /\ UNCHANGED <<kind, target, backups, marker, staged, owed>>
  BY DEF Crash, ImportsInv, Calm
<1>2. budget' \in Budgets /\ NextBackup' = NextBackup /\ NextBackup \in 1..(MaxBackups + 1)
      /\ MaxBackups \in Nat
  BY <1>1, SpendsType, NextBackupType DEF NextBackup
<1>3. /\ settled' \in [dir : Dirs \cup {NoDir}, peace : BOOLEAN]
      /\ settled'.dir = settled.dir /\ (settled'.peace => settled.peace /\ Calm)
  <2>1. /\ settled \in [dir : Dirs \cup {NoDir}, peace : BOOLEAN]
        /\ (settled.peace /\ Calm) \in BOOLEAN
    BY <1>1 DEF ImportsTypeOK
  <2>2. settled' = [settled EXCEPT !.peace = (settled.peace /\ Calm)]
    BY <1>1
  <2>3. settled'.dir = settled.dir /\ settled'.peace = (settled.peace /\ Calm)
    BY <2>1, <2>2
  <2>4. settled' \in [dir : Dirs \cup {NoDir}, peace : BOOLEAN]
    BY <2>1, <2>2
  <2> QED
    BY <2>3, <2>4
<1>4. Idle \in ImportStates
  BY ImportsAssumption DEF Idle, ImportStates, ImportSteps, NoBackup
<1>5. ImportsTypeOK'
  <2>1. Cardinality(lock') <= 1 /\ lock' \in SUBSET Importers
    BY <1>1, FS_EmptySet
  <2> QED
    BY <1>1, <1>2, <1>3, <1>4, <2>1 DEF ImportsTypeOK, ImportStates, Budgets
<1>6. LocksAreHeld' /\ MarkersAreSpent'
  BY <1>1 DEF LocksAreHeld, MarkersAreSpent
<1>7. BackupsAreTold'
  <2>1. \A o \in Importers : imports'[o].backup < NextBackup'
    BY <1>1, <1>2 DEF Idle, NoBackup
  <2> QED
    BY <1>1, <1>2, <2>1 DEF ImportsInv, BackupsAreTold
<1>8. settled'.peace => CanBeRecovered'
  <2> SUFFICES ASSUME settled.peace, Calm PROVE CanBeRecovered
    BY <1>1, <1>3 DEF CanBeRecovered, Held, LastBackup, Made, Recovers
  <2>1. CASE lock = {}
    <3>1. IsSettled /\ MarkersAreSpent
      BY <1>1, <2>1 DEF ImportsInv, DirIsSettled
    <3>2. Recovers /\ ~owed => marker \cap Made = {}
      BY <1>1, <2>1, <3>1 DEF MarkersAreSpent
    <3> QED
      BY <3>1, <3>2 DEF IsSettled, CanBeRecovered
  <2>2. CASE lock # {}
    <3>1. PICK i \in lock : StepIsMarked(i) /\ StepIsSettled(i) /\ i \in Importers
      BY <1>1, <2>2 DEF ImportsInv, DirIsSettled, ImportsTypeOK
    <3>2. lock = {i}
      BY <3>1 DEF ImportsInv, LocksAreHeld
    <3>3. CASE imports[i].pc = "done"
      BY <3>1, <3>3 DEF StepIsSettled, CanBeRecovered
    <3>4. CASE imports[i].pc = "activate"
      <4>1. CASE imports[i].backup = NoBackup
        <5>1. target = NoDir /\ IsSettled /\ marker = {NoBackup}
          BY <3>1, <3>4, <4>1 DEF StepIsSettled, StepIsMarked
        <5>2. marker \cap Made = {}
          BY <1>1, <5>1, NextBackupType DEF Made, NoBackup
        <5> QED
          BY <5>1, <5>2 DEF IsSettled, CanBeRecovered
      <4>2. CASE imports[i].backup # NoBackup
        BY <3>1, <3>4, <4>2 DEF StepIsSettled, StepIsMarked, CanBeRecovered
      <4> QED
        BY <4>1, <4>2
    <3>5. CASE imports[i].pc \notin {"done", "activate"}
      <4>1. Recovers /\ ~owed => marker \cap Made = {}
        BY <1>1, <3>2, <3>5 DEF ImportsInv, MarkersAreSpent
      <4> QED
        BY <3>1, <3>5, <4>1 DEF StepIsSettled, IsSettled, CanBeRecovered
    <3> QED
      BY <3>3, <3>4, <3>5
  <2> QED
    BY <2>1, <2>2
<1>9. DirIsSettled'
  BY <1>1, <1>8 DEF DirIsSettled
<1> QED
  BY <1>1, <1>5, <1>6, <1>7, <1>9 DEF ImportsInv

\* The recovery after a crash: a backup that is moved back is the directory as it was, or was
\* said to be lost.
LEMMA BootKeepsImports ==
    ASSUME ImportsInv, Boot
    PROVE  ImportsInv'
<1>1. /\ ImportsTypeOK /\ BackupsAreTold /\ ~up /\ up' = TRUE
      /\ UNCHANGED <<kind, imports, lock, deletion, running>>
  BY DEF Boot, ImportsInv
<1>2. /\ lock = {} /\ deletion = "idle" /\ (settled.peace => CanBeRecovered)
      /\ settled \in [dir : Dirs \cup {NoDir}, peace : BOOLEAN] /\ budget \in Budgets
      /\ target \in Dirs \cup {NoDir}
  BY <1>1 DEF ImportsInv, LocksAreHeld, DirIsSettled, ImportsTypeOK, Budgets
<1>3. LocksAreHeld' /\ lock' = {} /\ deletion' = "idle"
  BY <1>1, <1>2 DEF ImportsInv, LocksAreHeld
<1>4. SUFFICES ImportsTypeOK' /\ BackupsAreTold' /\ MarkersAreSpent'
               /\ (settled'.peace => IsSettled')
  BY <1>1, <1>3 DEF ImportsInv, DirIsSettled
<1>5. CASE ~Recovers
  <2>1. owed' = (owed \/ target = NoDir) /\ UNCHANGED <<target, backups, marker, staged, budget,
                                                        settled>>
    BY <1>5 DEF Boot
  <2>2. owed' \in BOOLEAN
    BY <2>1
  <2>3. ImportsTypeOK'
    BY <1>1, <2>1, <2>2 DEF ImportsTypeOK
  <2>4. BackupsAreTold' /\ MarkersAreSpent'
    BY <1>1, <1>5, <2>1 DEF BackupsAreTold, NextBackup, MarkersAreSpent, Recovers
  <2>5. settled.peace => target = settled.dir \/ (target = NoDir /\ Held)
    BY <1>2 DEF CanBeRecovered, Held
  <2>6. settled'.peace => IsSettled'
    BY <2>1, <2>5 DEF IsSettled, Held, LastBackup
  <2> QED
    BY <2>3, <2>4, <2>6
<1>6. CASE Recovers
  <2>1. RecoverInterruptedImports /\ staged' = [i \in Importers |-> NoDir]
    BY <1>6 DEF Boot, RecoverInterruptedImports
  <2>2. CASE Restores /\ UNCHANGED budget
               /\ target' = BackupOf(Max(marker))
               /\ backups' = {b \in backups : b.n \notin marker}
               /\ marker' = {} /\ owed' = FALSE
               /\ settled' = IF owed THEN [settled EXCEPT !.dir = target'] ELSE settled
    <3>1. PICK b \in backups : marker = {b.n}
      <4>1. PICK n \in Nat : marker = {n}
        BY <1>1, <2>2, NextBackupType DEF Restores, BackupsAreTold
      <4> QED
        BY <2>2, <4>1 DEF Restores, Made
    <3>2. Max(marker) = b.n
      <4>1. b.n \in Int
        BY <1>1, NextBackupType
      <4> QED
        BY <3>1, <4>1 DEF Max
    <3>3. target' = b.dir /\ b.dir \in Dirs
      BY <1>1, <2>2, <3>2, BackupOfIs
    <3>4. /\ settled' \in [dir : Dirs \cup {NoDir}, peace : BOOLEAN]
          /\ settled'.peace = settled.peace
          /\ settled'.dir = IF owed THEN target' ELSE settled.dir
      <4>1. [settled EXCEPT !.dir = b.dir] \in [dir : Dirs \cup {NoDir}, peace : BOOLEAN]
        BY <1>2, <3>3
      <4> QED
        BY <1>2, <2>2, <3>3, <4>1
    <3>5. ImportsTypeOK'
      <4>1. Cardinality(marker') <= 1
        BY <2>2, FS_EmptySet
      <4> QED
        BY <1>1, <2>1, <2>2, <3>3, <3>4, <4>1 DEF ImportsTypeOK
    <3>6. BackupsAreTold' /\ MarkersAreSpent'
      BY <1>1, <2>2 DEF BackupsAreTold, NextBackup, MarkersAreSpent
    <3>7. settled.peace /\ ~owed => b.dir = settled.dir
      <4>1. ASSUME NEW c \in backups, marker = {c.n} PROVE c = b
        BY <1>1, <3>1, <4>1 DEF BackupsAreTold
      <4>2. marker \cap Made # {} /\ target = NoDir
        BY <2>2 DEF Restores
      <4> QED
        BY <1>2, <1>6, <4>1, <4>2 DEF CanBeRecovered, LastBackup
    <3>8. settled'.peace => IsSettled'
      BY <3>3, <3>4, <3>7 DEF IsSettled
    <3> QED
      BY <3>5, <3>6, <3>8
  <2>3. CASE Restores /\ Spends("faults") /\ owed' = TRUE
               /\ UNCHANGED <<target, backups, marker, settled>>
    <3>1. budget' \in Budgets /\ NextBackup' = NextBackup
      BY <1>1, <2>3, SpendsType DEF NextBackup
    <3>2. ImportsTypeOK' /\ BackupsAreTold' /\ MarkersAreSpent'
      BY <1>1, <2>1, <2>3, <3>1 DEF ImportsTypeOK, Budgets, BackupsAreTold, MarkersAreSpent
    <3>3. settled.peace => target = settled.dir \/ (target = NoDir /\ Held)
      BY <1>2 DEF CanBeRecovered, Held
    <3>4. settled'.peace => IsSettled'
      BY <2>3, <3>3 DEF IsSettled, Held, LastBackup
    <3> QED
      BY <3>2, <3>4
  <2>4. CASE ~Restores /\ marker' = {} /\ UNCHANGED <<target, backups, owed, budget, settled>>
    <3>1. ImportsTypeOK'
      <4>1. Cardinality(marker') <= 1
        BY <2>4, FS_EmptySet
      <4> QED
        BY <1>1, <2>1, <2>4, <4>1 DEF ImportsTypeOK
    <3>2. BackupsAreTold' /\ MarkersAreSpent'
      BY <1>1, <2>4 DEF BackupsAreTold, NextBackup, MarkersAreSpent
    <3>3. settled.peace => IsSettled
      <4>1. \A b \in backups : marker = {b.n} => marker \cap Made # {}
        BY DEF Made
      <4> QED
        BY <1>2, <2>4, <4>1 DEF CanBeRecovered, IsSettled, Held, Restores, LastBackup
    <3>4. settled'.peace => IsSettled'
      BY <2>4, <3>3 DEF IsSettled, Held, LastBackup
    <3> QED
      BY <3>1, <3>2, <3>4
  <2> QED
    BY <2>1, <2>2, <2>3, <2>4 DEF RecoverInterruptedImports
<1> QED
  BY <1>5, <1>6

LEMMA ImportsNextKeeps ==
    ASSUME ImportsInv, ImportsNext
    PROVE  ImportsInv'
<1>1. ASSUME NEW i \in Importers,
             \/ ImportConfirm(i) \/ ImportExtensionConfirm(i) \/ KeepData(i) \/ Prepare(i)
             \/ NameBackup(i) \/ MoveToBackup(i) \/ Activate(i) \/ Fail(i) \/ Succeed(i) \/ GiveUp(i)
      PROVE  ImportsInv'
  BY <1>1, UnpackKeepsImports, KeepDataKeepsImports, PrepareKeepsImports,
     NameBackupKeepsImports,
     MoveToBackupKeepsImports, ActivateKeepsImports, FailKeepsImports, ReturnsKeepImports
     DEF ImportConfirm, ImportExtensionConfirm
<1>2. running' \in BOOLEAN
      /\ UNCHANGED <<kind, target, backups, marker, staged, imports, lock, deletion, up, budget,
                     settled, owed>>
      => ImportsInv'
  BY ImportsUntouched
<1>3. StartStop => ImportsInv'
  BY <1>2 DEF StartStop, Untouched, ImportsInv, ImportsTypeOK
<1>4. PICK c : c \in Contents
  BY ImportsAssumption
<1> QED
  BY <1>1, <1>3, <1>4, EditsKeepImports, DeletionKeepsImports, DeleteExtensionKeepsImports,
     CleanupKeepsImports, CrashKeepsImports, BootKeepsImports
     DEF ImportsNext

LEMMA SettledIsKept == ImportsInv => NothingIsLost
BY DEF ImportsInv, DirIsSettled, IsSettled, Held, LastBackup, Calm, NothingIsLost

LEMMA SpecImportsInv == Spec => []ImportsInv
<1>1. Init => ImportsInv
  BY ImportsBegin DEF Init
<1>2. ImportsInv /\ [Next]_vars => ImportsInv'
  <2> SUFFICES ASSUME ImportsInv, [Next]_vars PROVE ImportsInv'
    OBVIOUS
  <2>1. CASE ImportsNext
    BY <2>1, ImportsNextKeeps
  <2>2. CASE UNCHANGED importsVars
    <3>1. running' \in BOOLEAN
      BY <2>2 DEF importsVars, ImportsInv, ImportsTypeOK
    <3> QED
      BY <2>2, <3>1, ImportsUntouched DEF importsVars
  <2> QED
    BY <2>1, <2>2 DEF Next, vars
<1> QED
  BY <1>1, <1>2, PTL DEF Spec

\* With supd up and no import under way, the directory of a service or an extension is what it
\* was last made to be, in full and with the data of the service, or an import has said that it
\* could not move the backup back and the backup is there: whatever call fails at whatever step
\* of an import, however often supd is killed and imports again (export_handler.go,
\* RecoverInterruptedImports), with any number of requests and however many backups a deletion
\* of an extension leaves (CleanupOldBackups).
THEOREM NothingIsLostOnDisk == Spec => []NothingIsLost
BY SpecImportsInv, SettledIsKept, PTL

-----------------------------------------------------------------------------
(* The logs: their types. *)

\* What is in both buffers, and the rotations that have a line but no archive yet.
Buffered == Len(log["main"].buf) + Len(log["other"].buf)
Busy(w) == IF log[w].pc \in {"full", "named"} THEN 1 ELSE 0

\* A line is in one place at a time, and an archive has taken one to become full: what bounds
\* the sizes and the numbers in the names.
LinesAreCounted ==
    /\ text # <<>>
    /\ \A f \in DOMAIN text : Len(text[f]) + Buffered <= Len(written)
    /\ \A w \in Writers : log[w].size <= Len(written)
    /\ IsFiniteSet(DOMAIN archives)
    /\ Cardinality(DOMAIN archives) + Busy("main") + Busy("other") <= Len(written)

\* A writer that rotates has its file until it cannot open it again.
FilesAreThere ==
    /\ \A w \in Writers : current[w] = current[Path(w)]
    /\ \A w \in Writers :
         /\ log[w].pc # "ready" => Rotates(w)
         /\ log[w].pc \in {"full", "named"} => current[Path(w)] # 0
         /\ log[w].pc = "named" => log[w].name \in Names /\ ~log[w].open
         /\ Rotates(w) /\ log[w].open => current[Path(w)] # 0

LogsTypeInv == LogsTypeOK /\ LinesAreCounted /\ FilesAreThere

(* The logs: what is in them. *)

LinesAreGiven ==
    /\ \A w \in Writers : \A l \in Range(log[w].buf) : l \in DOMAIN written /\ By(w, l)
    /\ \A f \in DOMAIN text : Range(text[f]) \subseteq DOMAIN written
    /\ \A w \in Writers : log[w].pc \in {"named", "renamed"} => log[w].buf = <<>>

IsSomewhere(l) ==
    \/ \E f \in DOMAIN text : l \in Range(text[f])
    \/ \E w \in Writers : l \in Range(log[w].buf)

NothingHasHappened ==
    ~harmed =>
        /\ \A w \in Writers : ~log[w].bad /\ current[w] # 0
        /\ \A l \in DOMAIN written : IsSomewhere(l)

NamesAreNew ==
    ~rotated.met =>
        \A w \in Writers : log[w].pc = "named" =>
            /\ log[w].name \notin DOMAIN archives
            /\ \A o \in Writers \ {w} : log[o].pc = "named" => log[o].name # log[w].name

FilesAreKept == ~harmed /\ ~rotated.met /\ ~rotated.removed => DOMAIN text \subseteq Files

ArchivesAreCounted ==
    /\ Cardinality(DOMAIN archives) <= Len(rotated.at)
    /\ rotated.removed => Len(rotated.at) > MaxFiles

\* The memory is used once a writer has failed, which does not rotate then.
MemoryInv ==
    \A w \in Writers :
        /\ log[w].mem # <<>> => log[w].bad /\ Ready(w) /\ Rotates(w)
        /\ Range(log[w].mem) \subseteq DOMAIN written /\ MemoryIsRecent(w)

\* The files of a service are numbered in the order they were begun: its main writer writes to
\* the last, what it has archived it has archived in that order.
MainIsInOrder ==
    /\ current["main"] = Len(text) /\ log["main"].file = Len(text)
    /\ Len(rotated.at) = Len(text) - 1
    /\ \A n \in DOMAIN archives :
         archives[n] \in DOMAIN rotated.at /\ rotated.at[archives[n]] = n.time
    /\ \A m, n \in DOMAIN archives : archives[m] = archives[n] => m = n
    /\ \A j, k \in DOMAIN rotated.at : j < k => rotated.at[j] <= rotated.at[k]
    /\ \A k \in DOMAIN rotated.at :
         /\ rotated.at[k] <= clock
         /\ log["main"].pc = "named" => rotated.at[k] <= log["main"].name.time
    /\ log["main"].pc = "named" => /\ log["main"].name \notin DOMAIN archives
                                   /\ log["main"].name.time <= clock

LinesAreInOrder ==
    /\ \A f \in DOMAIN text :
         /\ InOrder("main", text[f]) /\ Precedes("main", text[f], log["main"].buf)
         /\ \A g \in DOMAIN text : f < g => Precedes("main", text[f], text[g])
    /\ InOrder("main", log["main"].buf)

\* Of the archives the oldest go first.
ArchivesAreLast ==
    IsInjective(rotated.at) =>
        \A n \in DOMAIN archives : \A g \in DOMAIN rotated.at :
            archives[n] < g => \E m \in DOMAIN archives : archives[m] = g

ServiceInv ==
    place = "service" =>
        /\ Ready("other")
        /\ ~harmed => MainIsInOrder /\ LinesAreInOrder /\ ArchivesAreLast

LogsInv ==
    /\ LogsTypeInv /\ LinesAreGiven /\ NothingHasHappened /\ NamesAreNew /\ FilesAreKept
    /\ ArchivesAreCounted /\ MemoryInv /\ ServiceInv

-----------------------------------------------------------------------------
(* The logs: sequences of lines, and the writers. *)

LEMMA RangeOfAppend ==
    ASSUME NEW S, NEW s \in Seq(S), NEW e \in S
    PROVE  Range(Append(s, e)) = Range(s) \cup {e} /\ DOMAIN Append(s, e) = 1..(Len(s) + 1)
<1>1. /\ Append(s, e) \in Seq(S) /\ Len(Append(s, e)) = Len(s) + 1 /\ Len(s) \in Nat
      /\ \A i \in 1..Len(s) : Append(s, e)[i] = s[i]
      /\ Append(s, e)[Len(s) + 1] = e
      /\ DOMAIN s = 1..Len(s)
  BY AppendProperties, LenProperties
<1> DEFINE t == Append(s, e)
<1>2. DOMAIN t = 1..(Len(s) + 1)
  BY <1>1, LenProperties
<1> HIDE DEF t
<1>3. 1..(Len(s) + 1) = (1..Len(s)) \cup {Len(s) + 1}
  BY <1>1
<1>4. Range(t) = {t[i] : i \in (1..Len(s)) \cup {Len(s) + 1}}
  BY <1>2, <1>3 DEF Range
<1>5. Range(s) = {s[i] : i \in 1..Len(s)}
  BY <1>1 DEF Range
<1>6. t[Len(s) + 1] = e /\ \A i \in 1..Len(s) : t[i] = s[i]
  BY <1>1 DEF t
<1> QED
  BY <1>2, <1>4, <1>5, <1>6 DEF t

LEMMA RangeOfConcat ==
    ASSUME NEW S, NEW s \in Seq(S), NEW t \in Seq(S)
    PROVE  Range(s \o t) = Range(s) \cup Range(t)
<1> DEFINE c == s \o t
<1> DEFINE m == Len(s)
<1> DEFINE n == Len(t)
<1>1. /\ DOMAIN c = 1..(m + n) /\ m \in Nat /\ n \in Nat
      /\ \A i \in 1..(m + n) : c[i] = IF i <= m THEN s[i] ELSE t[i - m]
      /\ DOMAIN s = 1..m /\ DOMAIN t = 1..n
  BY ConcatProperties, LenProperties
<1> HIDE DEF c, m, n
<1>2. \A x \in Range(c) : x \in Range(s) \cup Range(t)
  <2> SUFFICES ASSUME NEW i \in 1..(m + n) PROVE c[i] \in Range(s) \cup Range(t)
    BY <1>1 DEF Range
  <2>1. i <= m => c[i] = s[i] /\ i \in 1..m
    BY <1>1
  <2>2. ~(i <= m) => c[i] = t[i - m] /\ i - m \in 1..n
    BY <1>1
  <2> QED
    BY <1>1, <2>1, <2>2 DEF Range
<1>3. \A i \in 1..m : s[i] = c[i] /\ i \in 1..(m + n)
  BY <1>1
<1>4. \A j \in 1..n : t[j] = c[m + j] /\ m + j \in 1..(m + n)
  BY <1>1
<1>5. Range(s) \subseteq Range(c)
  <2>1. \A i \in 1..m : c[i] \in Range(c)
    BY <1>1, <1>3 DEF Range
  <2> QED
    BY <1>1, <1>3, <2>1 DEF Range
<1>6. Range(t) \subseteq Range(c)
  <2> SUFFICES ASSUME NEW j \in 1..n PROVE t[j] \in Range(c)
    BY <1>1 DEF Range
  <2>1. m + j \in DOMAIN c /\ t[j] = c[m + j]
    BY <1>1, <1>4
  <2> QED
    BY <2>1 DEF Range
<1> QED
  BY <1>2, <1>5, <1>6 DEF c

LEMMA EmptyRange == Range(<<>>) = {}
BY DEF Range

\* There are two writers.
Other(w) == IF w = "main" THEN "other" ELSE "main"

LEMMA TwoWriters ==
    ASSUME NEW w \in Writers
    PROVE  /\ Other(w) \in Writers /\ Other(w) # w /\ Other(Other(w)) = w
           /\ \A o \in Writers : o # w => o = Other(w)
BY DEF Writers, Other

LogStates(n) == [file : 1..n, open : BOOLEAN, buf : Seq(Lines), bad : BOOLEAN,
                 mem : Seq(Lines), size : 0..MaxLines,
                 pc : {"ready", "full", "named", "renamed"}, name : Names \cup {NoName}]

\* What the types say, in the form the steps use.
LEMMA LogsTypesAre ==
    ASSUME LogsTypeInv
    PROVE  /\ text \in Seq(Seq(Lines)) /\ Len(text) \in Nat /\ DOMAIN text = 1..Len(text)
           /\ \A f \in 1..Len(text) : text[f] \in Seq(Lines) /\ Len(text[f]) \in Nat
           /\ written \in Seq(Writers) /\ Len(written) \in 0..MaxLines
           /\ DOMAIN written = 1..Len(written)
           /\ MaxLines \in Nat /\ Buffer \in Nat \ {0} /\ Memory \in Nat \ {0, 1}
           /\ current \in [Writers -> 0..Len(text)]
           /\ log \in [Writers -> LogStates(Len(text))]
           /\ \A w \in Writers : /\ log[w] \in LogStates(Len(text))
                                 /\ log[w].buf \in Seq(Lines) /\ Len(log[w].buf) \in 0..Buffer
                                 /\ log[w].mem \in Seq(Lines) /\ Len(log[w].mem) \in 0..Memory
                                 /\ log[w].file \in 1..Len(text) /\ log[w].size \in 0..MaxLines
           /\ IsFiniteSet(DOMAIN archives) /\ Cardinality(DOMAIN archives) \in Nat
<1>1. /\ text \in Seq(Seq(Lines)) /\ written \in Seq(Writers) /\ Len(written) <= MaxLines
      /\ current \in [Writers -> 0..Len(text)]
      /\ \A w \in Writers : Len(log[w].buf) <= Buffer /\ Len(log[w].mem) <= Memory
      /\ IsFiniteSet(DOMAIN archives)
  BY DEF LogsTypeInv, LogsTypeOK, LinesAreCounted
<1>2. MaxLines \in Nat /\ Buffer \in Nat \ {0} /\ Memory \in Nat \ {0, 1}
  BY LogsAssumption
<1>3. /\ Len(text) \in Nat /\ DOMAIN text = 1..Len(text)
      /\ Len(written) \in Nat /\ DOMAIN written = 1..Len(written)
  BY <1>1, LenProperties
<1>4. \A f \in 1..Len(text) : text[f] \in Seq(Lines) /\ Len(text[f]) \in Nat
  BY <1>1, ElementOfSeq, LenProperties
<1>5. log \in [Writers -> LogStates(Len(text))]
  BY <1>3 DEF LogsTypeInv, LogsTypeOK, LogStates
<1>6. \A w \in Writers : /\ log[w] \in LogStates(Len(text)) /\ log[w].buf \in Seq(Lines)
                         /\ log[w].mem \in Seq(Lines)
                         /\ log[w].file \in 1..Len(text) /\ log[w].size \in 0..MaxLines
  BY <1>5 DEF LogStates
<1>7. \A w \in Writers : Len(log[w].buf) \in 0..Buffer /\ Len(log[w].mem) \in 0..Memory
  <2>1. \A w \in Writers : Len(log[w].buf) \in Nat /\ Len(log[w].mem) \in Nat
    BY <1>6, LenProperties
  <2> QED
    BY <1>1, <1>2, <2>1
<1> QED
  BY <1>1, <1>2, <1>3, <1>4, <1>5, <1>6, <1>7, FS_CardinalityType

LEMMA LogStatesGrow ==
    ASSUME NEW m \in Nat, NEW n \in Nat, m <= n
    PROVE  LogStates(m) \subseteq LogStates(n)
<1>1. 1..m \subseteq 1..n
  OBVIOUS
<1> QED
  BY <1>1 DEF LogStates

LEMMA BothBuffers ==
    ASSUME LogsTypeInv, NEW w \in Writers
    PROVE  /\ Buffered = Len(log[w].buf) + Len(log[Other(w)].buf)
           /\ Busy("main") + Busy("other") = Busy(w) + Busy(Other(w))
           /\ Len(log[w].buf) \in Nat /\ Len(log[Other(w)].buf) \in Nat
           /\ Busy(w) \in {0, 1} /\ Busy(Other(w)) \in {0, 1}
<1>1. \A o \in Writers : Len(log[o].buf) \in Nat /\ Busy(o) \in {0, 1}
  BY LogsTypesAre DEF Busy
<1>2. w = "main" \/ w = "other"
  BY DEF Writers
<1>3. CASE w = "main"
  BY <1>1, <1>3 DEF Buffered, Other, Writers
<1>4. CASE w = "other"
  <2>1. Other(w) = "main" /\ "main" \in Writers
    BY <1>4 DEF Other, Writers
  <2>2. \A m, n \in Int : m + n = n + m
    OBVIOUS
  <2>3. /\ Len(log["main"].buf) \in Int /\ Len(log["other"].buf) \in Int
        /\ Busy("main") \in Int /\ Busy("other") \in Int
    BY <1>1 DEF Writers
  <2>4. /\ Buffered = Len(log["other"].buf) + Len(log["main"].buf)
        /\ Busy("main") + Busy("other") = Busy("other") + Busy("main")
    BY <2>2, <2>3 DEF Buffered
  <2> QED
    BY <1>1, <1>4, <2>1, <2>4
<1> QED
  BY <1>2, <1>3, <1>4

\* A flush leaves the other files alone.
LEMMA FlushedIs ==
    ASSUME LogsTypeInv, NEW w \in Writers
    PROVE  /\ Flushed(w) \in Seq(Seq(Lines)) /\ Len(Flushed(w)) = Len(text)
           /\ log[w].file \in 1..Len(text)
           /\ Flushed(w)[log[w].file] = text[log[w].file] \o log[w].buf
           /\ Len(Flushed(w)[log[w].file]) = Len(text[log[w].file]) + Len(log[w].buf)
           /\ Range(Flushed(w)[log[w].file]) = Range(text[log[w].file]) \cup Range(log[w].buf)
           /\ \A g \in 1..Len(text) : g # log[w].file => Flushed(w)[g] = text[g]
<1> DEFINE f == log[w].file
<1> DEFINE new == text[f] \o log[w].buf
<1>1. /\ text \in Seq(Seq(Lines)) /\ f \in 1..Len(text) /\ text[f] \in Seq(Lines)
      /\ log[w].buf \in Seq(Lines)
  BY LogsTypesAre
<1>2. /\ new \in Seq(Lines) /\ Len(new) = Len(text[f]) + Len(log[w].buf)
      /\ Range(new) = Range(text[f]) \cup Range(log[w].buf)
  BY <1>1, ConcatProperties, RangeOfConcat
<1>3. Flushed(w) = [text EXCEPT ![f] = new]
  BY DEF Flushed
<1> HIDE DEF new, f
<1>4. /\ Flushed(w) \in Seq(Seq(Lines)) /\ Len(Flushed(w)) = Len(text)
      /\ \A g \in 1..Len(text) : Flushed(w)[g] = IF g = f THEN new ELSE text[g]
  BY <1>1, <1>2, <1>3, ExceptSeq
<1>5. Flushed(w)[f] = new
  BY <1>1, <1>4
<1> QED
  BY <1>1, <1>2, <1>4, <1>5 DEF f, new

\* What one writer does to itself.
LEMMA WriterIs ==
    ASSUME LogsTypeInv, NEW w \in Writers, NEW n \in Nat, Len(text) <= n,
           NEW x \in LogStates(n), log' = [log EXCEPT ![w] = x]
    PROVE  /\ log' \in [Writers -> LogStates(n)]
           /\ log'[w] = x /\ log'[Other(w)] = log[Other(w)]
           /\ \A o \in Writers \ {w} : log'[o] = log[o]
<1>1. log \in [Writers -> LogStates(n)]
  BY LogsTypesAre, LogStatesGrow
<1> QED
  BY <1>1, TwoWriters

Records == [at : Seq(1..MaxTime), met : BOOLEAN, removed : BOOLEAN]
Disks == [full : BOOLEAN, faults : 0..MaxLogFaults]
Renaming == {w \in Writers : log[w].pc = "renamed"}

\* A step of one writer that leaves the archives as they are.
LEMMA QuietStepType ==
    ASSUME LogsTypeInv, NEW w \in Writers, NEW x \in LogStates(Len(text)),
           log' = [log EXCEPT ![w] = x], Len(x.buf) <= Buffer, Len(x.mem) <= Memory,
           UNCHANGED <<place, current, archives, clock>>,
           disk' \in Disks, disk.faults <= disk'.faults, rotated' \in Records, harmed' \in BOOLEAN,
           written' \in Seq(Writers), Len(written) <= Len(written'), Len(written') <= MaxLines,
           text' \in Seq(Seq(Lines)), Len(text') = Len(text),
           \A f \in 1..Len(text) : Len(text'[f]) + Len(x.buf) + Len(written)
                                     <= Len(text[f]) + Len(log[w].buf) + Len(written'),
           x.size <= Len(written'),
           x.pc = "renamed" <=> log[w].pc = "renamed",
           x.pc # "ready" => Rotates(w),
           x.pc \in {"full", "named"} =>
             \/ log[w].pc \in {"full", "named"}
             \/ current[Path(w)] # 0 /\ Len(written) < Len(written'),
           x.pc = "named" => x.name \in Names /\ ~x.open,
           Rotates(w) /\ x.open => current[Path(w)] # 0
    PROVE  LogsTypeInv'
<1> DEFINE v == Other(w)
<1>1. /\ v \in Writers /\ v # w /\ \A o \in Writers : o = w \/ o = v
  BY TwoWriters
<1>2. /\ log' \in [Writers -> LogStates(Len(text'))] /\ log'[w] = x /\ log'[v] = log[v]
      /\ Len(text) \in Nat
  <2>1. Len(text) \in Nat /\ Len(text) <= Len(text) /\ LogStates(Len(text')) = LogStates(Len(text))
    BY LogsTypesAre
  <2>2. /\ log' \in [Writers -> LogStates(Len(text))] /\ log'[w] = x /\ log'[v] = log[v]
    BY <2>1, WriterIs
  <2> QED
    BY <2>1, <2>2
<1>3. /\ Len(written) \in Nat /\ Len(written') \in Nat /\ MaxLines \in Nat
      /\ \A f \in 1..Len(text) : Len(text[f]) \in Nat /\ Len(text'[f]) \in Nat
      /\ DOMAIN text = 1..Len(text) /\ DOMAIN text' = 1..Len(text)
  <2>1. DOMAIN text' = 1..Len(text)
    BY LenProperties
  <2>2. \A f \in 1..Len(text) : Len(text'[f]) \in Nat
    BY ElementOfSeq, LenProperties
  <2> QED
    BY <2>1, <2>2, LogsTypesAre, LenProperties
<1>4. /\ Buffered = Len(log[w].buf) + Len(log[v].buf)
      /\ Busy("main") + Busy("other") = Busy(w) + Busy(v)
      /\ Len(log[w].buf) \in Nat /\ Len(log[v].buf) \in Nat /\ Len(x.buf) \in Nat
      /\ Busy(w) \in {0, 1} /\ Busy(v) \in {0, 1}
  <2>1. Len(x.buf) \in Nat
    BY LenProperties DEF LogStates
  <2> QED
    BY <2>1, BothBuffers
<1> HIDE DEF v
<1>5. Renaming' = Renaming
  BY <1>1, <1>2 DEF Renaming
<1>6. LogsTypeOK'
  <2>1. \A o \in Writers : Len(log'[o].buf) <= Buffer /\ Len(log'[o].mem) <= Memory
    BY <1>1, <1>2 DEF LogsTypeInv, LogsTypeOK
  <2>2. Cardinality(DOMAIN archives') <= MaxFiles + disk'.faults + Cardinality(Renaming')
    <3>1. Cardinality(DOMAIN archives) <= MaxFiles + disk.faults + Cardinality(Renaming)
      BY DEF LogsTypeInv, LogsTypeOK, Renaming
    <3>2. Cardinality(Renaming) \in Nat
      <4>1. IsFiniteSet(Writers)
        <5>1. IsFiniteSet({"main"})
          BY FS_Singleton
        <5>2. IsFiniteSet({"main"} \cup {"other"})
          BY <5>1, FS_AddElement
        <5>3. Writers = {"main"} \cup {"other"}
          BY DEF Writers
        <5> QED
          BY <5>2, <5>3
      <4> QED
        BY <4>1, FS_Subset, FS_CardinalityType DEF Renaming
    <3>3. MaxFiles \in Nat /\ disk.faults \in Nat /\ disk'.faults \in Nat
      BY LogsAssumption DEF LogsTypeInv, LogsTypeOK, Disks
    <3>4. Cardinality(DOMAIN archives) \in Nat
      BY LogsTypesAre
    <3> QED
      BY <1>5, <3>1, <3>2, <3>3, <3>4
  <2> QED
    BY <1>2, <1>3, <2>1, <2>2
       DEF LogsTypeInv, LogsTypeOK, LogStates, Records, Disks, Renaming
<1>7. /\ Buffered' = Len(x.buf) + Len(log[v].buf)
      /\ Busy("main")' + Busy("other")' = Busy(w)' + Busy(v)'
      /\ Busy(w)' \in {0, 1} /\ Busy(v)' = Busy(v)
  <2>1. \A o \in Writers : Busy(o)' \in {0, 1} /\ Len(log'[o].buf) \in Nat
    BY <1>1, <1>2, <1>4 DEF Busy
  <2>2. Busy(v)' = Busy(v)
    BY <1>2 DEF Busy
  <2>3. CASE w = "main"
    BY <1>1, <1>2, <1>4, <2>1, <2>2, <2>3 DEF Buffered, Writers
  <2>4. CASE w = "other"
    <3>1. v = "main"
      BY <1>1, <2>4 DEF Writers
    <3>2. \A m, n \in Int : m + n = n + m
      OBVIOUS
    <3>3. /\ Len(log'["main"].buf) \in Int /\ Len(log'["other"].buf) \in Int
          /\ Busy("main")' \in Int /\ Busy("other")' \in Int
      BY <2>1 DEF Writers
    <3>4. /\ Buffered' = Len(log'["other"].buf) + Len(log'["main"].buf)
          /\ Busy("main")' + Busy("other")' = Busy("other")' + Busy("main")'
      BY <3>2, <3>3 DEF Buffered
    <3> QED
      BY <1>2, <2>1, <2>2, <2>4, <3>1, <3>4
  <2> QED
    BY <2>3, <2>4 DEF Writers
<1>8. LinesAreCounted'
  <2>1. text' # <<>>
    BY <1>2, <1>3 DEF LogsTypeInv, LinesAreCounted
  <2>2. ASSUME NEW f \in 1..Len(text) PROVE Len(text'[f]) + Buffered' <= Len(written')
    <3>1. Len(text[f]) + Buffered <= Len(written)
      BY <1>3 DEF LogsTypeInv, LinesAreCounted
    <3>2. Len(text'[f]) + Len(x.buf) + Len(written) <= Len(text[f]) + Len(log[w].buf) + Len(written')
      OBVIOUS
    <3> DEFINE a == Len(text[f])
    <3> DEFINE b == Len(log[w].buf)
    <3> DEFINE c == Len(log[v].buf)
    <3> DEFINE d == Len(text'[f])
    <3> DEFINE e == Len(x.buf)
    <3>3. /\ a \in Nat /\ b \in Nat /\ c \in Nat /\ d \in Nat /\ e \in Nat
          /\ Len(written) \in Nat /\ Len(written') \in Nat
      BY <1>3, <1>4
    <3>4. /\ a + (b + c) <= Len(written) /\ Buffered' = e + c
          /\ d + e + Len(written) <= a + b + Len(written')
      BY <1>4, <1>7, <3>1, <3>2
    <3> HIDE DEF a, b, c, d, e
    <3>5. d + (e + c) <= Len(written')
      BY <3>3, <3>4
    <3> QED
      BY <3>4, <3>5 DEF d
  <2>3. \A o \in Writers : log'[o].size <= Len(written')
    <3>1. log[v].size <= Len(written) /\ log[v].size \in Nat
      BY <1>1, LogsTypesAre DEF LogsTypeInv, LinesAreCounted
    <3>2. log'[v].size <= Len(written')
      BY <1>2, <1>3, <3>1
    <3> QED
      BY <1>1, <1>2, <3>2
  <2>4. Cardinality(DOMAIN archives) + Busy(w)' + Busy(v)' <= Len(written')
    <3>1. /\ Cardinality(DOMAIN archives) + Busy(w) + Busy(v) <= Len(written)
          /\ Cardinality(DOMAIN archives) \in Nat
      <4>1. /\ Cardinality(DOMAIN archives) + Busy("main") + Busy("other") <= Len(written)
            /\ Cardinality(DOMAIN archives) \in Nat
        BY LogsTypesAre DEF LogsTypeInv, LinesAreCounted
      <4>2. Busy("main") \in Int /\ Busy("other") \in Int
        BY <1>1, <1>4 DEF Writers
      <4> QED
        BY <1>4, <4>1, <4>2
    <3>2. Busy(w)' <= Busy(w) + (Len(written') - Len(written))
      BY <1>2, <1>3 DEF Busy
    <3> QED
      BY <1>3, <1>4, <1>7, <3>1, <3>2
  <2>5. Cardinality(DOMAIN archives) + Busy("main")' + Busy("other")' <= Len(written')
    <3>1. Cardinality(DOMAIN archives) \in Int
      BY LogsTypesAre
    <3>2. Busy("main")' \in Int /\ Busy("other")' \in Int
      BY <1>1, <1>4, <1>7 DEF Writers
    <3>3. Busy(w)' \in Int /\ Busy(v)' \in Int
      BY <1>4, <1>7
    <3> QED
      BY <1>3, <1>7, <2>4, <3>1, <3>2, <3>3
  <2> QED
    BY <1>3, <2>1, <2>2, <2>3, <2>5 DEF LogsTypeInv, LinesAreCounted
<1>9. FilesAreThere'
  <2>1. \A o \in Writers : /\ current'[o] = current'[Path(o)'] /\ Path(o)' = Path(o)
                           /\ Rotates(o)' <=> Rotates(o)
    BY DEF LogsTypeInv, FilesAreThere, Path, Rotates
  <2>2. /\ log[w].pc \in {"full", "named"} => current[Path(w)] # 0
        /\ log[v].pc # "ready" => Rotates(v)
        /\ log[v].pc \in {"full", "named"} => current[Path(v)] # 0
        /\ log[v].pc = "named" => log[v].name \in Names /\ ~log[v].open
        /\ Rotates(v) /\ log[v].open => current[Path(v)] # 0
    BY <1>1 DEF LogsTypeInv, FilesAreThere
  <2> QED
    BY <1>1, <1>2, <2>1, <2>2 DEF FilesAreThere
<1> QED
  BY <1>6, <1>8, <1>9 DEF LogsTypeInv
-----------------------------------------------------------------------------
(* The logs: the steps keep the types. *)

LEMMA LogsTypeBegins == LogsInit => LogsTypeInv
<1> SUFFICES ASSUME LogsInit PROVE LogsTypeInv
  OBVIOUS
<1> DEFINE n == IF place = "service" THEN 1 ELSE 2
<1>1. /\ text \in Seq(Seq(Lines)) /\ Len(text) = n /\ DOMAIN text = 1..n /\ text # <<>>
      /\ \A f \in 1..n : text[f] = <<>>
  <2>1. <<>> \in Seq(Lines)
    OBVIOUS
  <2>2. CASE place = "service"
    <3>1. text = << <<>> >> /\ n = 1
      BY <2>2 DEF LogsInit
    <3> QED
      BY <2>1, <3>1
  <2>3. CASE place # "service"
    <3>1. text = << <<>>, <<>> >> /\ n = 2
      BY <2>3 DEF LogsInit
    <3> QED
      BY <2>1, <3>1
  <2> QED
    BY <2>2, <2>3
<1>2. current \in [Writers -> 1..n] /\ \A w \in Writers : current[w] = current[Path(w)]
  <2>1. \A w \in Writers : current[w] \in 1..n
    BY DEF LogsInit, Path
  <2>2. \A w \in Writers : Path(w) \in Writers
    BY DEF Path, Writers
  <2>3. \A w \in Writers : current[w] = current[Path(w)]
    BY <2>2 DEF LogsInit, Path
  <2> QED
    BY <2>1, <2>3 DEF LogsInit
<1>3. /\ clock \in 1..MaxTime /\ MaxLines \in Nat /\ MaxLogFaults \in Nat /\ MaxFiles \in Nat
      /\ Buffer \in Nat /\ Memory \in Nat
  BY LogsAssumption DEF LogsInit
<1>4. \A w \in Writers : Opened(current[w], 0) \in LogStates(n)
  BY <1>2, <1>3 DEF Opened, LogStates
<1>5. /\ log \in [Writers -> LogStates(n)]
      /\ \A w \in Writers : /\ log[w].buf = <<>> /\ log[w].mem = <<>> /\ log[w].size = 0
                            /\ log[w].pc = "ready" /\ log[w].open
  <2>1. log = [w \in Writers |-> Opened(current[w], 0)]
    BY DEF LogsInit
  <2> QED
    BY <1>4, <2>1 DEF Opened
<1>6. /\ DOMAIN archives = {} /\ Range(archives) = {} /\ Renaming = {}
      /\ Cardinality(DOMAIN archives) = 0 /\ Cardinality(Renaming) = 0
      /\ IsFiniteSet(DOMAIN archives)
  <2>1. DOMAIN archives = {} /\ Range(archives) = {}
    BY DEF LogsInit, Range
  <2>2. Renaming = {}
    BY <1>5 DEF Renaming
  <2> QED
    BY <2>1, <2>2, FS_EmptySet
<1>7. Buffered = 0 /\ Busy("main") = 0 /\ Busy("other") = 0
  <2>1. \A w \in Writers : Len(log[w].buf) = 0 /\ Busy(w) = 0
    BY <1>5 DEF Busy
  <2>2. "main" \in Writers /\ "other" \in Writers
    BY DEF Writers
  <2>3. /\ Len(log["main"].buf) = 0 /\ Len(log["other"].buf) = 0 /\ Busy("main") = 0
        /\ Busy("other") = 0
    BY <2>1, <2>2
  <2> QED
    BY <2>3 DEF Buffered
<1>8. LogsTypeOK
  <2>1. current \in [Writers -> 0..n]
    BY <1>2
  <2>2. /\ place \in {"service", "extension"} /\ written \in Seq(Writers) /\ Len(written) = 0
        /\ disk \in Disks /\ disk.faults = 0 /\ rotated \in Records /\ harmed \in BOOLEAN
    <3>1. <<>> \in Seq(1..MaxTime) /\ <<>> \in Seq(Writers) /\ 0 \in 0..MaxLogFaults
      BY <1>3
    <3> QED
      BY <3>1 DEF LogsInit, Disks, Records
  <2> HIDE DEF n
  <2> QED
    BY <1>1, <1>3, <1>5, <1>6, <2>1, <2>2 DEF LogsTypeOK, LogStates, Disks, Records, Renaming
<1>9. LinesAreCounted
  BY <1>1, <1>5, <1>6, <1>7 DEF LinesAreCounted, LogsInit
<1>10. FilesAreThere
  <2>1. \A w \in Writers : current[Path(w)] # 0
    BY <1>2
  <2> QED
    BY <1>2, <1>5, <2>1 DEF FilesAreThere
<1> QED
  BY <1>8, <1>9, <1>10 DEF LogsTypeInv

\* What the memory holds is given up from its beginning, and so is half of it.
LEMMA AddIs ==
    ASSUME NEW mem \in Seq(Lines), Len(mem) <= Memory, NEW line \in Lines
    PROVE  \E k \in 0..Len(mem) :
             /\ Add(mem, line) \in Seq(Lines)
             /\ Len(Add(mem, line)) = Len(mem) - k + 1 /\ Len(Add(mem, line)) <= Memory
             /\ Add(mem, line)[Len(mem) - k + 1] = line
             /\ \A i \in 1..(Len(mem) - k) : Add(mem, line)[i] = mem[i + k]
<1>1. Memory \in Nat \ {0, 1} /\ Len(mem) \in Nat
  BY LogsAssumption, LenProperties
<1> DEFINE k == IF Len(mem) >= Memory THEN Memory \div 2 ELSE 0
<1> DEFINE old == IF Len(mem) >= Memory THEN SubSeq(mem, Memory \div 2 + 1, Len(mem)) ELSE mem
<1>2. Memory \div 2 \in 1..Memory
  BY <1>1
<1>3. k \in 0..Len(mem) /\ Len(mem) - k \in Nat /\ Len(mem) - k + 1 <= Memory
  BY <1>1, <1>2
<1>4. /\ old \in Seq(Lines) /\ Len(old) = Len(mem) - k
      /\ \A i \in 1..(Len(mem) - k) : old[i] = mem[i + k]
  <2>1. CASE Len(mem) >= Memory
    <3>1. Len(mem) = Memory /\ Memory \div 2 + 1 \in 1..(Len(mem) + 1)
      BY <1>1, <1>2, <2>1
    <3>2. /\ SubSeq(mem, Memory \div 2 + 1, Len(mem)) \in Seq(Lines)
          /\ Len(SubSeq(mem, Memory \div 2 + 1, Len(mem))) = Len(mem) - Memory \div 2
          /\ \A i \in 1..(Len(mem) - Memory \div 2) :
                SubSeq(mem, Memory \div 2 + 1, Len(mem))[i] = mem[i + Memory \div 2]
      BY <1>1, <1>2, <3>1
    <3> QED
      BY <2>1, <3>2
  <2>2. CASE ~(Len(mem) >= Memory)
    BY <1>1, <2>2, ElementOfSeq
  <2> QED
    BY <2>1, <2>2
<1>5. Add(mem, line) = Append(old, line)
  BY DEF Add
<1> HIDE DEF k, old
<1>6. /\ Append(old, line) \in Seq(Lines) /\ Len(Append(old, line)) = Len(old) + 1
      /\ \A i \in 1..Len(old) : Append(old, line)[i] = old[i]
      /\ Append(old, line)[Len(old) + 1] = line
  BY <1>4, AppendProperties
<1>7. /\ Add(mem, line) \in Seq(Lines)
      /\ Len(Add(mem, line)) = Len(mem) - k + 1
      /\ Add(mem, line)[Len(mem) - k + 1] = line
      /\ \A i \in 1..(Len(mem) - k) : Add(mem, line)[i] = mem[i + k]
  BY <1>4, <1>5, <1>6
<1> QED
  BY <1>3, <1>7

\* One more line.
LEMMA AcceptsIs ==
    ASSUME LogsTypeInv, NEW w \in Writers, Accepts(w)
    PROVE  /\ written' \in Seq(Writers) /\ Len(written') = Len(written) + 1
           /\ Len(written') <= MaxLines /\ Line \in Lines /\ Line = Len(written')
           /\ written'[Line] = w /\ \A l \in 1..Len(written) : written'[l] = written[l]
           /\ DOMAIN written' = 1..Len(written')
<1>1. /\ written \in Seq(Writers) /\ Len(written) \in Nat /\ MaxLines \in Nat
      /\ Len(written) < MaxLines /\ written' = Append(written, w)
  BY LogsTypesAre DEF Accepts
<1>2. /\ written' \in Seq(Writers) /\ Len(written') = Len(written) + 1
      /\ \A l \in 1..Len(written) : written'[l] = written[l]
      /\ written'[Len(written) + 1] = w
  BY <1>1, AppendProperties
<1>3. DOMAIN written' = 1..Len(written')
  BY <1>2, LenProperties
<1> QED
  BY <1>1, <1>2, <1>3 DEF Line, Lines

\* What most steps leave as it is.
LEMMA KeptRecords ==
    ASSUME LogsTypeInv
    PROVE  /\ disk \in Disks /\ disk.faults \in Nat /\ MaxLogFaults \in Nat /\ rotated \in Records
           /\ harmed \in BOOLEAN /\ text \in Seq(Seq(Lines)) /\ written \in Seq(Writers)
           /\ place \in {"service", "extension"} /\ clock \in 1..MaxTime
           /\ \A w \in Writers : Path(w) \in Writers /\ Rotates(w) \in BOOLEAN
<1>1. \A w \in Writers : Path(w) \in Writers
  BY DEF Path, Writers
<1> QED
  BY <1>1, LogsAssumption DEF LogsTypeInv, LogsTypeOK, Disks, Records, Rotates

LEMMA LineFailsType ==
    ASSUME LogsTypeInv, NEW w \in Writers, LineFails(w)
    PROVE  LogsTypeInv'
<1>1. /\ log[w] \in LogStates(Len(text)) /\ log[w].mem \in Seq(Lines) /\ Len(log[w].mem) <= Memory
      /\ Len(log[w].buf) <= Buffer /\ Len(log[w].buf) \in Nat /\ Len(written) \in Nat
      /\ \A f \in 1..Len(text) : Len(text[f]) \in Nat
      /\ log[w].size \in Nat /\ log[w].size <= Len(written)
  BY LogsTypesAre DEF LogsTypeInv, LinesAreCounted
<1>2. /\ written' \in Seq(Writers) /\ Len(written') = Len(written) + 1 /\ Len(written') <= MaxLines
      /\ Line \in Lines
  BY AcceptsIs DEF LineFails
<1>3. PICK mem \in Seq(Lines) :
        /\ mem = IF Rotates(w) THEN Add(log[w].mem, Line) ELSE log[w].mem
        /\ Len(mem) <= Memory
  BY <1>1, <1>2, AddIs
<1> DEFINE x == [log[w] EXCEPT !.bad = TRUE, !.mem = mem]
<1>4. log' = [log EXCEPT ![w] = x]
  BY <1>3 DEF LineFails
<1>5. /\ x \in LogStates(Len(text)) /\ x.buf = log[w].buf /\ x.mem = mem /\ x.size = log[w].size
      /\ x.pc = log[w].pc /\ x.name = log[w].name /\ x.open = log[w].open
  BY <1>1 DEF LogStates
<1> HIDE DEF x
<1>6. /\ UNCHANGED <<place, text, current, archives, clock, disk, rotated>>
      /\ harmed' \in BOOLEAN /\ log[w].pc = "ready"
  BY DEF LineFails, Accepts, Ready
<1>7. /\ disk' \in Disks /\ disk.faults <= disk'.faults /\ rotated' \in Records
      /\ text' \in Seq(Seq(Lines)) /\ Len(text') = Len(text)
  BY <1>6, KeptRecords
<1>8. Rotates(w) /\ x.open => current[Path(w)] # 0
  BY <1>5 DEF LogsTypeInv, FilesAreThere
<1>9. \A f \in 1..Len(text) : Len(text'[f]) + Len(x.buf) + Len(written)
                                <= Len(text[f]) + Len(log[w].buf) + Len(written')
  BY <1>1, <1>2, <1>5, <1>6
<1>10. x.size <= Len(written') /\ Len(written) <= Len(written')
  BY <1>1, <1>2, <1>5
<1> QED
  BY <1>1, <1>2, <1>3, <1>4, <1>5, <1>6, <1>7, <1>8, <1>9, <1>10, QuietStepType

\* What RealSize reckons with is there.
LEMMA ReckonIs ==
    ASSUME LogsTypeInv, NEW w \in Writers, Accepts(w)
    PROVE  Reckon(w) \in Nat /\ Reckon(w) <= Len(written')
<1>1. Len(written') = Len(written) + 1 /\ Len(written) \in Nat
  BY AcceptsIs, LogsTypesAre
<1>2. log[w].size \in Nat /\ log[w].size <= Len(written)
  BY LogsTypesAre DEF LogsTypeInv, LinesAreCounted
<1>3. IsThere(w) => RealSize(w) \in Nat /\ RealSize(w) <= Len(written)
  <2> SUFFICES ASSUME IsThere(w) PROVE RealSize(w) \in Nat /\ RealSize(w) <= Len(written)
    OBVIOUS
  <2> DEFINE f == current[Path(w)]
  <2>1. f \in 1..Len(text)
    <3>1. Path(w) \in Writers
      BY DEF Path, Writers
    <3> QED
      BY <3>1, LogsTypesAre DEF IsThere
  <2>2. /\ Len(text[f]) + Buffered <= Len(written) /\ Len(text[f]) \in Nat
    BY <2>1, LogsTypesAre DEF LogsTypeInv, LinesAreCounted
  <2>3. /\ Buffered = Len(log[w].buf) + Len(log[Other(w)].buf)
        /\ Len(log[w].buf) \in Nat /\ Len(log[Other(w)].buf) \in Nat
    BY BothBuffers
  <2>4. Buffer \in Nat /\ (NoRoom(w) => Buffer = Len(log[w].buf))
    BY LogsAssumption DEF NoRoom
  <2>5. RealSize(w) = Len(text[f]) + IF NoRoom(w) THEN Buffer ELSE 0
    BY DEF RealSize
  <2> DEFINE a == Len(text[f])
  <2> DEFINE b == Len(log[w].buf)
  <2> DEFINE c == Len(log[Other(w)].buf)
  <2>6. a \in Nat /\ b \in Nat /\ c \in Nat /\ a + (b + c) <= Len(written)
    BY <2>2, <2>3
  <2>7. RealSize(w) = a + b \/ RealSize(w) = a
    <3>1. CASE NoRoom(w)
      BY <2>4, <2>5, <3>1
    <3>2. CASE ~NoRoom(w)
      BY <2>2, <2>5, <3>2
    <3> QED
      BY <3>1, <3>2
  <2> HIDE DEF a, b, c
  <2> QED
    BY <1>1, <2>6, <2>7
<1>4. Reckon(w) = log[w].size + 1 \/ (IsThere(w) /\ Reckon(w) = RealSize(w))
  BY DEF Reckon
<1> QED
  BY <1>1, <1>2, <1>3, <1>4

LEMMA WriteLineType ==
    ASSUME LogsTypeInv, NEW w \in Writers, WriteLine(w)
    PROVE  LogsTypeInv'
<1>1. /\ log[w] \in LogStates(Len(text)) /\ Len(log[w].mem) <= Memory
      /\ log[w].buf \in Seq(Lines) /\ Len(log[w].buf) \in 0..Buffer /\ Buffer \in Nat \ {0}
      /\ Len(written) \in Nat /\ MaxLines \in Nat
      /\ \A f \in 1..Len(text) : Len(text[f]) \in Nat
      /\ log[w].size \in Nat /\ log[w].size <= Len(written)
  BY LogsTypesAre DEF LogsTypeInv, LinesAreCounted
<1>2. /\ written' \in Seq(Writers) /\ Len(written') = Len(written) + 1 /\ Len(written') <= MaxLines
      /\ Line \in Lines
  BY AcceptsIs DEF WriteLine
<1>3. PICK buf \in Seq(Lines) :
        /\ buf = IF NoRoom(w) THEN <<Line>> ELSE Append(log[w].buf, Line)
        /\ Len(buf) <= Buffer /\ Len(buf) = IF NoRoom(w) THEN 1 ELSE Len(log[w].buf) + 1
  <2>1. <<Line>> \in Seq(Lines) /\ Len(<<Line>>) = 1
    BY <1>2
  <2>2. /\ Append(log[w].buf, Line) \in Seq(Lines)
        /\ Len(Append(log[w].buf, Line)) = Len(log[w].buf) + 1
    BY <1>1, <1>2, AppendProperties
  <2>3. CASE NoRoom(w)
    <3> DEFINE s == <<Line>>
    <3>1. s \in Seq(Lines) /\ Len(s) = 1 /\ Len(s) <= Buffer
      BY <1>1, <2>1
    <3>2. s = IF NoRoom(w) THEN <<Line>> ELSE Append(log[w].buf, Line)
      BY <2>3
    <3> HIDE DEF s
    <3> QED
      BY <2>3, <3>1, <3>2
  <2>4. CASE ~NoRoom(w)
    <3>1. Len(log[w].buf) + 1 <= Buffer
      BY <1>1, <2>4 DEF NoRoom
    <3> QED
      BY <2>2, <2>4, <3>1
  <2> QED
    BY <2>3, <2>4
<1>4. PICK size \in Nat :
        /\ size = IF Rotates(w) THEN Reckon(w) ELSE log[w].size
        /\ size <= Len(written')
  BY <1>1, <1>2, ReckonIs DEF WriteLine
<1>5. PICK pc \in {"ready", "full"} : pc = IF Rotates(w) /\ IsFull(w) THEN "full" ELSE log[w].pc
  BY DEF WriteLine, Accepts, Ready
<1> DEFINE x == [log[w] EXCEPT !.buf = buf, !.size = size, !.pc = pc]
<1>6. log' = [log EXCEPT ![w] = x]
  BY <1>3, <1>4, <1>5 DEF WriteLine
<1>7. /\ x \in LogStates(Len(text)) /\ x.buf = buf /\ x.mem = log[w].mem /\ x.size = size
      /\ x.pc = pc /\ x.name = log[w].name /\ x.open = log[w].open
  <2>1. size \in 0..MaxLines
    BY <1>1, <1>2, <1>4
  <2> QED
    BY <1>1, <2>1 DEF LogStates
<1> HIDE DEF x
<1>8. /\ UNCHANGED <<place, current, archives, clock, disk, rotated, harmed>>
      /\ text' = (IF NoRoom(w) THEN Flushed(w) ELSE text) /\ log[w].pc = "ready"
  BY DEF WriteLine, Accepts, Ready
<1>9. /\ disk' \in Disks /\ disk.faults <= disk'.faults /\ rotated' \in Records
      /\ harmed' \in BOOLEAN
      /\ text' \in Seq(Seq(Lines)) /\ Len(text') = Len(text)
  <2>1. Flushed(w) \in Seq(Seq(Lines)) /\ Len(Flushed(w)) = Len(text)
    BY FlushedIs
  <2>2. text' \in Seq(Seq(Lines)) /\ Len(text') = Len(text)
    BY <1>8, <2>1, KeptRecords
  <2> QED
    BY <1>8, <2>2, KeptRecords
<1>10. Rotates(w) /\ x.open => current[Path(w)] # 0
  BY <1>7 DEF LogsTypeInv, FilesAreThere
<1>11. \A f \in 1..Len(text) : Len(text'[f]) + Len(x.buf) + Len(written)
                                <= Len(text[f]) + Len(log[w].buf) + Len(written')
  <2> SUFFICES ASSUME NEW f \in 1..Len(text)
               PROVE  Len(text'[f]) + Len(buf) + Len(written)
                        <= Len(text[f]) + Len(log[w].buf) + Len(written')
    BY <1>7
  <2> DEFINE a == Len(text[f])
  <2> DEFINE b == Len(log[w].buf)
  <2> DEFINE d == Len(text'[f])
  <2>1. a \in Nat /\ b \in Nat /\ Len(written) \in Nat
    BY <1>1
  <2>2. CASE NoRoom(w)
    <3>1. Len(buf) = 1 /\ (d = a \/ d = a + b)
      BY <1>3, <1>8, <2>2, FlushedIs
    <3> HIDE DEF a, b, d
    <3>2. d + 1 + Len(written) <= a + b + (Len(written) + 1)
      BY <2>1, <3>1
    <3> QED
      BY <1>2, <3>1, <3>2 DEF a, b, d
  <2>3. CASE ~NoRoom(w)
    <3>1. Len(buf) = b + 1 /\ d = a
      BY <1>3, <1>8, <2>3
    <3> HIDE DEF a, b, d
    <3>2. a + (b + 1) + Len(written) <= a + b + (Len(written) + 1)
      BY <2>1
    <3> QED
      BY <1>2, <3>1, <3>2 DEF a, b, d
  <2> QED
    BY <2>2, <2>3
<1>12. x.size <= Len(written') /\ Len(written) <= Len(written') /\ Len(written) < Len(written')
  BY <1>1, <1>2, <1>4, <1>7
<1>13. /\ pc = "full" => Rotates(w) /\ current[Path(w)] # 0
       /\ x.pc = "renamed" <=> log[w].pc = "renamed"
       /\ x.pc # "named"
  BY <1>5, <1>7, <1>8 DEF IsFull, IsThere
<1> QED
  BY <1>1, <1>2, <1>3, <1>5, <1>6, <1>7, <1>8, <1>9, <1>10, <1>11, <1>12, <1>13, QuietStepType

LEMMA FlushLoopType ==
    ASSUME LogsTypeInv, NEW w \in Writers, FlushLoop(w)
    PROVE  LogsTypeInv'
<1>1. /\ log[w] \in LogStates(Len(text)) /\ Len(log[w].mem) <= Memory
      /\ log[w].buf \in Seq(Lines) /\ Len(log[w].buf) \in 0..Buffer /\ Buffer \in Nat \ {0}
      /\ Len(written) \in Nat /\ Len(written) <= MaxLines
      /\ \A f \in 1..Len(text) : Len(text[f]) \in Nat
      /\ log[w].size \in Nat /\ log[w].size <= Len(written)
  <2>1. Len(written) \in Nat /\ Len(written) <= MaxLines
    BY LogsTypesAre DEF LogsTypeInv, LogsTypeOK
  <2> QED
    BY <2>1, LogsTypesAre DEF LogsTypeInv, LinesAreCounted
<1>2. PICK buf \in Seq(Lines), bad \in BOOLEAN :
        /\ log' = [log EXCEPT ![w] = [log[w] EXCEPT !.buf = buf, !.bad = bad]]
        /\ \/ text' = text /\ Len(buf) = Len(log[w].buf)
           \/ text' = Flushed(w) /\ Len(buf) = 0
        /\ harmed' \in BOOLEAN
  <2>1. CASE disk.full
    <3>1. [log EXCEPT ![w].bad = TRUE]
            = [log EXCEPT ![w] = [log[w] EXCEPT !.buf = log[w].buf, !.bad = TRUE]]
      BY <1>1 DEF LogStates
    <3> QED
      BY <1>1, <2>1, <3>1 DEF FlushLoop
  <2>2. CASE ~disk.full
    <3>1. log[w].bad = FALSE /\ harmed \in BOOLEAN
      BY <1>1, KeptRecords DEF FlushLoop, LogStates
    <3>2. [log EXCEPT ![w].buf = <<>>]
            = [log EXCEPT ![w] = [log[w] EXCEPT !.buf = <<>>, !.bad = FALSE]]
      BY <1>1, <3>1 DEF LogStates
    <3>3. <<>> \in Seq(Lines) /\ Len(<<>>) = 0
      OBVIOUS
    <3> QED
      BY <1>1, <2>2, <3>1, <3>2, <3>3 DEF FlushLoop
  <2> QED
    BY <2>1, <2>2
<1> DEFINE x == [log[w] EXCEPT !.buf = buf, !.bad = bad]
<1>3. log' = [log EXCEPT ![w] = x]
  BY <1>2
<1>4. /\ x \in LogStates(Len(text)) /\ x.buf = buf /\ x.mem = log[w].mem /\ x.size = log[w].size
      /\ x.pc = log[w].pc /\ x.name = log[w].name /\ x.open = log[w].open
  BY <1>1 DEF LogStates
<1> HIDE DEF x
<1>5. UNCHANGED <<place, written, current, archives, clock, disk, rotated>>
  BY DEF FlushLoop
<1>6. /\ disk' \in Disks /\ disk.faults <= disk'.faults /\ rotated' \in Records
      /\ text' \in Seq(Seq(Lines)) /\ Len(text') = Len(text) /\ written' \in Seq(Writers)
  <2>1. Flushed(w) \in Seq(Seq(Lines)) /\ Len(Flushed(w)) = Len(text)
    BY FlushedIs
  <2>2. text' \in Seq(Seq(Lines)) /\ Len(text') = Len(text)
    BY <1>2, <2>1, KeptRecords
  <2> QED
    BY <1>5, <2>2, KeptRecords
<1>7. /\ Rotates(w) /\ x.open => current[Path(w)] # 0
      /\ x.pc # "ready" => Rotates(w)
      /\ x.pc = "named" => x.name \in Names /\ ~x.open
  BY <1>4 DEF LogsTypeInv, FilesAreThere
<1>8. \A f \in 1..Len(text) : Len(text'[f]) + Len(x.buf) + Len(written)
                                <= Len(text[f]) + Len(log[w].buf) + Len(written')
  <2> SUFFICES ASSUME NEW f \in 1..Len(text)
               PROVE  Len(text'[f]) + Len(buf) + Len(written)
                        <= Len(text[f]) + Len(log[w].buf) + Len(written)
    BY <1>4, <1>5
  <2> DEFINE a == Len(text[f])
  <2> DEFINE b == Len(log[w].buf)
  <2> DEFINE d == Len(text'[f])
  <2>1. a \in Nat /\ b \in Nat /\ Len(written) \in Nat
    BY <1>1
  <2>2. \/ d = a /\ Len(buf) = b
        \/ (d = a \/ d = a + b) /\ Len(buf) = 0
    <3>1. Len(Flushed(w)[f]) = a \/ Len(Flushed(w)[f]) = a + b
      BY FlushedIs
    <3> QED
      BY <1>2, <3>1
  <2> HIDE DEF a, b, d
  <2>3. d + Len(buf) + Len(written) <= a + b + Len(written)
    BY <2>1, <2>2
  <2> QED
    BY <2>3 DEF a, b, d
<1>9. x.size <= Len(written') /\ Len(written) <= Len(written') /\ Len(x.buf) <= Buffer
  BY <1>1, <1>2, <1>4, <1>5
<1> QED
  BY <1>1, <1>2, <1>3, <1>4, <1>5, <1>6, <1>7, <1>8, <1>9, QuietStepType

\* Of the names of this second one is free: there are fewer archives than numbers.
LEMMA ResolveConflictIs ==
    ASSUME LogsTypeInv
    PROVE  /\ ResolveConflict \in Names /\ ResolveConflict.time = clock
           /\ ResolveConflict \notin DOMAIN archives
<1> DEFINE Numbered(seq) == [time |-> clock, seq |-> seq]
<1> DEFINE Unused == {seq \in 0..MaxLines : Numbered(seq) \notin DOMAIN archives}
<1>1. MaxLines \in Nat /\ clock \in 1..MaxTime
  BY LogsTypesAre, KeptRecords
<1>2. IsFiniteSet(DOMAIN archives) /\ Cardinality(DOMAIN archives) < MaxLines + 1
  <2>1. /\ Cardinality(DOMAIN archives) + Busy("main") + Busy("other") <= Len(written)
        /\ Cardinality(DOMAIN archives) \in Nat /\ IsFiniteSet(DOMAIN archives)
        /\ Len(written) \in Nat /\ Len(written) <= MaxLines
    BY LogsTypesAre DEF LogsTypeInv, LinesAreCounted, LogsTypeOK
  <2>2. Busy("main") \in Nat /\ Busy("other") \in Nat
    BY DEF Busy
  <2> QED
    BY <1>1, <2>1, <2>2
<1>3. Unused # {}
  <2> SUFFICES ASSUME Unused = {} PROVE FALSE
    OBVIOUS
  <2> DEFINE f == [seq \in 0..MaxLines |-> Numbered(seq)]
  <2>1. f \in [0..MaxLines -> DOMAIN archives]
    OBVIOUS
  <2>2. \A x, y \in 0..MaxLines : f[x] = f[y] => x = y
    <3>1. \A x, y \in 0..MaxLines : Numbered(x) = Numbered(y) => Numbered(x).seq = Numbered(y).seq
      OBVIOUS
    <3>2. \A x \in 0..MaxLines : Numbered(x).seq = x /\ f[x] = Numbered(x)
      OBVIOUS
    <3> HIDE DEF f, Numbered
    <3> QED
      BY <3>1, <3>2
  <2> HIDE DEF f
  <2>3. IsFiniteSet(0..MaxLines) /\ Cardinality(0..MaxLines) = MaxLines + 1
    BY <1>1, FS_Interval
  <2> DEFINE S == 0..MaxLines
  <2> DEFINE T == DOMAIN archives
  <2>4. IsFiniteSet(S) /\ IsFiniteSet(T) /\ Cardinality(T) < Cardinality(S) /\ f \in [S -> T]
    BY <1>2, <2>1, <2>3
  <2>5. \A x, y \in S : f[x] = f[y] => x = y
    BY <2>2
  <2> HIDE DEF S, T
  <2> QED
    BY <2>4, <2>5, FS_PigeonHole
<1>4. PICK seq \in Unused : \A s \in Unused : seq <= s
  <2>1. Unused \in SUBSET Nat
    BY <1>1
  <2> HIDE DEF Unused
  <2> QED
    BY <1>3, <2>1, LeastNumber
<1>5. /\ Numbered(seq) \in Names /\ Numbered(seq).time = clock
      /\ Numbered(seq) \notin DOMAIN archives
      /\ \A s \in 0..(Numbered(seq).seq - 1) : Numbered(s) \in DOMAIN archives
  BY <1>1, <1>4 DEF Names
<1> QED
  BY <1>5 DEF ResolveConflict

LEMMA NameArchiveType ==
    ASSUME LogsTypeInv, NEW w \in Writers, NameArchive(w)
    PROVE  LogsTypeInv'
<1>1. /\ log[w] \in LogStates(Len(text)) /\ Len(log[w].mem) <= Memory
      /\ Len(log[w].buf) \in Nat /\ Buffer \in Nat \ {0}
      /\ Len(written) \in Nat /\ Len(written) <= MaxLines
      /\ \A f \in 1..Len(text) : Len(text[f]) \in Nat
      /\ log[w].size \in Nat /\ log[w].size <= Len(written)
  <2>1. Len(written) \in Nat /\ Len(written) <= MaxLines
    BY LogsTypesAre DEF LogsTypeInv, LogsTypeOK
  <2> QED
    BY <2>1, LogsTypesAre DEF LogsTypeInv, LinesAreCounted
<1>2. PICK name \in Names : name = ResolveConflict
  BY ResolveConflictIs
<1> DEFINE x == [log[w] EXCEPT !.open = FALSE, !.buf = <<>>, !.pc = "named", !.name = name]
<1>3. log' = [log EXCEPT ![w] = x]
  BY <1>2 DEF NameArchive
<1>4. /\ x \in LogStates(Len(text)) /\ x.buf = <<>> /\ x.mem = log[w].mem /\ x.size = log[w].size
      /\ x.pc = "named" /\ x.name = name /\ x.open = FALSE
  <2>1. <<>> \in Seq(Lines)
    OBVIOUS
  <2> QED
    BY <1>1, <2>1 DEF LogStates
<1> HIDE DEF x
<1>5. /\ UNCHANGED <<place, written, current, archives, clock, disk>>
      /\ text' = text \/ text' = Flushed(w)
      /\ log[w].pc = "full" /\ harmed' \in BOOLEAN
  BY KeptRecords DEF NameArchive, Close
<1>6. rotated' \in Records
  BY KeptRecords DEF NameArchive, Records
<1>7. /\ disk' \in Disks /\ disk.faults <= disk'.faults /\ written' \in Seq(Writers)
      /\ text' \in Seq(Seq(Lines)) /\ Len(text') = Len(text)
  <2>1. Flushed(w) \in Seq(Seq(Lines)) /\ Len(Flushed(w)) = Len(text)
    BY FlushedIs
  <2>2. text' \in Seq(Seq(Lines)) /\ Len(text') = Len(text)
    BY <1>5, <2>1, KeptRecords
  <2> QED
    BY <1>5, <2>2, KeptRecords
<1>8. Rotates(w)
  BY <1>5 DEF LogsTypeInv, FilesAreThere
<1>9. \A f \in 1..Len(text) : Len(text'[f]) + Len(x.buf) + Len(written)
                                <= Len(text[f]) + Len(log[w].buf) + Len(written')
  <2> SUFFICES ASSUME NEW f \in 1..Len(text)
               PROVE  Len(text'[f]) + Len(<<>>) + Len(written)
                        <= Len(text[f]) + Len(log[w].buf) + Len(written)
    BY <1>4, <1>5
  <2> DEFINE a == Len(text[f])
  <2> DEFINE b == Len(log[w].buf)
  <2> DEFINE d == Len(text'[f])
  <2>1. a \in Nat /\ b \in Nat /\ Len(written) \in Nat /\ Len(<<>>) = 0
    BY <1>1
  <2>2. d = a \/ d = a + b
    <3>1. Len(Flushed(w)[f]) = a \/ Len(Flushed(w)[f]) = a + b
      BY FlushedIs
    <3> QED
      BY <1>5, <3>1
  <2> HIDE DEF a, b, d
  <2>3. d + Len(<<>>) + Len(written) <= a + b + Len(written)
    BY <2>1, <2>2
  <2> QED
    BY <2>3 DEF a, b, d
<1>10. x.size <= Len(written') /\ Len(written) <= Len(written') /\ Len(x.buf) <= Buffer
  <2>1. Len(<<>>) = 0
    OBVIOUS
  <2> QED
    BY <1>1, <1>4, <1>5, <2>1
<1> QED
  BY <1>1, <1>3, <1>4, <1>5, <1>6, <1>7, <1>8, <1>9, <1>10, QuietStepType

LEMMA RenameFailsType ==
    ASSUME LogsTypeInv, NEW w \in Writers, RenameFails(w)
    PROVE  LogsTypeInv'
<1>1. /\ log[w].mem \in Seq(Lines) /\ Len(log[w].mem) <= Memory
      /\ Len(log[w].buf) \in Nat /\ Buffer \in Nat \ {0}
      /\ Len(written) \in Nat /\ Len(written) <= MaxLines
      /\ \A f \in 1..Len(text) : Len(text[f]) \in Nat
      /\ log[w].size \in 0..MaxLines /\ log[w].size <= Len(written)
  <2>1. Len(written) \in Nat /\ Len(written) <= MaxLines
    BY LogsTypesAre DEF LogsTypeInv, LogsTypeOK
  <2> QED
    BY <2>1, LogsTypesAre DEF LogsTypeInv, LinesAreCounted
<1>2. /\ UNCHANGED <<place, written, text, current, archives, clock, rotated, harmed>>
      /\ log[w].pc = "named"
      /\ disk' = [disk EXCEPT !.faults = @ + 1] /\ disk.faults < MaxLogFaults
  BY DEF RenameFails, Faulty
<1>3. current[Path(w)] \in 1..Len(text)
  <2>1. current[Path(w)] # 0 /\ Path(w) \in Writers
    BY <1>2, KeptRecords DEF LogsTypeInv, FilesAreThere
  <2>2. current[Path(w)] \in 0..Len(text) /\ Len(text) \in Nat
    BY <2>1, LogsTypesAre
  <2> QED
    BY <2>1, <2>2
<1> DEFINE x == [Opened(current[Path(w)], log[w].size) EXCEPT !.mem = log[w].mem]
<1>4. log' = [log EXCEPT ![w] = x]
  BY DEF RenameFails
<1>5. /\ x \in LogStates(Len(text)) /\ x.buf = <<>> /\ x.mem = log[w].mem /\ x.size = log[w].size
      /\ x.pc = "ready"
  <2>1. <<>> \in Seq(Lines)
    OBVIOUS
  <2> QED
    BY <1>1, <1>3, <2>1 DEF LogStates, Opened
<1> HIDE DEF x
<1>6. /\ disk' \in Disks /\ disk.faults <= disk'.faults /\ written' \in Seq(Writers)
      /\ text' \in Seq(Seq(Lines)) /\ Len(text') = Len(text) /\ rotated' \in Records
      /\ harmed' \in BOOLEAN
  <2>1. disk \in Disks /\ disk.faults \in Nat /\ MaxLogFaults \in Nat
    BY KeptRecords
  <2>2. disk' \in Disks /\ disk'.faults = disk.faults + 1
    BY <1>2, <2>1 DEF Disks
  <2> QED
    BY <1>2, <2>1, <2>2, KeptRecords
<1>7. Len(x.buf) = 0 /\ Len(x.buf) <= Buffer
  BY <1>1, <1>5
<1>8. \A f \in 1..Len(text) : Len(text'[f]) + Len(x.buf) + Len(written)
                                <= Len(text[f]) + Len(log[w].buf) + Len(written')
  <2>1. \A a, b, c \in Nat : a + 0 + c <= a + b + c
    OBVIOUS
  <2> QED
    BY <1>1, <1>2, <1>7, <2>1
<1>9. x.size <= Len(written') /\ Len(written) <= Len(written')
  BY <1>1, <1>2, <1>5
<1>10. current[Path(w)] # 0
  BY <1>3
<1> QED
  BY <1>1, <1>2, <1>4, <1>5, <1>6, <1>7, <1>8, <1>9, <1>10, QuietStepType

LEMMA RebuildLoggerType ==
    ASSUME LogsTypeInv, RebuildLogger
    PROVE  LogsTypeInv'
<1>1. /\ "main" \in Writers /\ Path("main") = "main" /\ Rotates("main")
      /\ log["main"].pc = "ready" /\ log["main"].open
  BY DEF RebuildLogger, Writers, Path, Rotates, Ready
<1>2. /\ Len(log["main"].buf) \in Nat /\ Buffer \in Nat \ {0} /\ Memory \in Nat
      /\ Len(written) \in Nat /\ Len(written) <= MaxLines /\ MaxLines \in Nat
      /\ \A f \in 1..Len(text) : /\ Len(text[f]) \in Nat
                                 /\ Len(text[f]) + Len(log["main"].buf) <= Len(written)
  <2>1. Len(written) \in Nat /\ Len(written) <= MaxLines /\ MaxLines \in Nat
    BY LogsTypesAre DEF LogsTypeInv, LogsTypeOK
  <2>2. \A f \in 1..Len(text) : Len(text[f]) \in Nat /\ Len(text[f]) + Buffered <= Len(written)
    BY LogsTypesAre DEF LogsTypeInv, LinesAreCounted
  <2>3. /\ Buffered = Len(log["main"].buf) + Len(log["other"].buf)
        /\ Len(log["main"].buf) \in Nat /\ Len(log["other"].buf) \in Nat
    BY <1>1, BothBuffers DEF Other
  <2>4. \A f \in 1..Len(text) : Len(text[f]) + Len(log["main"].buf) <= Len(written)
    <3>1. \A a, b, c, d \in Nat : a + (b + c) <= d => a + b <= d
      OBVIOUS
    <3> QED
      BY <2>1, <2>2, <2>3, <3>1
  <2> QED
    BY <2>1, <2>2, <2>3, <2>4, LogsTypesAre
<1>3. PICK f \in 1..Len(text) : f = current["main"]
  <2>1. current["main"] # 0
    BY <1>1 DEF LogsTypeInv, FilesAreThere
  <2>2. current["main"] \in 0..Len(text) /\ Len(text) \in Nat
    BY <1>1, LogsTypesAre
  <2> QED
    BY <2>1, <2>2
<1>4. /\ UNCHANGED <<place, written, current, archives, clock, disk, rotated>>
      /\ text' = text \/ text' = Flushed("main")
      /\ harmed' \in BOOLEAN
  BY KeptRecords DEF RebuildLogger, Close
<1>5. \A g \in 1..Len(text) : /\ Len(text'[g]) \in Nat
                              /\ Len(text'[g]) <= Len(text[g]) + Len(log["main"].buf)
  <2> SUFFICES ASSUME NEW g \in 1..Len(text)
               PROVE  Len(text'[g]) \in Nat /\ Len(text'[g]) <= Len(text[g]) + Len(log["main"].buf)
    OBVIOUS
  <2>1. \/ Len(Flushed("main")[g]) = Len(text[g])
        \/ Len(Flushed("main")[g]) = Len(text[g]) + Len(log["main"].buf)
    BY <1>1, FlushedIs
  <2>2. Len(text'[g]) = Len(text[g]) \/ Len(text'[g]) = Len(text[g]) + Len(log["main"].buf)
    BY <1>4, <2>1
  <2> DEFINE a == Len(text[g])
  <2> DEFINE b == Len(log["main"].buf)
  <2> DEFINE d == Len(text'[g])
  <2>3. a \in Nat /\ b \in Nat /\ (d = a \/ d = a + b)
    BY <1>2, <2>2
  <2> HIDE DEF a, b, d
  <2>4. d \in Nat /\ d <= a + b
    BY <2>3
  <2> QED
    BY <2>4 DEF a, b, d
<1>6. PICK size \in 0..MaxLines : size = Len(text'[f]) /\ size <= Len(written)
  <2>1. \A a, b, c, d, e \in Nat : a <= b + c /\ b + c <= d /\ d <= e => a <= d /\ a \in 0..e
    OBVIOUS
  <2> QED
    BY <1>2, <1>5, <2>1
<1> DEFINE x == Opened(f, size)
<1>7. log' = [log EXCEPT !["main"] = x]
  BY <1>3, <1>6 DEF RebuildLogger
<1>8. /\ x \in LogStates(Len(text)) /\ x.buf = <<>> /\ x.mem = <<>> /\ x.size = size
      /\ x.pc = "ready"
  <2>1. <<>> \in Seq(Lines)
    OBVIOUS
  <2> QED
    BY <2>1 DEF LogStates, Opened
<1> HIDE DEF x
<1>9. /\ disk' \in Disks /\ disk.faults <= disk'.faults /\ written' \in Seq(Writers)
      /\ text' \in Seq(Seq(Lines)) /\ Len(text') = Len(text) /\ rotated' \in Records
  <2>1. Flushed("main") \in Seq(Seq(Lines)) /\ Len(Flushed("main")) = Len(text)
    BY <1>1, FlushedIs
  <2>2. text' \in Seq(Seq(Lines)) /\ Len(text') = Len(text)
    BY <1>4, <2>1, KeptRecords
  <2> QED
    BY <1>4, <2>2, KeptRecords
<1>10. Len(x.buf) = 0 /\ Len(x.buf) <= Buffer /\ Len(x.mem) <= Memory
  <2>1. Len(<<>>) = 0
    OBVIOUS
  <2> QED
    BY <1>2, <1>8, <2>1
<1>11. \A g \in 1..Len(text) : Len(text'[g]) + Len(x.buf) + Len(written)
                                 <= Len(text[g]) + Len(log["main"].buf) + Len(written')
  <2>1. \A a, b, c, d \in Nat : d <= a + b => d + 0 + c <= a + b + c
    OBVIOUS
  <2> QED
    BY <1>2, <1>4, <1>5, <1>10, <2>1
<1>12. x.size <= Len(written') /\ Len(written) <= Len(written') /\ Len(written') <= MaxLines
  BY <1>2, <1>4, <1>6, <1>8
<1>13. current[Path("main")] # 0
  BY <1>1, <1>3
<1> QED
  BY <1>1, <1>4, <1>7, <1>8, <1>9, <1>10, <1>11, <1>12, <1>13, QuietStepType

LEMMA PathsAre ==
    ASSUME LogsTypeInv, NEW w \in Writers
    PROVE  /\ Path(w) \in Writers /\ Path(Path(w)) = Path(w)
           /\ Rotates(w) => Path(w) = w
           /\ Rotates(w) /\ Path(Other(w)) = Path(w) => ~Rotates(Other(w)) /\ place = "service"
BY KeptRecords DEF Path, Rotates, Writers, Other

\* The file has another name: that of an archive.
LEMMA RenamedIs ==
    ASSUME LogsTypeInv, NEW w \in Writers, Renamed(w)
    PROVE  /\ log[w].pc = "named" /\ log[w].name \in Names /\ Rotates(w) /\ ~log[w].open
           /\ current[Path(w)] \in 1..Len(text)
           /\ DOMAIN archives' = DOMAIN archives \cup {log[w].name}
           /\ DOMAIN archives' \subseteq Names
           /\ archives'[log[w].name] = current[Path(w)]
           /\ \A n \in DOMAIN archives : n # log[w].name => archives'[n] = archives[n]
           /\ Range(archives') \subseteq 1..Len(text)
           /\ IsFiniteSet(DOMAIN archives')
           /\ Cardinality(DOMAIN archives') \in Nat
           /\ Cardinality(DOMAIN archives') <= Cardinality(DOMAIN archives) + 1
           /\ rotated' \in Records
           /\ rotated'.at = Append(rotated.at, log[w].name.time)
           /\ rotated'.met = rotated.met /\ rotated'.removed = rotated.removed
<1>1. /\ log[w].pc = "named" /\ log[w].name \in Names /\ Rotates(w) /\ ~log[w].open
      /\ current[Path(w)] # 0
  BY DEF Renamed, LogsTypeInv, FilesAreThere
<1>2. current[Path(w)] \in 1..Len(text)
  <2>1. current[Path(w)] \in 0..Len(text) /\ Len(text) \in Nat
    BY LogsTypesAre, PathsAre
  <2> QED
    BY <1>1, <2>1
<1> DEFINE name == log[w].name
<1>3. /\ DOMAIN archives \subseteq Names /\ Range(archives) \subseteq 1..Len(text)
      /\ IsFiniteSet(DOMAIN archives) /\ Cardinality(DOMAIN archives) \in Nat
  BY LogsTypesAre DEF LogsTypeInv, LogsTypeOK
<1>4. /\ DOMAIN archives' = DOMAIN archives \cup {name}
      /\ archives'[name] = current[Path(w)]
      /\ \A n \in DOMAIN archives : n # name => archives'[n] = archives[n]
  BY DEF Renamed
<1>5. /\ IsFiniteSet(DOMAIN archives \cup {name})
      /\ Cardinality(DOMAIN archives \cup {name}) \in Nat
      /\ Cardinality(DOMAIN archives \cup {name}) <= Cardinality(DOMAIN archives) + 1
  <2> DEFINE D == DOMAIN archives
  <2>1. IsFiniteSet(D) /\ Cardinality(D) \in Nat
    BY <1>3
  <2> HIDE DEF D, name
  <2>2. /\ IsFiniteSet(D \cup {name})
        /\ Cardinality(D \cup {name}) = IF name \in D THEN Cardinality(D) ELSE Cardinality(D) + 1
    BY <2>1, FS_AddElement
  <2>3. Cardinality(D \cup {name}) \in Nat /\ Cardinality(D \cup {name}) <= Cardinality(D) + 1
    BY <2>1, <2>2
  <2> QED
    BY <2>2, <2>3 DEF D
<1>6. Range(archives') \subseteq 1..Len(text)
  <2>1. \A n \in DOMAIN archives : archives[n] \in 1..Len(text)
    BY <1>3 DEF Range
  <2> QED
    BY <1>2, <1>4, <2>1 DEF Range
<1>7. /\ rotated' = [rotated EXCEPT !.at = Append(@, name.time)]
      /\ rotated \in Records /\ Append(rotated.at, name.time) \in Seq(1..MaxTime)
  <2>1. rotated \in Records /\ rotated.at \in Seq(1..MaxTime)
    BY KeptRecords DEF Records
  <2>2. name.time \in 1..MaxTime
    BY <1>1 DEF Names
  <2> QED
    BY <2>1, <2>2, AppendProperties DEF Renamed
<1>8. /\ rotated' \in Records
      /\ rotated'.at = Append(rotated.at, name.time)
      /\ rotated'.met = rotated.met /\ rotated'.removed = rotated.removed
  BY <1>7 DEF Records
<1> QED
  BY <1>1, <1>2, <1>3, <1>4, <1>5, <1>6, <1>8

\* The writers that have renamed.
LEMMA RenamingIs ==
    /\ IsFiniteSet(Renaming) /\ Cardinality(Renaming) \in Nat
    /\ \A w : /\ Cardinality(Renaming \cup {w}) =
                   IF w \in Renaming THEN Cardinality(Renaming) ELSE Cardinality(Renaming) + 1
              /\ Cardinality(Renaming \ {w}) \in Nat
<1>1. IsFiniteSet(Writers)
  <2>1. IsFiniteSet({"main"})
    BY FS_Singleton
  <2>2. IsFiniteSet({"main"} \cup {"other"})
    BY <2>1, FS_AddElement
  <2>3. Writers = {"main"} \cup {"other"}
    BY DEF Writers
  <2> QED
    BY <2>2, <2>3
<1>2. IsFiniteSet(Renaming) /\ Cardinality(Renaming) \in Nat
  BY <1>1, FS_Subset, FS_CardinalityType DEF Renaming
<1> HIDE DEF Renaming
<1>3. ASSUME NEW w
      PROVE  /\ Cardinality(Renaming \cup {w}) =
                  IF w \in Renaming THEN Cardinality(Renaming) ELSE Cardinality(Renaming) + 1
             /\ Cardinality(Renaming \ {w}) \in Nat
  <2>1. IsFiniteSet(Renaming \ {w})
    BY <1>2, FS_RemoveElement
  <2> QED
    BY <1>2, <2>1, FS_AddElement, FS_CardinalityType
<1> QED
  BY <1>2, <1>3

\* A file that has just been opened is empty, and everybody who writes there writes to it.
LEMMA MovedIs ==
    ASSUME LogsTypeInv, NEW w \in Writers, MoveCurrent(w)
    PROVE  /\ Renamed(w) /\ UNCHANGED <<place, written, clock, disk, harmed>>
           /\ text' \in Seq(Seq(Lines)) /\ Len(text') = Len(text) + 1
           /\ DOMAIN text' = 1..(Len(text) + 1)
           /\ text'[Len(text) + 1] = <<>> /\ \A f \in 1..Len(text) : text'[f] = text[f]
           /\ current' \in [Writers -> 0..Len(text')]
           /\ \A o \in Writers : current'[o] = IF Path(o) = Path(w) THEN Len(text) + 1 ELSE current[o]
           /\ log' \in [Writers -> LogStates(Len(text'))] /\ log'[Other(w)] = log[Other(w)]
           /\ log'[w].file = Len(text) + 1 /\ log'[w].open /\ log'[w].buf = <<>>
           /\ log'[w].bad = FALSE /\ log'[w].mem = log[w].mem /\ log'[w].size = 0
           /\ log'[w].pc = "renamed" /\ log'[w].name = NoName
<1> DEFINE f == Len(text) + 1
<1>1. /\ text \in Seq(Seq(Lines)) /\ Len(text) \in Nat /\ MaxLines \in Nat
      /\ log[w].mem \in Seq(Lines) /\ current \in [Writers -> 0..Len(text)]
  BY LogsTypesAre
<1>2. /\ Renamed(w) /\ UNCHANGED <<place, written, clock, disk, harmed>>
      /\ text' = Append(text, <<>>)
      /\ current' = [o \in Writers |-> IF Path(o) = Path(w) THEN f ELSE current[o]]
      /\ log' = [log EXCEPT ![w] = [Opened(f, 0) EXCEPT !.pc = "renamed", !.mem = log[w].mem]]
  BY DEF MoveCurrent
<1>3. /\ text' \in Seq(Seq(Lines)) /\ Len(text') = f /\ text'[f] = <<>>
      /\ \A g \in 1..Len(text) : text'[g] = text[g]
  <2>1. <<>> \in Seq(Lines)
    OBVIOUS
  <2> QED
    BY <1>1, <1>2, <2>1, AppendProperties
<1>4. DOMAIN text' = 1..f
  BY <1>3, LenProperties
<1>5. /\ current' \in [Writers -> 0..f]
      /\ \A o \in Writers : current'[o] = IF Path(o) = Path(w) THEN f ELSE current[o]
  BY <1>1, <1>2
<1> DEFINE x == [Opened(f, 0) EXCEPT !.pc = "renamed", !.mem = log[w].mem]
<1>6. /\ x \in LogStates(f) /\ x.file = f /\ x.open = TRUE /\ x.buf = <<>> /\ x.bad = FALSE
      /\ x.mem = log[w].mem /\ x.size = 0 /\ x.pc = "renamed" /\ x.name = NoName
  <2>1. <<>> \in Seq(Lines) /\ f \in 1..f /\ 0 \in 0..MaxLines
    BY <1>1
  <2> HIDE DEF f
  <2> QED
    BY <1>1, <2>1 DEF LogStates, Opened
<1>7. log' = [log EXCEPT ![w] = x]
  BY <1>2
<1> HIDE DEF x
<1>8. f \in Nat /\ Len(text) <= f
  BY <1>1
<1> HIDE DEF f
<1>9. log' \in [Writers -> LogStates(f)] /\ log'[w] = x /\ log'[Other(w)] = log[Other(w)]
  BY <1>6, <1>7, <1>8, WriterIs
<1> QED
  BY <1>2, <1>3, <1>4, <1>5, <1>6, <1>9 DEF f

LEMMA BothBuffersThen ==
    ASSUME NEW w \in Writers, \A o \in Writers : Len(log'[o].buf) \in Nat
    PROVE  /\ Buffered' = Len(log'[w].buf) + Len(log'[Other(w)].buf)
           /\ Busy("main")' + Busy("other")' = Busy(w)' + Busy(Other(w))'
           /\ Busy(w)' \in {0, 1} /\ Busy(Other(w))' \in {0, 1}
           /\ Busy("main")' \in {0, 1} /\ Busy("other")' \in {0, 1}
<1>1. \A o \in Writers : Busy(o)' \in {0, 1}
  BY DEF Busy
<1>2. "main" \in Writers /\ "other" \in Writers /\ (w = "main" \/ w = "other")
  BY DEF Writers
<1>3. CASE w = "main"
  BY <1>1, <1>2, <1>3 DEF Buffered, Other
<1>4. CASE w = "other"
  <2>1. \A m, n \in Int : m + n = n + m
    OBVIOUS
  <2>2. /\ Len(log'["main"].buf) \in Int /\ Len(log'["other"].buf) \in Int
        /\ Busy("main")' \in Int /\ Busy("other")' \in Int
    BY <1>1, <1>2
  <2>3. /\ Buffered' = Len(log'["other"].buf) + Len(log'["main"].buf)
        /\ Busy("main")' + Busy("other")' = Busy("other")' + Busy("main")'
    BY <2>1, <2>2 DEF Buffered
  <2> QED
    BY <1>1, <1>2, <1>4, <2>3 DEF Other
<1> QED
  BY <1>2, <1>3, <1>4

\* The line that made the file full goes to the archive.
LEMMA RenamedIsCounted ==
    ASSUME LogsTypeInv, NEW w \in Writers, Renamed(w), written' = written,
           log'[Other(w)] = log[Other(w)], log'[w].pc \in {"ready", "renamed"},
           log'[w].size \in Nat, log'[w].size <= Len(written),
           Len(log'[w].buf) \in Nat, Len(log'[w].buf) <= Len(log[w].buf), text' # <<>>,
           \A f \in DOMAIN text' : Len(text'[f]) = 0 \/ (f \in 1..Len(text) /\ text'[f] = text[f])
    PROVE  LinesAreCounted'
<1> DEFINE v == Other(w)
<1>1. v \in Writers /\ v # w /\ \A o \in Writers : o = w \/ o = v
  BY TwoWriters
<1>2. /\ text # <<>> /\ Len(written) \in Nat /\ Len(text) \in Nat /\ DOMAIN text = 1..Len(text)
      /\ \A f \in 1..Len(text) : Len(text[f]) \in Nat /\ Len(text[f]) + Buffered <= Len(written)
      /\ log[v].size <= Len(written)
  <2>1. /\ text # <<>> /\ \A o \in Writers : log[o].size <= Len(written)
        /\ \A f \in DOMAIN text : Len(text[f]) + Buffered <= Len(written)
    BY DEF LogsTypeInv, LinesAreCounted
  <2>2. /\ Len(written) \in Nat /\ Len(text) \in Nat /\ DOMAIN text = 1..Len(text)
        /\ \A f \in 1..Len(text) : Len(text[f]) \in Nat
    BY LogsTypesAre
  <2> QED
    BY <1>1, <2>1, <2>2
<1>3. /\ Buffered = Len(log[w].buf) + Len(log[v].buf) /\ Busy(w) = 1
      /\ Len(log[w].buf) \in Nat /\ Len(log[v].buf) \in Nat /\ Busy(v) \in {0, 1}
      /\ Cardinality(DOMAIN archives) \in Nat
      /\ Cardinality(DOMAIN archives) + (Busy(w) + Busy(v)) <= Len(written)
  <2>1. /\ Buffered = Len(log[w].buf) + Len(log[v].buf)
        /\ Len(log[w].buf) \in Nat /\ Len(log[v].buf) \in Nat /\ Busy(v) \in {0, 1}
        /\ Busy("main") + Busy("other") = Busy(w) + Busy(v)
    BY BothBuffers
  <2>2. Busy(w) = 1
    BY RenamedIs DEF Busy
  <2>3. /\ Cardinality(DOMAIN archives) \in Nat /\ Busy("main") \in Int /\ Busy("other") \in Int
        /\ Cardinality(DOMAIN archives) + Busy("main") + Busy("other") <= Len(written)
    BY LogsTypesAre DEF LogsTypeInv, LinesAreCounted, Busy
  <2>4. Cardinality(DOMAIN archives) + (Busy("main") + Busy("other")) <= Len(written)
    BY <1>2, <2>3
  <2> QED
    BY <2>1, <2>2, <2>3, <2>4
<1>4. /\ Buffered' = Len(log'[w].buf) + Len(log[v].buf)
      /\ Busy("main")' + Busy("other")' = Busy(v) /\ Busy("main")' \in Nat /\ Busy("other")' \in Nat
  <2>1. \A o \in Writers : Len(log'[o].buf) \in Nat
    BY <1>1, <1>3
  <2>2. /\ Buffered' = Len(log'[w].buf) + Len(log'[v].buf)
        /\ Busy("main")' + Busy("other")' = Busy(w)' + Busy(v)'
        /\ Busy("main")' \in {0, 1} /\ Busy("other")' \in {0, 1}
    BY <2>1, BothBuffersThen
  <2>3. Busy(w)' = 0 /\ Busy(v)' = Busy(v) /\ log'[v] = log[v]
    BY DEF Busy
  <2> HIDE DEF v
  <2> QED
    BY <1>3, <2>2, <2>3
<1>5. ASSUME NEW f \in DOMAIN text' PROVE Len(text'[f]) + Buffered' <= Len(written)
  <2> DEFINE a == Len(log[w].buf)
  <2> DEFINE b == Len(log[v].buf)
  <2> DEFINE c == Len(log'[w].buf)
  <2> DEFINE n == Len(text'[f])
  <2>1. PICK g \in 1..Len(text) : n = 0 \/ n = Len(text[g])
    <3>1. 1 \in 1..Len(text)
      BY <1>2
    <3> QED
      BY <3>1
  <2> DEFINE m == Len(text[g])
  <2>2. /\ a \in Nat /\ b \in Nat /\ c \in Nat /\ m \in Nat /\ (n = 0 \/ n = m)
        /\ m + (a + b) <= Len(written) /\ c <= a /\ Buffered' = c + b
    BY <1>2, <1>3, <1>4, <2>1
  <2> HIDE DEF a, b, c, n, m
  <2>3. n + (c + b) <= Len(written)
    BY <1>2, <2>2
  <2> QED
    BY <2>2, <2>3 DEF n
<1>6. /\ IsFiniteSet(DOMAIN archives')
      /\ Cardinality(DOMAIN archives') + Busy("main")' + Busy("other")' <= Len(written)
  <2>1. /\ IsFiniteSet(DOMAIN archives') /\ Cardinality(DOMAIN archives') \in Nat
        /\ Cardinality(DOMAIN archives') <= Cardinality(DOMAIN archives) + 1
    BY RenamedIs
  <2> HIDE DEF v
  <2>2. Cardinality(DOMAIN archives') + (Busy("main")' + Busy("other")') <= Len(written)
    BY <1>2, <1>3, <1>4, <2>1
  <2> QED
    BY <1>4, <2>1, <2>2
<1>7. \A o \in Writers : log'[o].size <= Len(written)
  BY <1>1, <1>2
<1> QED
  BY <1>5, <1>6, <1>7 DEF LinesAreCounted

LEMMA MoveCurrentType ==
    ASSUME LogsTypeInv, NEW w \in Writers, MoveCurrent(w)
    PROVE  LogsTypeInv'
<1> DEFINE v == Other(w)
<1>1. v \in Writers /\ v # w /\ \A o \in Writers : o = w \/ o = v
  BY TwoWriters
<1>2. /\ Renamed(w) /\ UNCHANGED <<place, written, clock, disk, harmed>>
      /\ text' \in Seq(Seq(Lines)) /\ Len(text') = Len(text) + 1
      /\ DOMAIN text' = 1..(Len(text) + 1)
      /\ text'[Len(text) + 1] = <<>> /\ \A f \in 1..Len(text) : text'[f] = text[f]
      /\ current' \in [Writers -> 0..Len(text')]
      /\ \A o \in Writers : current'[o] = IF Path(o) = Path(w) THEN Len(text) + 1 ELSE current[o]
      /\ log' \in [Writers -> LogStates(Len(text'))] /\ log'[v] = log[v]
      /\ log'[w].open /\ log'[w].buf = <<>> /\ log'[w].mem = log[w].mem /\ log'[w].size = 0
      /\ log'[w].pc = "renamed"
  BY MovedIs
<1>3. /\ log[w].pc = "named" /\ Rotates(w) /\ DOMAIN archives' \subseteq Names
      /\ Range(archives') \subseteq 1..Len(text)
      /\ Cardinality(DOMAIN archives') \in Nat
      /\ Cardinality(DOMAIN archives') <= Cardinality(DOMAIN archives) + 1
      /\ rotated' \in Records
  BY <1>2, RenamedIs
<1>4. /\ Len(text) \in Nat /\ Len(written) \in Nat /\ Len(<<>>) = 0 /\ Buffer \in Nat
      /\ \A o \in Writers : Len(log[o].buf) <= Buffer /\ Len(log[o].mem) <= Memory
      /\ Len(log[w].buf) \in Nat
  <2>1. Len(<<>>) = 0
    OBVIOUS
  <2>2. \A o \in Writers : Len(log[o].buf) <= Buffer /\ Len(log[o].mem) <= Memory
    BY DEF LogsTypeInv, LogsTypeOK
  <2> QED
    BY <2>1, <2>2, LogsTypesAre
<1> HIDE DEF v
<1>5. LogsTypeOK'
  <2>1. Cardinality(Renaming') = Cardinality(Renaming) + 1
    <3>1. Renaming' = Renaming \cup {w} /\ w \notin Renaming
      BY <1>1, <1>2, <1>3 DEF Renaming
    <3> QED
      BY <3>1, RenamingIs
  <2>2. Cardinality(DOMAIN archives') <= MaxFiles + disk'.faults + Cardinality(Renaming')
    <3>1. /\ Cardinality(DOMAIN archives) <= MaxFiles + disk.faults + Cardinality(Renaming)
          /\ Cardinality(DOMAIN archives) \in Nat /\ Cardinality(Renaming) \in Nat
          /\ MaxFiles \in Nat /\ disk.faults \in Nat
      BY LogsTypesAre, KeptRecords, RenamingIs, LogsAssumption DEF LogsTypeInv, LogsTypeOK,
         Renaming
    <3> QED
      BY <1>2, <1>3, <2>1, <3>1
  <2>3. \A o \in Writers : Len(log'[o].buf) <= Buffer /\ Len(log'[o].mem) <= Memory
    <3>1. Len(log'[w].buf) = 0 /\ log'[w].mem = log[w].mem /\ log'[v] = log[v] /\ 0 <= Buffer
      BY <1>2, <1>4
    <3> QED
      BY <1>1, <1>4, <3>1
  <2>4. Range(archives') \subseteq DOMAIN text'
    BY <1>2, <1>3, <1>4
  <2>5. written' \in Seq(Writers) /\ Len(written') <= MaxLines
    BY <1>2 DEF LogsTypeInv, LogsTypeOK
  <2>6. /\ place' \in {"service", "extension"} /\ clock' \in 1..MaxTime /\ disk' \in Disks
        /\ harmed' \in BOOLEAN
    BY <1>2, KeptRecords
  <2>7. log' \in [Writers -> LogStates(Len(text'))] /\ DOMAIN text' = 1..Len(text')
    BY <1>2
  <2> QED
    BY <1>2, <1>3, <2>2, <2>3, <2>4, <2>5, <2>6, <2>7
       DEF LogsTypeOK, LogStates, Records, Disks, Renaming
<1>6. LinesAreCounted'
  <2>1. /\ text' # <<>>
        /\ \A f \in DOMAIN text' : Len(text'[f]) = 0 \/ (f \in 1..Len(text) /\ text'[f] = text[f])
    <3>1. \A f \in 1..(Len(text) + 1) : f = Len(text) + 1 \/ f \in 1..Len(text)
      BY <1>4
    <3>2. 1 \in DOMAIN text' /\ DOMAIN <<>> = {}
      BY <1>2, <1>4
    <3>3. text' # <<>>
      BY <3>2
    <3> QED
      BY <1>2, <1>4, <3>1, <3>3
  <2>2. log'[Other(w)] = log[Other(w)]
    BY <1>2 DEF v
  <2>3. /\ log'[w].size \in Nat /\ log'[w].size <= Len(written)
        /\ Len(log'[w].buf) \in Nat /\ Len(log'[w].buf) <= Len(log[w].buf)
    <3>1. Len(log'[w].buf) = 0 /\ log'[w].size = 0
      BY <1>2, <1>4
    <3> QED
      BY <1>4, <3>1
  <2> QED
    BY <1>2, <2>1, <2>2, <2>3, RenamedIsCounted
<1>7. FilesAreThere'
  <2>1. \A o \in Writers : Path(o)' = Path(o) /\ (Rotates(o)' <=> Rotates(o))
    BY <1>2 DEF Path, Rotates
  <2>2. \A o \in Writers : current'[o] = current'[Path(o)]
    <3>1. \A o \in Writers : /\ current[o] = current[Path(o)]
                             /\ Path(o) \in Writers /\ Path(Path(o)) = Path(o)
      BY PathsAre DEF LogsTypeInv, FilesAreThere
    <3> QED
      BY <1>2, <3>1
  <2>3. \A o \in Writers : current[Path(o)] # 0 => current'[Path(o)] # 0
    BY <1>2, <1>4, PathsAre
  <2>4. current'[Path(w)] # 0
    BY <1>2, <1>4, PathsAre
  <2>5. /\ log[v].pc # "ready" => Rotates(v)
        /\ log[v].pc \in {"full", "named"} => current[Path(v)] # 0
        /\ log[v].pc = "named" => log[v].name \in Names /\ ~log[v].open
        /\ Rotates(v) /\ log[v].open => current[Path(v)] # 0
    BY <1>1 DEF LogsTypeInv, FilesAreThere
  <2>6. \A o \in Writers :
          /\ log'[o].pc # "ready" => Rotates(o)
          /\ log'[o].pc \in {"full", "named"} => current'[Path(o)] # 0
          /\ log'[o].pc = "named" => log'[o].name \in Names /\ ~log'[o].open
          /\ Rotates(o) /\ log'[o].open => current'[Path(o)] # 0
    BY <1>1, <1>2, <1>3, <2>3, <2>4, <2>5
  <2> QED
    BY <2>1, <2>2, <2>6 DEF FilesAreThere
<1> QED
  BY <1>5, <1>6, <1>7 DEF LogsTypeInv

\* The file that was to be opened is not there, and nobody who writes there has one.
LEMMA NotReopenedIs ==
    ASSUME LogsTypeInv, NEW w \in Writers, ReopenFails(w)
    PROVE  /\ Renamed(w) /\ UNCHANGED <<place, written, text, clock>> /\ harmed'
           /\ disk' \in Disks /\ disk'.faults = disk.faults + 1
           /\ current' \in [Writers -> 0..Len(text)]
           /\ \A o \in Writers : current'[o] = IF Path(o) = Path(w) THEN 0 ELSE current[o]
           /\ log' \in [Writers -> LogStates(Len(text))] /\ log'[Other(w)] = log[Other(w)]
           /\ log'[w].buf = log[w].buf /\ log'[w].mem = log[w].mem /\ log'[w].bad = log[w].bad
           /\ log'[w].file = log[w].file /\ log'[w].open = log[w].open
           /\ log'[w].size = log[w].size /\ log'[w].pc = "ready"
<1>1. /\ log[w] \in LogStates(Len(text)) /\ Len(text) \in Nat
      /\ current \in [Writers -> 0..Len(text)]
      /\ disk \in Disks /\ disk.faults \in Nat /\ MaxLogFaults \in Nat
  BY LogsTypesAre, KeptRecords
<1>2. /\ Renamed(w) /\ UNCHANGED <<place, written, text, clock>> /\ harmed'
      /\ disk' = [disk EXCEPT !.faults = @ + 1] /\ disk.faults < MaxLogFaults
      /\ current' = [o \in Writers |-> IF Path(o) = Path(w) THEN 0 ELSE current[o]]
  BY DEF ReopenFails, Faulty
<1>3. disk' \in Disks /\ disk'.faults = disk.faults + 1
  BY <1>1, <1>2 DEF Disks
<1>4. /\ current' \in [Writers -> 0..Len(text)]
      /\ \A o \in Writers : current'[o] = IF Path(o) = Path(w) THEN 0 ELSE current[o]
  BY <1>1, <1>2
<1> DEFINE x == [log[w] EXCEPT !.pc = "ready", !.name = NoName]
<1>5. log' = [log EXCEPT ![w] = x]
  BY DEF ReopenFails
<1>6. /\ x \in LogStates(Len(text)) /\ x.buf = log[w].buf /\ x.mem = log[w].mem
      /\ x.bad = log[w].bad /\ x.file = log[w].file /\ x.open = log[w].open
      /\ x.size = log[w].size /\ x.pc = "ready"
  BY <1>1 DEF LogStates
<1> HIDE DEF x
<1>7. log' \in [Writers -> LogStates(Len(text))] /\ log'[w] = x /\ log'[Other(w)] = log[Other(w)]
  <2>1. Len(text) <= Len(text)
    BY <1>1
  <2> QED
    BY <1>1, <1>5, <1>6, <2>1, WriterIs
<1> QED
  BY <1>2, <1>3, <1>4, <1>6, <1>7

LEMMA ReopenFailsType ==
    ASSUME LogsTypeInv, NEW w \in Writers, ReopenFails(w)
    PROVE  LogsTypeInv'
<1> DEFINE v == Other(w)
<1>1. v \in Writers /\ v # w /\ \A o \in Writers : o = w \/ o = v
  BY TwoWriters
<1>2. /\ Renamed(w) /\ UNCHANGED <<place, written, text, clock>> /\ harmed'
      /\ disk' \in Disks /\ disk'.faults = disk.faults + 1
      /\ current' \in [Writers -> 0..Len(text)]
      /\ \A o \in Writers : current'[o] = IF Path(o) = Path(w) THEN 0 ELSE current[o]
      /\ log' \in [Writers -> LogStates(Len(text))] /\ log'[v] = log[v]
      /\ log'[w].buf = log[w].buf /\ log'[w].mem = log[w].mem
      /\ log'[w].open = log[w].open /\ log'[w].size = log[w].size /\ log'[w].pc = "ready"
  BY NotReopenedIs
<1>3. /\ log[w].pc = "named" /\ Rotates(w) /\ ~log[w].open /\ DOMAIN archives' \subseteq Names
      /\ Range(archives') \subseteq 1..Len(text)
      /\ Cardinality(DOMAIN archives') \in Nat
      /\ Cardinality(DOMAIN archives') <= Cardinality(DOMAIN archives) + 1
      /\ rotated' \in Records
  BY <1>2, RenamedIs
<1>4. /\ Len(text) \in Nat /\ DOMAIN text = 1..Len(text) /\ Len(written) \in Nat
      /\ Len(log[w].buf) \in Nat /\ log[w].size \in Nat /\ log[w].size <= Len(written)
  BY LogsTypesAre DEF LogsTypeInv, LinesAreCounted
<1> HIDE DEF v
<1>5. LogsTypeOK'
  <2>1. Renaming' = Renaming
    BY <1>1, <1>2, <1>3 DEF Renaming
  <2>2. Cardinality(DOMAIN archives') <= MaxFiles + disk'.faults + Cardinality(Renaming')
    <3>1. /\ Cardinality(DOMAIN archives) <= MaxFiles + disk.faults + Cardinality(Renaming)
          /\ Cardinality(DOMAIN archives) \in Nat /\ Cardinality(Renaming) \in Nat
          /\ MaxFiles \in Nat /\ disk.faults \in Nat
      BY LogsTypesAre, KeptRecords, RenamingIs, LogsAssumption DEF LogsTypeInv, LogsTypeOK,
         Renaming
    <3> QED
      BY <1>2, <1>3, <2>1, <3>1
  <2>3. \A o \in Writers : Len(log'[o].buf) <= Buffer /\ Len(log'[o].mem) <= Memory
    BY <1>1, <1>2 DEF LogsTypeInv, LogsTypeOK
  <2>4. /\ written' \in Seq(Writers) /\ Len(written') <= MaxLines /\ text' \in Seq(Seq(Lines))
        /\ place' \in {"service", "extension"} /\ clock' \in 1..MaxTime /\ harmed' \in BOOLEAN
    BY <1>2, KeptRecords DEF LogsTypeInv, LogsTypeOK
  <2>5. log' \in [Writers -> LogStates(Len(text'))] /\ DOMAIN text' = 1..Len(text')
    BY <1>2, <1>4
  <2> QED
    BY <1>2, <1>3, <2>2, <2>3, <2>4, <2>5 DEF LogsTypeOK, LogStates, Records, Disks, Renaming
<1>6. LinesAreCounted'
  <2>1. /\ text' # <<>>
        /\ \A f \in DOMAIN text' : Len(text'[f]) = 0 \/ (f \in 1..Len(text) /\ text'[f] = text[f])
    BY <1>2, <1>4 DEF LogsTypeInv, LinesAreCounted
  <2>2. log'[Other(w)] = log[Other(w)]
    BY <1>2 DEF v
  <2>3. /\ log'[w].size \in Nat /\ log'[w].size <= Len(written)
        /\ Len(log'[w].buf) \in Nat /\ Len(log'[w].buf) <= Len(log[w].buf)
    BY <1>2, <1>4
  <2> QED
    BY <1>2, <2>1, <2>2, <2>3, RenamedIsCounted
<1>7. FilesAreThere'
  <2>1. \A o \in Writers : Path(o)' = Path(o) /\ (Rotates(o)' <=> Rotates(o))
    BY <1>2 DEF Path, Rotates
  <2>2. \A o \in Writers : current'[o] = current'[Path(o)]
    <3>1. \A o \in Writers : /\ current[o] = current[Path(o)]
                             /\ Path(o) \in Writers /\ Path(Path(o)) = Path(o)
      BY PathsAre DEF LogsTypeInv, FilesAreThere
    <3> QED
      BY <1>2, <3>1
  <2>3. Rotates(v) => current'[Path(v)] = current[Path(v)]
    <3>1. /\ Path(v) \in Writers /\ Path(Path(v)) = Path(v)
          /\ (Path(v) = Path(w) => ~Rotates(v))
      BY <1>1, <1>3, PathsAre DEF v
    <3> QED
      BY <1>2, <3>1
  <2>4. /\ log[v].pc # "ready" => Rotates(v)
        /\ log[v].pc \in {"full", "named"} => current[Path(v)] # 0
        /\ log[v].pc = "named" => log[v].name \in Names /\ ~log[v].open
        /\ Rotates(v) /\ log[v].open => current[Path(v)] # 0
    BY <1>1 DEF LogsTypeInv, FilesAreThere
  <2> QED
    BY <1>1, <1>2, <1>3, <2>1, <2>2, <2>3, <2>4 DEF FilesAreThere
<1> QED
  BY <1>5, <1>6, <1>7 DEF LogsTypeInv

\* Of some archives one is before all others.
LEMMA FirstArchive ==
    ASSUME NEW R \in SUBSET Names, R # {}
    PROVE  \E n \in R : \A m \in R : m = n \/ ArchiveBefore(n, m)
<1>1. \A n \in R : n.time \in Nat /\ n.seq \in Nat /\ n = [time |-> n.time, seq |-> n.seq]
  BY LogsAssumption DEF Names
<1> DEFINE Times == {n.time : n \in R}
<1>2. PICK t \in Times : \A u \in Times : t <= u
  <2>1. Times \in SUBSET Nat /\ Times # {}
    BY <1>1
  <2> HIDE DEF Times
  <2> QED
    BY <2>1, LeastNumber
<1>3. t \in Nat /\ \A m \in R : t <= m.time
  BY <1>1, <1>2
<1> DEFINE Later == {n \in R : n.time = t /\ n.seq # 0}
<1> DEFINE Seqs == {n.seq : n \in Later}
<1>4. CASE Later = {}
  <2>1. PICK n \in R : n.time = t
    BY <1>2
  <2>2. n.seq = 0 /\ \A m \in R : m.time = t => m.seq = 0
    BY <1>4, <2>1
  <2>3. \A m \in R : m.time = t => m = n
    BY <1>1, <2>1, <2>2
  <2>4. \A m \in R : m.time # t => t < m.time
    BY <1>1, <1>3
  <2> QED
    BY <2>1, <2>3, <2>4 DEF ArchiveBefore
<1>5. CASE Later # {}
  <2>1. PICK s \in Seqs : \A u \in Seqs : s <= u
    <3>1. Seqs \in SUBSET Nat /\ Seqs # {}
      BY <1>1, <1>5
    <3> HIDE DEF Seqs
    <3> QED
      BY <3>1, LeastNumber
  <2>2. PICK n \in Later : n.seq = s
    BY <2>1
  <2>3. n \in R /\ n.time = t /\ n.seq # 0
    BY <2>2
  <2>4. \A m \in Later : n.seq <= m.seq
    BY <2>1, <2>2
  <2>5. ASSUME NEW m \in R PROVE m = n \/ ArchiveBefore(n, m)
    <3>1. CASE m.time # t
      <4>1. t < m.time
        BY <1>1, <1>3, <3>1
      <4> QED
        BY <2>3, <4>1 DEF ArchiveBefore
    <3>2. CASE m.time = t /\ m.seq = 0
      BY <2>3, <3>2 DEF ArchiveBefore
    <3>3. CASE m.time = t /\ m.seq # 0
      <4>1. n.seq <= m.seq
        BY <2>4, <3>3
      <4>2. n.seq = m.seq => m = n
        BY <1>1, <2>3, <3>3
      <4> QED
        BY <1>1, <2>3, <3>3, <4>1, <4>2 DEF ArchiveBefore
    <3> QED
      BY <3>1, <3>2, <3>3
  <2> QED
    BY <2>3, <2>5
<1> QED
  BY <1>4, <1>5

\* After the oldest have gone there are MaxFiles at most: of those that stay the first has fewer
\* after it.
LEMMA RemainingFit ==
    ASSUME LogsTypeInv
    PROVE  /\ IsFiniteSet(DOMAIN archives \ OldArchives)
           /\ Cardinality(DOMAIN archives \ OldArchives) <= MaxFiles
           /\ Cardinality(DOMAIN archives \ OldArchives) <= Cardinality(DOMAIN archives)
           /\ Cardinality(DOMAIN archives \ OldArchives) \in Nat
<1> DEFINE D == DOMAIN archives
<1> DEFINE R == D \ OldArchives
<1>1. IsFiniteSet(D) /\ D \subseteq Names /\ MaxFiles \in Nat /\ Cardinality(D) \in Nat
  BY LogsTypesAre, LogsAssumption DEF LogsTypeInv, LogsTypeOK
<1>2. IsFiniteSet(R) /\ Cardinality(R) <= Cardinality(D) /\ Cardinality(R) \in Nat
  <2>1. R \in SUBSET D
    OBVIOUS
  <2> HIDE DEF R, D
  <2> QED
    BY <1>1, <2>1, FS_Subset, FS_CardinalityType
<1>3. CASE R = {}
  <2>1. Cardinality(R) = 0
    <3> HIDE DEF R
    <3> QED
      BY <1>3, FS_EmptySet
  <2> QED
    BY <1>1, <1>2, <2>1
<1>4. CASE R # {}
  <2>1. PICK n \in R : \A m \in R : m = n \/ ArchiveBefore(n, m)
    <3>1. R \in SUBSET Names
      BY <1>1
    <3> HIDE DEF R
    <3> QED
      BY <1>4, <3>1, FirstArchive
  <2> DEFINE After == {m \in D : ArchiveBefore(n, m)}
  <2>2. Cardinality(After) < MaxFiles /\ Cardinality(After) \in Nat /\ IsFiniteSet(After)
    <3>1. IsFiniteSet(After) /\ Cardinality(After) \in Nat
      <4>1. After \in SUBSET D
        OBVIOUS
      <4> HIDE DEF After, D
      <4> QED
        BY <1>1, <4>1, FS_Subset, FS_CardinalityType
    <3>2. ~(Cardinality(After) >= MaxFiles)
      BY <2>1 DEF OldArchives
    <3> HIDE DEF After
    <3> QED
      BY <1>1, <3>1, <3>2
  <2>3. R \ {n} \in SUBSET After
    BY <2>1
  <2> HIDE DEF R, After
  <2>4. Cardinality(R \ {n}) = Cardinality(R) - 1 /\ Cardinality(R \ {n}) <= Cardinality(After)
    BY <1>2, <2>1, <2>2, <2>3, FS_RemoveElement, FS_Subset
  <2>5. Cardinality(R) <= MaxFiles
    BY <1>1, <1>2, <2>2, <2>4
  <2> QED
    BY <1>2, <2>5 DEF R
<1> QED
  BY <1>3, <1>4

\* The archives that stay are as they were.
LEMMA CleanedIs ==
    ASSUME LogsTypeInv, NEW w \in Writers, CleanOldArchives(w)
    PROVE  /\ UNCHANGED <<place, written, text, current, clock, disk, harmed>>
           /\ log[w].pc = "renamed"
           /\ DOMAIN archives' = DOMAIN archives \ OldArchives
           /\ \A n \in DOMAIN archives' : archives'[n] = archives[n]
           /\ rotated' \in Records /\ rotated'.at = rotated.at /\ rotated'.met = rotated.met
           /\ rotated'.removed = (rotated.removed \/ OldArchives # {})
           /\ log' \in [Writers -> LogStates(Len(text))] /\ log'[Other(w)] = log[Other(w)]
           /\ log'[w].buf = log[w].buf /\ log'[w].mem = log[w].mem /\ log'[w].bad = log[w].bad
           /\ log'[w].file = log[w].file /\ log'[w].open = log[w].open
           /\ log'[w].size = log[w].size /\ log'[w].pc = "ready"
<1>1. log[w] \in LogStates(Len(text)) /\ Len(text) \in Nat /\ rotated \in Records
  BY LogsTypesAre, KeptRecords
<1>2. /\ UNCHANGED <<place, written, text, current, clock, disk, harmed>>
      /\ log[w].pc = "renamed"
      /\ archives' = Restrict(archives, DOMAIN archives \ OldArchives)
      /\ rotated' = [rotated EXCEPT !.removed = @ \/ OldArchives # {}]
  BY DEF CleanOldArchives
<1>3. /\ DOMAIN archives' = DOMAIN archives \ OldArchives
      /\ \A n \in DOMAIN archives' : archives'[n] = archives[n]
  BY <1>2 DEF Restrict
<1>4. /\ rotated' \in Records /\ rotated'.at = rotated.at /\ rotated'.met = rotated.met
      /\ rotated'.removed = (rotated.removed \/ OldArchives # {})
  BY <1>1, <1>2, Zenon DEF Records
<1> DEFINE x == [log[w] EXCEPT !.pc = "ready", !.name = NoName]
<1>5. log' = [log EXCEPT ![w] = x]
  BY DEF CleanOldArchives
<1>6. /\ x \in LogStates(Len(text)) /\ x.buf = log[w].buf /\ x.mem = log[w].mem
      /\ x.bad = log[w].bad /\ x.file = log[w].file /\ x.open = log[w].open
      /\ x.size = log[w].size /\ x.pc = "ready"
  BY <1>1 DEF LogStates
<1> HIDE DEF x
<1>7. log' \in [Writers -> LogStates(Len(text))] /\ log'[w] = x /\ log'[Other(w)] = log[Other(w)]
  <2>1. Len(text) <= Len(text)
    BY <1>1
  <2> QED
    BY <1>1, <1>5, <1>6, <2>1, WriterIs
<1> QED
  BY <1>2, <1>3, <1>4, <1>6, <1>7

LEMMA CleanOldArchivesType ==
    ASSUME LogsTypeInv, NEW w \in Writers, CleanOldArchives(w)
    PROVE  LogsTypeInv'
<1> DEFINE v == Other(w)
<1>1. v \in Writers /\ v # w /\ \A o \in Writers : o = w \/ o = v
  BY TwoWriters
<1>2. /\ UNCHANGED <<place, written, text, current, clock, disk, harmed>>
      /\ log[w].pc = "renamed"
      /\ DOMAIN archives' = DOMAIN archives \ OldArchives
      /\ \A n \in DOMAIN archives' : archives'[n] = archives[n]
      /\ rotated' \in Records
      /\ log' \in [Writers -> LogStates(Len(text))] /\ log'[v] = log[v]
      /\ log'[w].buf = log[w].buf /\ log'[w].mem = log[w].mem
      /\ log'[w].open = log[w].open /\ log'[w].size = log[w].size /\ log'[w].pc = "ready"
  BY CleanedIs
<1>3. /\ Len(text) \in Nat /\ DOMAIN text = 1..Len(text) /\ Len(written) \in Nat
      /\ \A o \in Writers : Len(log[o].buf) \in Nat
  BY LogsTypesAre
<1>4. /\ IsFiniteSet(DOMAIN archives') /\ Cardinality(DOMAIN archives') \in Nat
      /\ Cardinality(DOMAIN archives') <= MaxFiles
      /\ Cardinality(DOMAIN archives') <= Cardinality(DOMAIN archives)
      /\ Cardinality(DOMAIN archives) \in Nat
  BY <1>2, RemainingFit, LogsTypesAre
<1>5. \A o \in Writers : log'[o].buf = log[o].buf /\ Busy(o)' = Busy(o)
  BY <1>1, <1>2 DEF Busy
<1> HIDE DEF v
<1>6. LogsTypeOK'
  <2>1. Renaming' = Renaming \ {w}
    BY <1>1, <1>2 DEF Renaming
  <2>2. Cardinality(DOMAIN archives') <= MaxFiles + disk'.faults + Cardinality(Renaming')
    <3>1. Cardinality(Renaming') \in Nat /\ MaxFiles \in Nat /\ disk'.faults \in Nat
      BY <1>2, <2>1, RenamingIs, KeptRecords, LogsAssumption
    <3> QED
      BY <1>4, <3>1
  <2>3. \A o \in Writers : Len(log'[o].buf) <= Buffer /\ Len(log'[o].mem) <= Memory
    BY <1>1, <1>2 DEF LogsTypeInv, LogsTypeOK
  <2>4. /\ written' \in Seq(Writers) /\ Len(written') <= MaxLines /\ text' \in Seq(Seq(Lines))
        /\ place' \in {"service", "extension"} /\ clock' \in 1..MaxTime /\ harmed' \in BOOLEAN
        /\ disk' \in Disks
    BY <1>2, KeptRecords DEF LogsTypeInv, LogsTypeOK
  <2>5. log' \in [Writers -> LogStates(Len(text'))] /\ DOMAIN text' = 1..Len(text')
    BY <1>2, <1>3
  <2>6. /\ DOMAIN archives' \subseteq Names /\ Range(archives') \subseteq DOMAIN text'
        /\ current' \in [Writers -> 0..Len(text')]
    <3>1. DOMAIN archives' \subseteq DOMAIN archives /\ text' = text /\ current' = current
      BY <1>2
    <3>2. Range(archives') \subseteq Range(archives)
      BY <1>2, <3>1 DEF Range
    <3> QED
      BY <3>1, <3>2 DEF LogsTypeInv, LogsTypeOK
  <2> QED
    BY <1>2, <2>2, <2>3, <2>4, <2>5, <2>6 DEF LogsTypeOK, LogStates, Records, Disks, Renaming
<1>7. LinesAreCounted'
  <2>1. "main" \in Writers /\ "other" \in Writers
    BY DEF Writers
  <2>2. Buffered' = Buffered /\ Busy("main")' = Busy("main") /\ Busy("other")' = Busy("other")
    BY <1>5, <2>1 DEF Buffered
  <2>3. Busy("main") \in Nat /\ Busy("other") \in Nat
    BY DEF Busy
  <2>4. /\ text # <<>> /\ \A f \in DOMAIN text : Len(text[f]) + Buffered <= Len(written)
        /\ \A o \in Writers : log[o].size <= Len(written)
        /\ Cardinality(DOMAIN archives) + Busy("main") + Busy("other") <= Len(written)
    BY DEF LogsTypeInv, LinesAreCounted
  <2>5. Cardinality(DOMAIN archives') + Busy("main")' + Busy("other")' <= Len(written')
    BY <1>2, <1>3, <1>4, <2>2, <2>3, <2>4
  <2>6. \A o \in Writers : log'[o].size <= Len(written')
    BY <1>1, <1>2, <2>4
  <2>7. text' # <<>> /\ \A f \in DOMAIN text' : Len(text'[f]) + Buffered' <= Len(written')
    BY <1>2, <2>2, <2>4
  <2> QED
    BY <1>4, <2>5, <2>6, <2>7 DEF LinesAreCounted
<1>8. FilesAreThere'
  <2>1. \A o \in Writers : Path(o)' = Path(o) /\ (Rotates(o)' <=> Rotates(o))
    BY <1>2 DEF Path, Rotates
  <2> QED
    BY <1>1, <1>2, <2>1 DEF LogsTypeInv, FilesAreThere
<1> QED
  BY <1>6, <1>7, <1>8 DEF LogsTypeInv

\* Steps that leave the logs alone, or change no more than the time and the disk.
LEMMA SpaceAndTimeType ==
    ASSUME LogsTypeInv, UNCHANGED <<place, written, text, current, archives, log, rotated,
                                    harmed>>,
           clock' \in 1..MaxTime, disk' \in Disks, disk'.faults >= disk.faults
    PROVE  LogsTypeInv'
<1>1. LogsTypeOK'
  <2>1. Renaming' = Renaming
    BY DEF Renaming
  <2>2. Cardinality(DOMAIN archives') <= MaxFiles + disk'.faults + Cardinality(Renaming')
    <3>1. /\ Cardinality(DOMAIN archives) <= MaxFiles + disk.faults + Cardinality(Renaming)
          /\ Cardinality(DOMAIN archives) \in Nat /\ Cardinality(Renaming) \in Nat
          /\ MaxFiles \in Nat /\ disk.faults \in Nat
      BY LogsTypesAre, KeptRecords, RenamingIs, LogsAssumption DEF LogsTypeInv, LogsTypeOK,
         Renaming
    <3>2. disk'.faults \in Nat
      BY LogsAssumption DEF Disks
    <3> QED
      BY <2>1, <3>1, <3>2
  <2> QED
    BY <2>2 DEF LogsTypeInv, LogsTypeOK, Disks, Renaming
<1>2. LinesAreCounted' /\ FilesAreThere'
  BY DEF LogsTypeInv, LinesAreCounted, FilesAreThere, Buffered, Busy, Path, Rotates
<1> QED
  BY <1>1, <1>2 DEF LogsTypeInv

LEMMA DiskAndClockAre ==
    ASSUME LogsTypeInv, DiskFills \/ DiskFrees \/ Tick
    PROVE  /\ UNCHANGED <<place, written, text, current, archives, log, rotated, harmed>>
           /\ clock' \in 1..MaxTime /\ clock <= clock'
           /\ disk' \in Disks /\ disk'.faults >= disk.faults
<1>1. /\ disk \in Disks /\ disk.faults \in Nat /\ MaxLogFaults \in Nat /\ clock \in 1..MaxTime
      /\ MaxTime \in Nat
  BY KeptRecords, LogsAssumption
<1>2. CASE DiskFills
  BY <1>1, <1>2 DEF DiskFills, Disks
<1>3. CASE DiskFrees
  <2>1. disk' \in Disks /\ disk'.faults = disk.faults
    BY <1>1, <1>3 DEF DiskFrees, Disks
  <2> QED
    BY <1>1, <1>3, <2>1 DEF DiskFrees
<1>4. CASE Tick
  BY <1>1, <1>4 DEF Tick
<1> QED
  BY <1>2, <1>3, <1>4

LEMMA LogsCases ==
    ASSUME LogsNext
    PROVE  \/ \E w \in Writers : \/ WriteLine(w) \/ LineFails(w) \/ FlushLoop(w) \/ NameArchive(w)
                                 \/ MoveCurrent(w) \/ ReopenFails(w) \/ RenameFails(w)
                                 \/ CleanOldArchives(w)
           \/ RebuildLogger \/ DiskFills \/ DiskFrees \/ Tick
BY DEF LogsNext

LEMMA LogsTypeNext == LogsTypeInv /\ LogsNext => LogsTypeInv'
BY LogsCases, WriteLineType, LineFailsType, FlushLoopType, NameArchiveType, MoveCurrentType,
   ReopenFailsType, RenameFailsType, CleanOldArchivesType, RebuildLoggerType, DiskAndClockAre,
   SpaceAndTimeType

LEMMA LogsTypeUntouched == LogsTypeInv /\ UNCHANGED logsVars => LogsTypeInv'
<1> SUFFICES ASSUME LogsTypeInv, UNCHANGED logsVars PROVE LogsTypeInv'
  OBVIOUS
<1>1. clock' \in 1..MaxTime /\ disk' \in Disks /\ disk'.faults >= disk.faults
  BY KeptRecords DEF logsVars
<1> QED
  BY <1>1, SpaceAndTimeType DEF logsVars
-----------------------------------------------------------------------------
(* The logs: lines in order, whoever's they are (q). *)

Ordered(q, s) ==
    \A i, j \in DOMAIN s : i < j /\ q[s[i]] = "main" /\ q[s[j]] = "main" => s[i] < s[j]
Ahead(q, S, T) == \A l \in S, m \in T : q[l] = "main" /\ q[m] = "main" => l < m

\* n files, and the buffer that comes after them.
Sorted(q, T, n, b) ==
    /\ \A f \in 1..n : /\ Ordered(q, T[f]) /\ Ahead(q, Range(T[f]), Range(b))
                       /\ \A g \in 1..n : f < g => Ahead(q, Range(T[f]), Range(T[g]))
    /\ Ordered(q, b)

LEMMA SortedIs ==
    ASSUME LogsTypeInv
    PROVE  LinesAreInOrder <=> Sorted(written, text, Len(text), log["main"].buf)
<1>1. DOMAIN text = 1..Len(text)
  BY LogsTypesAre
<1> QED
  BY <1>1 DEF LinesAreInOrder, Sorted, Ordered, Ahead, InOrder, Precedes, By

LEMMA SortedIsThen ==
    ASSUME LogsTypeInv'
    PROVE  LinesAreInOrder' <=> Sorted(written', text', Len(text'), log'["main"].buf)
<1>1. DOMAIN text' = 1..Len(text')
  <2>1. text' \in Seq(Seq(Lines))
    BY DEF LogsTypeInv, LogsTypeOK
  <2> QED
    BY <2>1, LenProperties
<1> QED
  BY <1>1 DEF LinesAreInOrder, Sorted, Ordered, Ahead, InOrder, Precedes, By

LEMMA OrderedConcat ==
    ASSUME NEW q, NEW s \in Seq(Lines), NEW t \in Seq(Lines), Ordered(q, s), Ordered(q, t),
           Ahead(q, Range(s), Range(t))
    PROVE  Ordered(q, s \o t)
<1> DEFINE c == s \o t
<1> DEFINE m == Len(s)
<1> DEFINE n == Len(t)
<1>1. /\ DOMAIN c = 1..(m + n) /\ m \in Nat /\ n \in Nat
      /\ \A i \in 1..(m + n) : c[i] = IF i <= m THEN s[i] ELSE t[i - m]
      /\ DOMAIN s = 1..m /\ DOMAIN t = 1..n
  BY ConcatProperties, LenProperties
<1> HIDE DEF c, m, n
<1>2. \A i \in 1..(m + n) : \/ i <= m /\ i \in 1..m /\ c[i] = s[i]
                            \/ i > m /\ i - m \in 1..n /\ c[i] = t[i - m]
  BY <1>1
<1>3. ASSUME NEW i \in 1..(m + n), NEW j \in 1..(m + n), i < j,
             q[c[i]] = "main", q[c[j]] = "main"
      PROVE  c[i] < c[j]
  <2>1. CASE j <= m
    <3>1. i \in 1..m /\ j \in 1..m /\ c[i] = s[i] /\ c[j] = s[j]
      BY <1>1, <1>2, <1>3, <2>1
    <3> QED
      BY <1>1, <1>3, <3>1 DEF Ordered
  <2>2. CASE i > m
    <3>1. i - m \in 1..n /\ j - m \in 1..n /\ c[i] = t[i - m] /\ c[j] = t[j - m] /\ i - m < j - m
      BY <1>1, <1>2, <1>3, <2>2
    <3> QED
      BY <1>1, <1>3, <3>1 DEF Ordered
  <2>3. CASE i <= m /\ j > m
    <3>1. i \in 1..m /\ j - m \in 1..n /\ c[i] = s[i] /\ c[j] = t[j - m]
      BY <1>1, <1>2, <1>3, <2>3
    <3>2. s[i] \in Range(s) /\ t[j - m] \in Range(t)
      BY <1>1, <3>1 DEF Range
    <3> QED
      BY <1>3, <3>1, <3>2 DEF Ahead
  <2> QED
    BY <1>1, <2>1, <2>2, <2>3
<1> QED
  BY <1>1, <1>3 DEF Ordered, c

LEMMA OrderedAppend ==
    ASSUME NEW q, NEW s \in Seq(Lines), NEW k \in Lines, Ordered(q, s), \A l \in Range(s) : l < k
    PROVE  Ordered(q, Append(s, k))
<1> DEFINE t == Append(s, k)
<1>1. /\ DOMAIN t = 1..(Len(s) + 1) /\ Len(s) \in Nat /\ DOMAIN s = 1..Len(s)
      /\ \A i \in 1..Len(s) : t[i] = s[i] /\ s[i] \in Range(s)
      /\ t[Len(s) + 1] = k
  <2>1. t \in Seq(Lines) /\ Len(t) = Len(s) + 1 /\ \A i \in 1..Len(s) : t[i] = s[i]
    BY AppendProperties
  <2>2. t[Len(s) + 1] = k
    BY AppendProperties
  <2>3. DOMAIN s = 1..Len(s) /\ Len(s) \in Nat /\ \A i \in 1..Len(s) : s[i] \in Range(s)
    BY LenProperties DEF Range
  <2> QED
    BY <2>1, <2>2, <2>3, LenProperties
<1> HIDE DEF t
<1>2. \A i, j \in 1..(Len(s) + 1) : i < j => i \in 1..Len(s) /\ (j \in 1..Len(s) \/ j = Len(s) + 1)
  BY <1>1
<1> QED
  BY <1>1, <1>2 DEF Ordered, t

LEMMA OrderedNothing == \A q : Ordered(q, <<>>) /\ \A S : Ahead(q, S, {}) /\ Ahead(q, {}, S)
BY DEF Ordered, Ahead

\* The main writer flushes to the last file.
LEMMA MainFlushes ==
    ASSUME NEW q, NEW n \in Nat \ {0}, NEW T, NEW U, NEW b \in Seq(Lines),
           \A f \in 1..n : T[f] \in Seq(Lines),
           U[n] = T[n] \o b, \A f \in 1..n : f # n => U[f] = T[f], Sorted(q, T, n, b)
    PROVE  Sorted(q, U, n, <<>>)
<1>1. n \in 1..n /\ T[n] \in Seq(Lines)
  OBVIOUS
<1>2. Range(U[n]) = Range(T[n]) \cup Range(b)
  BY <1>1, RangeOfConcat
<1>3. Ordered(q, U[n])
  <2>1. Ordered(q, T[n]) /\ Ordered(q, b) /\ Ahead(q, Range(T[n]), Range(b))
    BY <1>1 DEF Sorted
  <2> QED
    BY <1>1, <2>1, OrderedConcat
<1>4. \A f \in 1..n : Ordered(q, U[f])
  BY <1>3 DEF Sorted
<1>5. ASSUME NEW f \in 1..n, NEW g \in 1..n, f < g PROVE Ahead(q, Range(U[f]), Range(U[g]))
  <2>1. f # n /\ U[f] = T[f]
    BY <1>5
  <2>2. Ahead(q, Range(T[f]), Range(T[g])) /\ Ahead(q, Range(T[f]), Range(b))
    BY <1>5 DEF Sorted
  <2>3. CASE g = n
    BY <1>2, <2>1, <2>2, <2>3 DEF Ahead
  <2>4. CASE g # n
    BY <2>1, <2>2, <2>4
  <2> QED
    BY <2>3, <2>4
<1> QED
  BY <1>4, <1>5, OrderedNothing, EmptyRange DEF Sorted

\* The other writer flushes, to whatever file: none of the lines are of the main one.
LEMMA OtherFlushes ==
    ASSUME NEW q, NEW n \in Nat, NEW T, NEW U, NEW b, NEW e \in 1..n, NEW c \in Seq(Lines),
           \A f \in 1..n : T[f] \in Seq(Lines), \A l \in Range(c) : q[l] # "main",
           U[e] = T[e] \o c, \A f \in 1..n : f # e => U[f] = T[f], Sorted(q, T, n, b)
    PROVE  Sorted(q, U, n, b)
<1>1. Range(U[e]) = Range(T[e]) \cup Range(c)
  BY RangeOfConcat
<1>2. \A f \in 1..n : \A l \in Range(U[f]) : q[l] = "main" => l \in Range(T[f])
  BY <1>1
<1>3. Ordered(q, U[e])
  <2>1. Ordered(q, T[e])
    BY DEF Sorted
  <2>2. Ordered(q, c) /\ Ahead(q, Range(T[e]), Range(c))
    BY DEF Ordered, Ahead, Range
  <2> QED
    BY <2>1, <2>2, OrderedConcat
<1>4. \A f \in 1..n : Ordered(q, U[f])
  BY <1>3 DEF Sorted
<1>5. \A f, g \in 1..n : f < g => Ahead(q, Range(U[f]), Range(U[g]))
  BY <1>2 DEF Sorted, Ahead
<1>6. \A f \in 1..n : Ahead(q, Range(U[f]), Range(b))
  BY <1>2 DEF Sorted, Ahead
<1> QED
  BY <1>4, <1>5, <1>6 DEF Sorted

\* What is written later does not matter for what is there.
LEMMA SortedStays ==
    ASSUME NEW q, NEW r, NEW n \in Nat, NEW T, NEW b,
           \A f \in 1..n : \A l \in Range(T[f]) : r[l] = q[l],
           \A l \in Range(b) : r[l] = q[l], Sorted(q, T, n, b)
    PROVE  Sorted(r, T, n, b)
<1>1. ASSUME NEW s, \A l \in Range(s) : r[l] = q[l], Ordered(q, s) PROVE Ordered(r, s)
  <2>1. \A i \in DOMAIN s : s[i] \in Range(s)
    BY DEF Range
  <2> QED
    BY <1>1, <2>1 DEF Ordered
<1>2. \A f \in 1..n : Ordered(r, T[f])
  BY <1>1 DEF Sorted
<1>3. Ordered(r, b)
  BY <1>1 DEF Sorted
<1>4. \A f \in 1..n : Ahead(r, Range(T[f]), Range(b))
  BY DEF Sorted, Ahead
<1>5. \A f, g \in 1..n : f < g => Ahead(r, Range(T[f]), Range(T[g]))
  BY DEF Sorted, Ahead
<1> QED
  BY <1>2, <1>3, <1>4, <1>5 DEF Sorted

\* The main writer has the line that is the last.
LEMMA MainWrites ==
    ASSUME NEW q, NEW n \in Nat, NEW T, NEW b \in Seq(Lines), NEW k \in Lines,
           \A f \in 1..n : \A l \in Range(T[f]) : l < k, \A l \in Range(b) : l < k,
           Sorted(q, T, n, b)
    PROVE  Sorted(q, T, n, Append(b, k))
<1>1. Range(Append(b, k)) = Range(b) \cup {k}
  BY RangeOfAppend
<1>2. Ordered(q, Append(b, k))
  BY OrderedAppend DEF Sorted
<1>3. \A f \in 1..n : Ahead(q, Range(T[f]), Range(b) \cup {k})
  BY DEF Sorted, Ahead
<1> QED
  BY <1>1, <1>2, <1>3 DEF Sorted

LEMMA FileBegins ==
    ASSUME NEW q, NEW n \in Nat, NEW T, NEW U, U[n + 1] = <<>>, \A f \in 1..n : U[f] = T[f],
           Sorted(q, T, n, <<>>)
    PROVE  Sorted(q, U, n + 1, <<>>)
<1>1. \A f \in 1..(n + 1) : f = n + 1 \/ f \in 1..n
  OBVIOUS
<1>2. \A f \in 1..(n + 1) : Ordered(q, U[f])
  BY <1>1, OrderedNothing DEF Sorted
<1>3. \A f, g \in 1..(n + 1) : f < g => Ahead(q, Range(U[f]), Range(U[g]))
  <2> SUFFICES ASSUME NEW f \in 1..(n + 1), NEW g \in 1..(n + 1), f < g
               PROVE  Ahead(q, Range(U[f]), Range(U[g]))
    OBVIOUS
  <2>1. f \in 1..n
    OBVIOUS
  <2>2. CASE g = n + 1
    BY <2>2, OrderedNothing, EmptyRange
  <2>3. CASE g # n + 1
    <3>1. g \in 1..n
      BY <2>3
    <3> QED
      BY <2>1, <3>1 DEF Sorted
  <2> QED
    BY <2>2, <2>3
<1> QED
  BY <1>2, <1>3, OrderedNothing, EmptyRange DEF Sorted
-----------------------------------------------------------------------------
(* The logs: the steps that leave the archives alone. *)

\* Before it takes a line, is renamed or replaced a file may be flushed.
Flushing(w, T, B) ==
    \/ T = text /\ B = log[w].buf
    \/ T = Flushed(w) /\ B = <<>>

LEMMA FlushingIs ==
    ASSUME LogsTypeInv, LinesAreGiven, NEW w \in Writers, NEW T, NEW B, Flushing(w, T, B)
    PROVE  /\ B \in Seq(Lines) /\ T \in Seq(Seq(Lines)) /\ Len(T) = Len(text)
           /\ \A f \in 1..Len(text) : T[f] \in Seq(Lines) /\ Range(T[f]) \subseteq DOMAIN written
           /\ \A l \in Range(B) : l \in DOMAIN written /\ By(w, l)
           /\ \A l : IsSomewhere(l) => \/ \E f \in 1..Len(text) : l \in Range(T[f])
                                       \/ l \in Range(B) \/ l \in Range(log[Other(w)].buf)
<1>1. /\ text \in Seq(Seq(Lines)) /\ log[w].buf \in Seq(Lines)
      /\ \A f \in 1..Len(text) : text[f] \in Seq(Lines) /\ Range(text[f]) \subseteq DOMAIN written
      /\ \A l \in Range(log[w].buf) : l \in DOMAIN written /\ By(w, l)
  BY LogsTypesAre DEF LinesAreGiven
<1>2. \A l : IsSomewhere(l) => \/ \E f \in 1..Len(text) : l \in Range(text[f])
                               \/ l \in Range(log[w].buf) \/ l \in Range(log[Other(w)].buf)
  BY LogsTypesAre, TwoWriters DEF IsSomewhere
<1>3. CASE T = text /\ B = log[w].buf
  BY <1>1, <1>2, <1>3
<1>4. CASE T = Flushed(w) /\ B = <<>>
  <2> DEFINE e == log[w].file
  <2>1. /\ T \in Seq(Seq(Lines)) /\ Len(T) = Len(text) /\ e \in 1..Len(text)
        /\ Range(T[e]) = Range(text[e]) \cup Range(log[w].buf)
        /\ \A g \in 1..Len(text) : g # e => T[g] = text[g]
    BY <1>4, FlushedIs
  <2>2. \A f \in 1..Len(text) : T[f] \in Seq(Lines)
    BY <2>1, ElementOfSeq
  <2>3. B \in Seq(Lines) /\ Range(B) = {}
    BY <1>4, EmptyRange
  <2> HIDE DEF e
  <2>4. \A f \in 1..Len(text) : Range(T[f]) \subseteq DOMAIN written
    BY <1>1, <2>1
  <2>5. \A l : IsSomewhere(l) => \/ \E f \in 1..Len(text) : l \in Range(T[f])
                                 \/ l \in Range(log[Other(w)].buf)
    <3>1. \A l : \A f \in 1..Len(text) : l \in Range(text[f]) => l \in Range(T[f])
      BY <2>1
    <3> QED
      BY <1>2, <2>1, <3>1
  <2> QED
    BY <2>1, <2>2, <2>3, <2>4, <2>5
<1> QED
  BY <1>3, <1>4 DEF Flushing

LEMMA FlushingIsSorted ==
    ASSUME LogsInv, NEW w \in Writers, NEW T, NEW B, Flushing(w, T, B),
           ~harmed, place = "service"
    PROVE  Sorted(written, T, Len(text), IF w = "main" THEN B ELSE log["main"].buf)
<1>1. /\ LogsTypeInv /\ Sorted(written, text, Len(text), log["main"].buf)
      /\ log["main"].file = Len(text)
  BY SortedIs DEF LogsInv, ServiceInv, MainIsInOrder
<1>2. CASE T = text /\ B = log[w].buf
  BY <1>1, <1>2
<1>3. CASE T = Flushed(w) /\ B = <<>>
  <2> DEFINE e == log[w].file
  <2>1. /\ e \in 1..Len(text) /\ T[e] = text[e] \o log[w].buf
        /\ \A g \in 1..Len(text) : g # e => T[g] = text[g]
    BY <1>1, <1>3, FlushedIs
  <2>2. /\ Len(text) \in Nat /\ \A f \in 1..Len(text) : text[f] \in Seq(Lines)
        /\ log[w].buf \in Seq(Lines)
    BY <1>1, LogsTypesAre
  <2>3. CASE w = "main"
    <3>1. e = Len(text) /\ Len(text) \in Nat \ {0}
      BY <1>1, <2>1, <2>2, <2>3
    <3> HIDE DEF e
    <3>2. Sorted(written, T, Len(text), <<>>)
      BY <1>1, <2>1, <2>2, <2>3, <3>1, MainFlushes
    <3> QED
      BY <1>3, <2>3, <3>2
  <2>4. CASE w # "main"
    <3>1. \A l \in Range(log[w].buf) : written[l] # "main"
      BY <2>4 DEF LogsInv, LinesAreGiven, By
    <3> HIDE DEF e
    <3>2. Sorted(written, T, Len(text), log["main"].buf)
      BY <1>1, <2>1, <2>2, <3>1, OtherFlushes
    <3> QED
      BY <2>4, <3>2
  <2> QED
    BY <2>3, <2>4
<1> QED
  BY <1>2, <1>3 DEF Flushing

\* Who wrote a line remains.
LEMMA WrittenStays ==
    ASSUME LogsTypeInv, NEW w \in Writers, written' = written \/ Accepts(w)
    PROVE  /\ DOMAIN written \subseteq DOMAIN written'
           /\ \A l \in DOMAIN written : written'[l] = written[l]
           /\ \A l \in DOMAIN written' :
                l \in DOMAIN written \/ (Accepts(w) /\ l = Line /\ written'[l] = w)
           /\ Accepts(w) => Line \in DOMAIN written' /\ written'[Line] = w /\ Line \in Lines
           /\ \A l \in DOMAIN written : l \in Nat /\ l < Line
<1>1. Len(written) \in Nat /\ DOMAIN written = 1..Len(written)
  BY LogsTypesAre
<1>2. \A l \in DOMAIN written : l \in Nat /\ l < Line
  BY <1>1 DEF Line
<1>3. CASE written' = written /\ ~Accepts(w)
  BY <1>2, <1>3
<1>4. CASE Accepts(w)
  <2>1. /\ Line \in Lines /\ Line = Len(written) + 1 /\ DOMAIN written' = 1..(Len(written) + 1)
        /\ written'[Line] = w /\ \A l \in 1..Len(written) : written'[l] = written[l]
    BY <1>4, AcceptsIs
  <2>2. \A l \in 1..(Len(written) + 1) : l \in 1..Len(written) \/ l = Len(written) + 1
    BY <1>1
  <2>3. /\ 1..Len(written) \subseteq 1..(Len(written) + 1)
        /\ Len(written) + 1 \in 1..(Len(written) + 1)
    BY <1>1
  <2> QED
    BY <1>1, <1>2, <1>4, <2>1, <2>2, <2>3
<1> QED
  BY <1>3, <1>4

\* What a writer has in memory stays what is recent of it when the other one writes.
LEMMA RecentStays ==
    ASSUME LogsTypeInv, MemoryInv, NEW w \in Writers, NEW v \in Writers, v # w,
           written' = written \/ Accepts(w), log'[v].mem = log[v].mem
    PROVE  MemoryIsRecent(v)' /\ Range(log'[v].mem) \subseteq DOMAIN written'
<1> DEFINE mem == log[v].mem
<1>1. /\ Range(mem) \subseteq DOMAIN written /\ \A l \in Range(mem) : By(v, l)
      /\ InOrder(v, mem) /\ IsEnd(v, Range(mem))
  BY DEF MemoryInv, MemoryIsRecent
<1>2. /\ DOMAIN written \subseteq DOMAIN written'
      /\ \A l \in DOMAIN written : written'[l] = written[l]
      /\ \A l \in DOMAIN written' : l \in DOMAIN written \/ written'[l] = w
  BY WrittenStays
<1>3. \A i \in DOMAIN mem : mem[i] \in Range(mem)
  BY DEF Range
<1>4. \A l \in Range(mem) : written[l] = v /\ written'[l] = v
  BY <1>1, <1>2 DEF By
<1>5. \A i, j \in DOMAIN mem : i < j => mem[i] < mem[j]
  BY <1>1, <1>3, <1>4 DEF InOrder, By
<1>6. \A m \in DOMAIN written' : written'[m] = v => m \in DOMAIN written /\ written[m] = v
  BY <1>2
<1>7. \A l \in Range(mem), m \in DOMAIN written' :
        l < m /\ written'[l] = v /\ written'[m] = v => m \in Range(mem)
  BY <1>1, <1>4, <1>6 DEF IsEnd, By
<1>8. log'[v].mem = mem /\ Range(mem) \subseteq DOMAIN written'
  BY <1>1, <1>2
<1> HIDE DEF mem
<1> QED
  BY <1>4, <1>5, <1>7, <1>8 DEF MemoryIsRecent, InOrder, IsEnd, By

\* The memory of a writer that is not failing is empty, that of the other one stays what it is.
LEMMA MemoryStays ==
    ASSUME LogsTypeInv, MemoryInv, NEW w \in Writers, written' = written \/ Accepts(w),
           log'[w].mem = <<>>, log'[Other(w)] = log[Other(w)], place' = place
    PROVE  MemoryInv'
<1> DEFINE v == Other(w)
<1>1. v \in Writers /\ v # w /\ \A o \in Writers : o = w \/ o = v
  BY TwoWriters
<1>2. log'[v] = log[v]
  OBVIOUS
<1>3. log[v].mem # <<>> => log[v].bad /\ log[v].pc = "ready" /\ Rotates(v)
  BY <1>1 DEF MemoryInv, Ready
<1>4. Rotates(v)' <=> Rotates(v)
  BY DEF Rotates
<1> HIDE DEF v
<1>5. MemoryIsRecent(v)' /\ Range(log'[v].mem) \subseteq DOMAIN written'
  BY <1>1, <1>2, RecentStays
<1>6. MemoryIsRecent(w)'
  <2>1. Range(log'[w].mem) = {} /\ DOMAIN log'[w].mem = {}
    BY EmptyRange
  <2> QED
    BY <2>1 DEF MemoryIsRecent, InOrder, IsEnd
<1> QED
  BY <1>1, <1>2, <1>3, <1>4, <1>5, <1>6, EmptyRange DEF MemoryInv, Ready

\* The lines that are given, and where they are.
LEMMA QuietStepLines ==
    ASSUME LogsInv, LogsTypeInv', NEW w \in Writers, NEW T, NEW B, Flushing(w, T, B),
           text' = T, log'[Other(w)] = log[Other(w)], UNCHANGED <<place, current>>,
           harmed => harmed', written' = written \/ Accepts(w),
           \A l \in Range(log'[w].buf) : l \in Range(B) \/ (Accepts(w) /\ l = Line),
           ~harmed' => \/ written' = written /\ log'[w].buf = B
                       \/ Accepts(w) /\ log'[w].buf = Append(B, Line),
           ~harmed' => ~log'[w].bad,
           log'[w].pc \in {"named", "renamed"} => log'[w].buf = <<>>
    PROVE  LinesAreGiven' /\ NothingHasHappened'
<1> DEFINE v == Other(w)
<1>1. v \in Writers /\ v # w /\ \A o \in Writers : o = w \/ o = v
  BY TwoWriters
<1>2. /\ LogsTypeInv /\ LinesAreGiven /\ NothingHasHappened
  BY DEF LogsInv
<1>3. /\ B \in Seq(Lines) /\ Len(T) = Len(text)
      /\ \A f \in 1..Len(text) : T[f] \in Seq(Lines) /\ Range(T[f]) \subseteq DOMAIN written
      /\ \A l \in Range(B) : l \in DOMAIN written /\ By(w, l)
      /\ \A l : IsSomewhere(l) => \/ \E f \in 1..Len(text) : l \in Range(T[f])
                                  \/ l \in Range(B) \/ l \in Range(log[v].buf)
  BY <1>2, FlushingIs
<1>4. /\ DOMAIN written \subseteq DOMAIN written'
      /\ \A l \in DOMAIN written : written'[l] = written[l]
      /\ \A l \in DOMAIN written' : l \in DOMAIN written \/ (Accepts(w) /\ l = Line)
      /\ Accepts(w) => Line \in DOMAIN written' /\ written'[Line] = w /\ Line \in Lines
  BY <1>2, WrittenStays
<1>5. DOMAIN text' = 1..Len(text)
  <2>1. T \in Seq(Seq(Lines))
    BY <1>2, FlushingIs
  <2> QED
    BY <1>3, <2>1, LenProperties
<1>6. log'[v] = log[v]
  OBVIOUS
<1> HIDE DEF v
<1>7. LinesAreGiven'
  <2>1. \A l \in Range(log'[w].buf) : l \in DOMAIN written' /\ written'[l] = w
    BY <1>3, <1>4 DEF By
  <2>2. \A l \in Range(log'[v].buf) : l \in DOMAIN written' /\ written'[l] = v
    BY <1>1, <1>2, <1>4, <1>6 DEF LinesAreGiven, By
  <2>3. log'[v].pc \in {"named", "renamed"} => log'[v].buf = <<>>
    BY <1>1, <1>2, <1>6 DEF LinesAreGiven
  <2>4. \A f \in DOMAIN text' : Range(text'[f]) \subseteq DOMAIN written'
    BY <1>3, <1>4, <1>5
  <2> QED
    BY <1>1, <2>1, <2>2, <2>3, <2>4 DEF LinesAreGiven, By
<1>8. NothingHasHappened'
  <2> SUFFICES ASSUME ~harmed'
               PROVE  /\ \A o \in Writers : ~log'[o].bad /\ current'[o] # 0
                      /\ \A l \in DOMAIN written' : IsSomewhere(l)'
    BY DEF NothingHasHappened
  <2>1. \A o \in Writers : ~log'[o].bad /\ current'[o] # 0
    BY <1>1, <1>2, <1>6 DEF NothingHasHappened
  <2>2. /\ Range(B) \subseteq Range(log'[w].buf)
        /\ Accepts(w) /\ written' # written => Line \in Range(log'[w].buf)
    <3>1. CASE written' = written /\ log'[w].buf = B
      BY <3>1
    <3>2. CASE Accepts(w) /\ log'[w].buf = Append(B, Line)
      BY <1>3, <1>4, <3>2, RangeOfAppend
    <3> QED
      BY <3>1, <3>2
  <2>3. ASSUME NEW l \in DOMAIN written' PROVE IsSomewhere(l)'
    <3>1. CASE l \in DOMAIN written
      <4>1. IsSomewhere(l)
        BY <1>2, <3>1 DEF NothingHasHappened
      <4>2. \/ \E f \in 1..Len(text) : l \in Range(text'[f])
            \/ l \in Range(log'[w].buf) \/ l \in Range(log'[v].buf)
        BY <1>3, <1>6, <2>2, <4>1
      <4> QED
        BY <1>1, <1>5, <4>2 DEF IsSomewhere
    <3>2. CASE l \notin DOMAIN written
      <4>1. Accepts(w) /\ l = Line /\ written' # written
        BY <1>4, <3>2
      <4> QED
        BY <2>2, <4>1 DEF IsSomewhere
    <3> QED
      BY <3>1, <3>2
  <2> QED
    BY <2>1, <2>3
<1> QED
  BY <1>7, <1>8

LEMMA QuietStepOrder ==
    ASSUME LogsInv, LogsTypeInv', NEW w \in Writers, NEW T, NEW B, Flushing(w, T, B),
           text' = T, log'[Other(w)] = log[Other(w)], ~harmed, place = "service",
           \/ written' = written /\ log'[w].buf = B
           \/ Accepts(w) /\ log'[w].buf = Append(B, Line)
    PROVE  LinesAreInOrder'
<1> DEFINE b == IF w = "main" THEN B ELSE log["main"].buf
<1> DEFINE n == Len(text)
<1>1. LogsTypeInv /\ LinesAreGiven /\ "main" \in Writers /\ "other" \in Writers
  BY DEF LogsInv, Writers
<1>2. Sorted(written, T, n, b)
  BY FlushingIsSorted
<1>3. /\ B \in Seq(Lines) /\ Len(T) = n /\ n \in Nat
      /\ \A f \in 1..n : Range(T[f]) \subseteq DOMAIN written
      /\ \A l \in Range(B) : l \in DOMAIN written
  BY <1>1, FlushingIs, LogsTypesAre
<1>4. /\ DOMAIN written \subseteq DOMAIN written'
      /\ \A l \in DOMAIN written : written'[l] = written[l] /\ l < Line
      /\ Accepts(w) => Line \in Lines
  BY <1>1, WrittenStays
<1>5. b \in Seq(Lines) /\ \A l \in Range(b) : l \in DOMAIN written
  BY <1>1, <1>3, LogsTypesAre DEF LinesAreGiven
<1>6. w # "main" => log'["main"].buf = b
  BY <1>1 DEF Other, Writers
<1> HIDE DEF b, n
<1>7. Sorted(written', T, n, b)
  BY <1>2, <1>3, <1>4, <1>5, SortedStays
<1>8. Sorted(written', text', Len(text'), log'["main"].buf)
  <2>1. CASE w # "main"
    BY <1>3, <1>6, <1>7, <2>1
  <2>2. CASE w = "main" /\ log'[w].buf = B
    BY <1>3, <1>7, <2>2 DEF b
  <2>3. CASE w = "main" /\ Accepts(w) /\ log'[w].buf = Append(B, Line)
    <3>1. Sorted(written', T, n, Append(b, Line))
      BY <1>3, <1>4, <1>5, <1>7, <2>3, MainWrites
    <3> QED
      BY <1>3, <2>3, <3>1 DEF b
  <2> QED
    BY <2>1, <2>2, <2>3
<1> QED
  BY <1>8, SortedIsThen

\* A step of one writer that leaves the archives as they are, and what it must be shown to do.
LEMMA QuietStepKeeps ==
    ASSUME LogsInv, LogsTypeInv', NEW w \in Writers, NEW T, NEW B, Flushing(w, T, B),
           text' = T, log'[Other(w)] = log[Other(w)], UNCHANGED <<place, current, archives,
                                                                  clock>>,
           rotated'.at = rotated.at, rotated.met => rotated'.met, rotated'.removed = rotated.removed,
           harmed => harmed', written' = written \/ Accepts(w),
           \A l \in Range(log'[w].buf) : l \in Range(B) \/ (Accepts(w) /\ l = Line),
           ~harmed' => \/ written' = written /\ log'[w].buf = B
                       \/ Accepts(w) /\ log'[w].buf = Append(B, Line),
           ~harmed' => ~log'[w].bad,
           log'[w].pc \in {"named", "renamed"} => log'[w].buf = <<>>,
           place = "service" /\ w = "other" => log'[w].pc = "ready",
           w = "main" => log'[w].file = log[w].file \/ log'[w].file = current[w],
           log'[w].pc = "named" =>
             \/ log[w].pc = "named" /\ log'[w].name = log[w].name
             \/ log'[w].name.time = clock /\ log'[w].name \notin DOMAIN archives,
           NamesAreNew', MemoryInv'
    PROVE  LogsInv'
<1>1. LinesAreGiven' /\ NothingHasHappened'
  BY QuietStepLines
<1>2. FilesAreKept'
  <2>1. Len(text') = Len(text) /\ DOMAIN text' = DOMAIN text
    <3>1. /\ T \in Seq(Seq(Lines)) /\ Len(T) = Len(text) /\ text \in Seq(Seq(Lines))
      BY FlushingIs, LogsTypesAre DEF LogsInv
    <3> QED
      BY <3>1, LenProperties
  <2> QED
    BY <2>1 DEF LogsInv, FilesAreKept, Files
<1>3. ArchivesAreCounted'
  BY DEF LogsInv, ArchivesAreCounted
<1>4. ServiceInv'
  <2> SUFFICES ASSUME place = "service"
               PROVE  /\ Ready("other")'
                      /\ ~harmed' => MainIsInOrder' /\ LinesAreInOrder' /\ ArchivesAreLast'
    BY DEF ServiceInv
  <2>1. "main" \in Writers /\ "other" \in Writers /\ (w = "main" \/ w = "other")
    BY DEF Writers
  <2>2. Ready("other")'
    <3>1. CASE w = "other"
      BY <3>1 DEF Ready
    <3>2. CASE w = "main"
      BY <3>2 DEF Ready, LogsInv, ServiceInv, Other
    <3> QED
      BY <2>1, <3>1, <3>2
  <2>3. ASSUME ~harmed' PROVE MainIsInOrder'
    <3>1. MainIsInOrder
      BY <2>3 DEF LogsInv, ServiceInv
    <3>2. Len(text') = Len(text)
      BY FlushingIs DEF LogsInv
    <3>3. log'["main"].file = Len(text)
      BY <2>1, <3>1 DEF MainIsInOrder, Other
    <3>4. log'["main"].pc = "named" =>
            /\ log'["main"].name \notin DOMAIN archives /\ log'["main"].name.time <= clock
            /\ \A k \in DOMAIN rotated.at : rotated.at[k] <= log'["main"].name.time
      <4>1. CASE w = "other"
        BY <3>1, <4>1 DEF MainIsInOrder, Other
      <4>2. CASE w = "main"
        <5>1. clock \in Nat
          BY LogsAssumption, KeptRecords DEF LogsInv
        <5> QED
          BY <3>1, <4>2, <5>1 DEF MainIsInOrder
      <4> QED
        BY <2>1, <4>1, <4>2
    <3> QED
      BY <3>1, <3>2, <3>3, <3>4 DEF MainIsInOrder
  <2>4. ASSUME ~harmed' PROVE LinesAreInOrder'
    BY <2>4, QuietStepOrder
  <2>5. ASSUME ~harmed' PROVE ArchivesAreLast'
    BY <2>5 DEF LogsInv, ServiceInv, ArchivesAreLast, IsInjective
  <2> QED
    BY <2>2, <2>3, <2>4, <2>5
<1> QED
  BY <1>1, <1>2, <1>3, <1>4 DEF LogsInv

\* A name that was new is, as long as no archive takes it.
LEMMA NamesStay ==
    ASSUME NamesAreNew, NEW w \in Writers, log'[Other(w)] = log[Other(w)],
           DOMAIN archives' \subseteq DOMAIN archives, rotated.met => rotated'.met,
           log'[w].pc = "named" => log[w].pc = "named" /\ log'[w].name = log[w].name
    PROVE  NamesAreNew'
<1>1. Other(w) \in Writers /\ \A o \in Writers : o = w \/ o = Other(w)
  BY TwoWriters
<1>2. \A o \in Writers : log'[o].pc = "named" => log[o].pc = "named" /\ log'[o].name = log[o].name
  BY <1>1
<1> QED
  BY <1>2 DEF NamesAreNew

LEMMA WriteLineKeeps ==
    ASSUME LogsInv, LogsTypeInv', NEW w \in Writers, WriteLine(w)
    PROVE  LogsInv'
<1> DEFINE v == Other(w)
<1>1. v \in Writers /\ v # w
  BY TwoWriters
<1>2. /\ LogsTypeInv /\ log \in [Writers -> LogStates(Len(text))] /\ log[w] \in LogStates(Len(text))
  BY LogsTypesAre DEF LogsInv
<1>3. /\ Accepts(w) /\ log[w].pc = "ready" /\ log[w].bad = FALSE
      /\ UNCHANGED <<place, current, archives, clock, disk, rotated, harmed>>
      /\ text' = IF NoRoom(w) THEN Flushed(w) ELSE text
  BY <1>2 DEF WriteLine, Accepts, Ready, Fails, LogStates
<1> DEFINE buf == IF NoRoom(w) THEN <<Line>> ELSE Append(log[w].buf, Line)
<1>4. /\ log'[w].buf = buf /\ log'[w].bad = log[w].bad /\ log'[w].mem = log[w].mem
      /\ log'[w].file = log[w].file /\ log'[w].name = log[w].name
      /\ log'[w].pc \in {"ready", "full"} /\ (log'[w].pc = "full" => Rotates(w))
      /\ log'[v] = log[v]
  BY <1>1, <1>2, <1>3 DEF WriteLine, LogStates
<1>5. PICK B : /\ Flushing(w, text', B) /\ log'[w].buf = Append(B, Line)
  <2>1. CASE NoRoom(w)
    <3>1. <<Line>> = Append(<<>>, Line)
      OBVIOUS
    <3>2. Flushing(w, text', <<>>) /\ log'[w].buf = Append(<<>>, Line)
      BY <1>3, <1>4, <2>1, <3>1 DEF Flushing
    <3> QED
      BY <3>2
  <2>2. CASE ~NoRoom(w)
    <3>1. Flushing(w, text', log[w].buf) /\ log'[w].buf = Append(log[w].buf, Line)
      BY <1>3, <1>4, <2>2 DEF Flushing
    <3> QED
      BY <3>1
  <2> QED
    BY <2>1, <2>2
<1>6. \A l \in Range(log'[w].buf) : l \in Range(B) \/ (Accepts(w) /\ l = Line)
  <2>1. B \in Seq(Lines) /\ Line \in Lines
    BY <1>2, <1>3, <1>5, FlushingIs, AcceptsIs DEF LogsInv
  <2> QED
    BY <1>3, <1>5, <2>1, RangeOfAppend
<1>7. log'[w].mem = <<>>
  BY <1>3, <1>4 DEF LogsInv, MemoryInv
<1> HIDE DEF v, buf
<1>8. log'[Other(w)] = log[Other(w)]
  BY <1>4 DEF v
<1>9. MemoryInv' /\ NamesAreNew'
  BY <1>2, <1>3, <1>4, <1>7, <1>8, MemoryStays, NamesStay DEF LogsInv
<1>10. place = "service" /\ w = "other" => log'[w].pc = "ready"
  BY <1>4 DEF Rotates
<1> QED
  BY <1>3, <1>4, <1>5, <1>6, <1>8, <1>9, <1>10, QuietStepKeeps

\* The memory takes the line, and gives up its older half for it.
LEMMA MemoryTakes ==
    ASSUME LogsInv, NEW w \in Writers, Accepts(w), Rotates(w)
    PROVE  \E mem : /\ mem = Add(log[w].mem, Line)
                    /\ Range(mem) \subseteq DOMAIN written'
                    /\ \A l \in Range(mem) : written'[l] = w
                    /\ \A i, j \in DOMAIN mem : i < j => mem[i] < mem[j]
                    /\ \A l \in Range(mem), m \in DOMAIN written' :
                         l < m /\ written'[m] = w => m \in Range(mem)
<1> DEFINE old == log[w].mem
<1>1. LogsTypeInv /\ old \in Seq(Lines) /\ Len(old) <= Memory /\ Len(old) \in Nat
      /\ DOMAIN old = 1..Len(old)
  BY LogsTypesAre, LenProperties DEF LogsInv, LogsTypeInv, LogsTypeOK
<1>2. /\ Line \in Lines /\ DOMAIN written \subseteq DOMAIN written'
      /\ \A l \in DOMAIN written : written'[l] = written[l] /\ l < Line /\ l \in Nat
      /\ \A l \in DOMAIN written' : l \in DOMAIN written \/ l = Line
      /\ Line \in DOMAIN written' /\ written'[Line] = w /\ Line \in Nat
  BY <1>1, WrittenStays, LogsAssumption DEF Lines
<1>3. /\ \A i \in 1..Len(old) : old[i] \in DOMAIN written /\ written[old[i]] = w
      /\ \A i, j \in 1..Len(old) : i < j => old[i] < old[j]
      /\ \A i \in 1..Len(old), m \in DOMAIN written :
           old[i] < m /\ written[m] = w => \E j \in 1..Len(old) : m = old[j]
  <2>1. /\ Range(old) \subseteq DOMAIN written /\ \A l \in Range(old) : written[l] = w
        /\ InOrder(w, old) /\ IsEnd(w, Range(old))
    BY DEF LogsInv, MemoryInv, MemoryIsRecent, By
  <2>2. Range(old) = {old[i] : i \in 1..Len(old)}
    BY <1>1 DEF Range
  <2>3. \A i \in 1..Len(old) : old[i] \in DOMAIN written /\ written[old[i]] = w
    BY <2>1, <2>2
  <2>4. \A i, j \in 1..Len(old) : i < j => old[i] < old[j]
    BY <1>1, <2>1, <2>3 DEF InOrder, By
  <2> HIDE DEF old
  <2> QED
    BY <2>1, <2>2, <2>3, <2>4 DEF IsEnd, By
<1> HIDE DEF old
<1>4. PICK k \in 0..Len(old) :
        /\ Add(old, Line) \in Seq(Lines)
        /\ Len(Add(old, Line)) = Len(old) - k + 1
        /\ Add(old, Line)[Len(old) - k + 1] = Line
        /\ \A i \in 1..(Len(old) - k) : Add(old, Line)[i] = old[i + k]
  BY <1>1, <1>2, AddIs
<1> DEFINE mem == Add(old, Line)
<1> DEFINE n == Len(old) - k
<1>5. /\ DOMAIN mem = 1..(n + 1) /\ n \in Nat
      /\ mem[n + 1] = Line /\ \A i \in 1..n : mem[i] = old[i + k] /\ i + k \in 1..Len(old)
      /\ \A i \in 1..(n + 1) : i \in 1..n \/ i = n + 1
  <2>1. n \in Nat
    BY <1>1, <1>4
  <2>2. DOMAIN mem = 1..(n + 1)
    BY <1>4, LenProperties
  <2>3. \A i \in 1..n : i + k \in 1..Len(old)
    BY <1>1, <1>4
  <2>4. \A i \in 1..(n + 1) : i \in 1..n \/ i = n + 1
    BY <2>1
  <2> QED
    BY <1>4, <2>1, <2>2, <2>3, <2>4
<1> HIDE DEF mem, n
<1>6. \A i \in 1..(n + 1) : mem[i] \in DOMAIN written' /\ written'[mem[i]] = w
  <2>1. ASSUME NEW i \in 1..n PROVE mem[i] \in DOMAIN written' /\ written'[mem[i]] = w
    <3>1. mem[i] = old[i + k] /\ i + k \in 1..Len(old)
      BY <1>5
    <3>2. mem[i] \in DOMAIN written /\ written[mem[i]] = w
      BY <1>3, <3>1
    <3> QED
      BY <1>2, <3>2
  <2> QED
    BY <1>2, <1>5, <2>1
<1>7. Range(mem) = {mem[i] : i \in 1..(n + 1)}
  BY <1>5 DEF Range
<1>8. ASSUME NEW i \in 1..(n + 1), NEW j \in 1..(n + 1), i < j PROVE mem[i] < mem[j]
  <2>1. i \in 1..n
    BY <1>5, <1>8
  <2>2. mem[i] = old[i + k] /\ i + k \in 1..Len(old) /\ mem[i] < Line
    BY <1>2, <1>3, <1>5, <2>1
  <2>3. CASE j = n + 1
    BY <1>5, <2>2, <2>3
  <2>4. CASE j \in 1..n
    <3>1. mem[j] = old[j + k] /\ j + k \in 1..Len(old) /\ i + k < j + k
      BY <1>4, <1>5, <1>8, <2>4
    <3> QED
      BY <1>3, <2>2, <3>1
  <2> QED
    BY <1>5, <2>3, <2>4
<1>9. ASSUME NEW i \in 1..(n + 1), NEW m \in DOMAIN written', mem[i] < m, written'[m] = w
      PROVE  \E j \in 1..(n + 1) : m = mem[j]
  <2>1. CASE m = Line
    BY <1>5, <2>1
  <2>2. CASE m # Line
    <3>1. m \in DOMAIN written /\ written[m] = w /\ m < Line /\ m \in Nat
      BY <1>2, <1>9, <2>2
    <3>2. i \in 1..n
      <4>1. i # n + 1
        BY <1>2, <1>5, <1>9, <3>1
      <4> QED
        BY <1>5, <4>1
    <3>3. PICK j \in 1..Len(old) : m = old[j]
      BY <1>3, <1>5, <1>9, <3>1, <3>2
    <3>4. i + k < j
      <4>1. i + k \in 1..Len(old) /\ old[i + k] < old[j] /\ old[i + k] \in Nat
        BY <1>2, <1>3, <1>5, <1>9, <3>2, <3>3
      <4>2. CASE j = i + k
        BY <3>1, <3>3, <4>1, <4>2
      <4>3. CASE j < i + k
        <5>1. old[j] < old[i + k]
          BY <1>3, <4>1, <4>3
        <5> QED
          BY <3>1, <3>3, <4>1, <5>1
      <4> QED
        BY <4>1, <4>2, <4>3
    <3>5. j - k \in 1..n /\ (j - k) + k = j
      BY <1>1, <1>4, <1>5, <3>2, <3>4 DEF n
    <3>6. m = mem[j - k] /\ j - k \in 1..(n + 1)
      BY <1>5, <3>3, <3>5
    <3> QED
      BY <3>6
  <2> QED
    BY <2>1, <2>2
<1> QED
  BY <1>5, <1>6, <1>7, <1>8, <1>9 DEF mem, old

LEMMA LineFailsKeeps ==
    ASSUME LogsInv, LogsTypeInv', NEW w \in Writers, LineFails(w)
    PROVE  LogsInv'
<1> DEFINE v == Other(w)
<1>1. v \in Writers /\ v # w /\ \A o \in Writers : o = w \/ o = v
  BY TwoWriters
<1>2. /\ LogsTypeInv /\ log \in [Writers -> LogStates(Len(text))] /\ log[w] \in LogStates(Len(text))
  BY LogsTypesAre DEF LogsInv
<1>3. /\ Accepts(w) /\ log[w].pc = "ready" /\ harmed'
      /\ UNCHANGED <<place, text, current, archives, clock, disk, rotated>>
  BY DEF LineFails, Accepts, Ready
<1>4. /\ log'[w].buf = log[w].buf /\ log'[w].bad = TRUE
      /\ log'[w].mem = (IF Rotates(w) THEN Add(log[w].mem, Line) ELSE log[w].mem)
      /\ log'[w].file = log[w].file /\ log'[w].name = log[w].name /\ log'[w].pc = "ready"
      /\ log'[v] = log[v]
  BY <1>1, <1>2, <1>3 DEF LineFails, LogStates
<1>5. Flushing(w, text', log[w].buf)
  BY <1>3 DEF Flushing
<1>6. CASE ~Rotates(w)
  <2>1. log'[w].mem = <<>>
    BY <1>4, <1>6 DEF LogsInv, MemoryInv
  <2> HIDE DEF v
  <2>2. log'[Other(w)] = log[Other(w)]
    BY <1>4 DEF v
  <2>3. MemoryInv' /\ NamesAreNew'
    BY <1>2, <1>3, <1>4, <2>1, <2>2, MemoryStays, NamesStay DEF LogsInv
  <2> QED
    BY <1>3, <1>4, <1>5, <2>2, <2>3, QuietStepKeeps
<1>7. CASE Rotates(w)
  <2>1. PICK mem :
          /\ mem = Add(log[w].mem, Line)
          /\ Range(mem) \subseteq DOMAIN written'
          /\ \A l \in Range(mem) : written'[l] = w
          /\ \A i, j \in DOMAIN mem : i < j => mem[i] < mem[j]
          /\ \A l \in Range(mem), m \in DOMAIN written' :
               l < m /\ written'[m] = w => m \in Range(mem)
    BY <1>3, <1>7, MemoryTakes
  <2>2. log'[w].mem = mem /\ (Rotates(w)' <=> Rotates(w))
    BY <1>3, <1>4, <1>7, <2>1 DEF Rotates
  <2>3. MemoryIsRecent(w)'
    BY <2>1, <2>2 DEF MemoryIsRecent, InOrder, IsEnd, By
  <2>4. MemoryIsRecent(v)' /\ Range(log'[v].mem) \subseteq DOMAIN written'
    <3> HIDE DEF v
    <3> QED
      BY <1>1, <1>2, <1>3, <1>4, RecentStays DEF LogsInv
  <2>5. log[v].mem # <<>> => log[v].bad /\ log[v].pc = "ready" /\ Rotates(v)
    BY <1>1 DEF LogsInv, MemoryInv, Ready
  <2>6. Rotates(v)' <=> Rotates(v)
    BY <1>3 DEF Rotates
  <2> HIDE DEF v
  <2>7. MemoryInv'
    BY <1>1, <1>4, <1>7, <2>1, <2>2, <2>3, <2>4, <2>5, <2>6 DEF MemoryInv, Ready
  <2>8. log'[Other(w)] = log[Other(w)]
    BY <1>4 DEF v
  <2>9. NamesAreNew'
    BY <1>3, <1>4, <2>8, NamesStay DEF LogsInv
  <2> QED
    BY <1>3, <1>4, <1>5, <2>7, <2>8, <2>9, QuietStepKeeps
<1> QED
  BY <1>6, <1>7

LEMMA FlushLoopKeeps ==
    ASSUME LogsInv, LogsTypeInv', NEW w \in Writers, FlushLoop(w)
    PROVE  LogsInv'
<1> DEFINE v == Other(w)
<1>1. v \in Writers /\ v # w
  BY TwoWriters
<1>2. /\ LogsTypeInv /\ log \in [Writers -> LogStates(Len(text))] /\ log[w] \in LogStates(Len(text))
  BY LogsTypesAre DEF LogsInv
<1>3. /\ UNCHANGED <<place, written, current, archives, clock, disk, rotated>> /\ log[w].bad =
                     FALSE
      /\ log[w].buf # <<>>
      /\ \/ text' = text /\ harmed' /\ log' = [log EXCEPT ![w].bad = TRUE]
         \/ text' = Flushed(w) /\ harmed' = harmed /\ log' = [log EXCEPT ![w].buf = <<>>]
  BY <1>2 DEF FlushLoop, LogStates
<1>4. /\ log'[w].mem = log[w].mem /\ log'[w].file = log[w].file /\ log'[w].name = log[w].name
      /\ log'[w].pc = log[w].pc /\ log'[v] = log[v]
      /\ harmed' \/ log'[w].bad = FALSE
  BY <1>1, <1>2, <1>3 DEF LogStates
<1>5. PICK B : Flushing(w, text', B) /\ log'[w].buf = B /\ (log[w].buf = <<>> => B = <<>>)
  <2>1. CASE text' = text /\ log' = [log EXCEPT ![w].bad = TRUE]
    BY <1>2, <2>1 DEF LogStates, Flushing
  <2>2. CASE text' = Flushed(w) /\ log' = [log EXCEPT ![w].buf = <<>>]
    BY <1>2, <2>2 DEF LogStates, Flushing
  <2> QED
    BY <1>3, <2>1, <2>2
<1>6. log[w].pc \notin {"named", "renamed"}
  BY <1>3 DEF LogsInv, LinesAreGiven
<1>7. log'[w].mem = <<>>
  BY <1>3, <1>4 DEF LogsInv, MemoryInv
<1>8. place = "service" /\ w = "other" => log'[w].pc = "ready"
  BY <1>4 DEF LogsInv, ServiceInv, Ready
<1>9. log'[Other(w)] = log[Other(w)]
  BY <1>4
<1> HIDE DEF v
<1>10. MemoryInv' /\ NamesAreNew'
  BY <1>2, <1>3, <1>4, <1>7, <1>9, MemoryStays, NamesStay DEF LogsInv
<1> QED
  BY <1>3, <1>4, <1>5, <1>6, <1>8, <1>9, <1>10, QuietStepKeeps

LEMMA NameArchiveKeeps ==
    ASSUME LogsInv, LogsTypeInv', NEW w \in Writers, NameArchive(w)
    PROVE  LogsInv'
<1> DEFINE v == Other(w)
<1>1. v \in Writers /\ v # w /\ \A o \in Writers : o = w \/ o = v
  BY TwoWriters
<1>2. /\ LogsTypeInv /\ log \in [Writers -> LogStates(Len(text))] /\ log[w] \in LogStates(Len(text))
      /\ rotated \in Records
  BY LogsTypesAre, KeptRecords DEF LogsInv
<1>3. PICK name : /\ name = ResolveConflict /\ name.time = clock /\ name \notin DOMAIN archives
  BY <1>2, ResolveConflictIs
<1>4. /\ UNCHANGED <<place, written, current, archives, clock, disk>> /\ log[w].pc = "full"
      /\ log' = [log EXCEPT ![w].open = FALSE, ![w].buf = <<>>, ![w].pc = "named", ![w].name = name]
      /\ rotated' = [rotated EXCEPT !.met = @ \/
                       \E o \in Writers \ {w} : log[o].pc = "named" /\ log[o].name = name]
      /\ Close(w)
  BY <1>3 DEF NameArchive
<1>5. /\ log'[w].buf = <<>> /\ log'[w].bad = log[w].bad /\ log'[w].mem = log[w].mem
      /\ log'[w].file = log[w].file /\ log'[w].name = name /\ log'[w].pc = "named"
      /\ log'[v] = log[v]
  BY <1>1, <1>2, <1>4 DEF LogStates
<1>6. /\ rotated'.at = rotated.at /\ rotated'.removed = rotated.removed
      /\ rotated'.met = (rotated.met \/ \E o \in Writers \ {w} :
                                           log[o].pc = "named" /\ log[o].name = name)
  BY <1>2, <1>4, Zenon DEF Records
<1>7. PICK B : Flushing(w, text', B) /\ (harmed => harmed') /\ (~harmed' => B = <<>>)
  <2>1. CASE text' = text /\ harmed' = (harmed \/ log[w].buf # <<>>)
    BY <2>1 DEF Flushing
  <2>2. CASE text' = Flushed(w) /\ harmed' = harmed
    BY <2>2 DEF Flushing
  <2> QED
    BY <1>4, <2>1, <2>2 DEF Close
<1>8. log'[w].mem = <<>>
  BY <1>4, <1>5 DEF LogsInv, MemoryInv, Ready
<1>9. place = "service" /\ w = "other" => FALSE
  BY <1>4 DEF LogsInv, ServiceInv, Ready
<1>10. ~harmed' => ~log'[w].bad
  BY <1>5, <1>7 DEF LogsInv, NothingHasHappened
<1>11. log'[Other(w)] = log[Other(w)]
  BY <1>5
<1> HIDE DEF v
<1>12. MemoryInv'
  BY <1>2, <1>4, <1>8, <1>11, MemoryStays DEF LogsInv
<1>13. NamesAreNew'
  <2> SUFFICES ASSUME ~rotated'.met, NEW o \in Writers, log'[o].pc = "named"
               PROVE  /\ log'[o].name \notin DOMAIN archives
                      /\ \A u \in Writers \ {o} : log'[u].pc = "named" => log'[u].name # log'[o].name
    BY <1>4 DEF NamesAreNew
  <2>1. ~rotated.met /\ (log[v].pc = "named" => log[v].name # name)
    BY <1>1, <1>6
  <2>2. log[v].pc = "named" => log[v].name \notin DOMAIN archives
    BY <1>1, <2>1 DEF LogsInv, NamesAreNew
  <2> QED
    BY <1>1, <1>3, <1>5, <2>1, <2>2
<1>14. \A l \in Range(log'[w].buf) : FALSE
  BY <1>5, EmptyRange
<1> QED
  BY <1>3, <1>4, <1>5, <1>6, <1>7, <1>9, <1>10, <1>11, <1>12, <1>13, <1>14, QuietStepKeeps

LEMMA RenameFailsKeeps ==
    ASSUME LogsInv, LogsTypeInv', NEW w \in Writers, RenameFails(w)
    PROVE  LogsInv'
<1>1. Other(w) \in Writers /\ Other(w) # w
  BY TwoWriters
<1>2. LogsTypeInv /\ log \in [Writers -> LogStates(Len(text))] /\ log[w] \in LogStates(Len(text))
  BY LogsTypesAre DEF LogsInv
<1>3. /\ UNCHANGED <<place, written, text, current, archives, clock, rotated, harmed>>
      /\ log[w].pc = "named"
      /\ log' = [log EXCEPT ![w] = [Opened(current[Path(w)], log[w].size) EXCEPT !.mem = log[w].mem]]
  BY DEF RenameFails
<1>4. log[w].mem = <<>> /\ log[w].buf = <<>> /\ Rotates(w)
  BY <1>2, <1>3 DEF LogsInv, MemoryInv, Ready, LinesAreGiven, LogsTypeInv, FilesAreThere
<1>5. /\ log'[w].buf = <<>> /\ log'[w].bad = FALSE /\ log'[w].mem = <<>>
      /\ log'[w].file = current[Path(w)] /\ log'[w].pc = "ready" /\ log'[Other(w)] = log[Other(w)]
  BY <1>1, <1>2, <1>3, <1>4 DEF Opened
<1>6. Flushing(w, text', <<>>)
  BY <1>3, <1>4 DEF Flushing
<1>7. Path(w) = w
  BY <1>2, <1>4, PathsAre
<1>8. MemoryInv' /\ NamesAreNew'
  BY <1>2, <1>3, <1>5, MemoryStays, NamesStay DEF LogsInv
<1>9. \A l \in Range(log'[w].buf) : FALSE
  BY <1>5, EmptyRange
<1> QED
  BY <1>3, <1>5, <1>6, <1>7, <1>8, <1>9, QuietStepKeeps

LEMMA RebuildLoggerKeeps ==
    ASSUME LogsInv, LogsTypeInv', RebuildLogger
    PROVE  LogsInv'
<1> DEFINE w == "main"
<1>1. w \in Writers /\ Other(w) \in Writers /\ Other(w) # w
  BY TwoWriters DEF Writers
<1>2. LogsTypeInv /\ log \in [Writers -> LogStates(Len(text))]
  BY LogsTypesAre DEF LogsInv
<1>3. /\ UNCHANGED <<place, written, current, archives, clock, disk, rotated>>
      /\ log' = [log EXCEPT ![w] = Opened(current[w], Len(text'[current[w]]))]
      /\ Close(w)
  BY DEF RebuildLogger
<1>4. /\ log'[w].buf = <<>> /\ log'[w].bad = FALSE /\ log'[w].mem = <<>>
      /\ log'[w].file = current[w] /\ log'[w].pc = "ready" /\ log'[Other(w)] = log[Other(w)]
  BY <1>1, <1>2, <1>3 DEF Opened
<1>5. PICK B : Flushing(w, text', B) /\ (harmed => harmed') /\ (~harmed' => B = <<>>)
  <2>1. CASE text' = text /\ harmed' = (harmed \/ log[w].buf # <<>>)
    BY <2>1 DEF Flushing
  <2>2. CASE text' = Flushed(w) /\ harmed' = harmed
    BY <2>2 DEF Flushing
  <2> QED
    BY <1>3, <2>1, <2>2 DEF Close
<1> HIDE DEF w
<1>6. MemoryInv' /\ NamesAreNew'
  BY <1>1, <1>2, <1>3, <1>4, MemoryStays, NamesStay DEF LogsInv
<1>7. \A l \in Range(log'[w].buf) : FALSE
  BY <1>4, EmptyRange
<1>8. ~(w = "other")
  BY DEF w
<1> QED
  BY <1>1, <1>3, <1>4, <1>5, <1>6, <1>7, <1>8, QuietStepKeeps

LEMMA SpaceAndTimeKeeps ==
    ASSUME LogsInv, LogsTypeInv',
           UNCHANGED <<place, written, text, current, archives, log, rotated, harmed>>,
           clock <= clock'
    PROVE  LogsInv'
<1>1. /\ LinesAreGiven' /\ NothingHasHappened' /\ NamesAreNew' /\ FilesAreKept'
      /\ ArchivesAreCounted'
  BY DEF LogsInv, LinesAreGiven, NothingHasHappened, NamesAreNew, FilesAreKept,
     ArchivesAreCounted,
         By, IsSomewhere, Files
<1>2. MemoryInv'
  BY DEF LogsInv, MemoryInv, MemoryIsRecent, InOrder, IsEnd, By, Ready, Rotates
<1>3. ServiceInv'
  <2> SUFFICES ASSUME place = "service", ~harmed
               PROVE  MainIsInOrder' /\ LinesAreInOrder' /\ ArchivesAreLast'
    BY DEF LogsInv, ServiceInv, Ready
  <2>1. MainIsInOrder /\ LinesAreInOrder /\ ArchivesAreLast
    BY DEF LogsInv, ServiceInv
  <2>2. LinesAreInOrder' /\ ArchivesAreLast'
    BY <2>1 DEF LinesAreInOrder, InOrder, Precedes, By, ArchivesAreLast, IsInjective
  <2>3. MainIsInOrder'
    <3>1. /\ clock \in Nat /\ clock' \in Nat
          /\ \A k \in DOMAIN rotated.at : rotated.at[k] \in Nat
          /\ log["main"].pc = "named" => log["main"].name.time \in Nat
      <4>1. clock \in 1..MaxTime /\ clock' \in 1..MaxTime /\ MaxTime \in Nat
        BY LogsAssumption DEF LogsInv, LogsTypeInv, LogsTypeOK
      <4>2. \A k \in DOMAIN rotated.at : rotated.at[k] \in 1..MaxTime
        <5>1. rotated.at \in Seq(1..MaxTime)
          BY KeptRecords DEF LogsInv, Records
        <5> QED
          BY <5>1, ElementOfSeq, LenProperties
      <4>3. log["main"].pc = "named" => log["main"].name \in Names
        BY DEF LogsInv, LogsTypeInv, FilesAreThere, Writers
      <4> QED
        BY <4>1, <4>2, <4>3 DEF Names
    <3> QED
      BY <2>1, <3>1 DEF MainIsInOrder
  <2> QED
    BY <2>1, <2>2, <2>3
<1> QED
  BY <1>1, <1>2, <1>3 DEF LogsInv
-----------------------------------------------------------------------------
(* The logs: the steps that change the archives. *)

LEMMA RenamedKeeps ==
    ASSUME LogsInv, NEW w \in Writers, Renamed(w), log'[w].pc # "named",
           log'[Other(w)] = log[Other(w)]
    PROVE  /\ NamesAreNew' /\ ArchivesAreCounted' /\ log[w].mem = <<>> /\ log[w].buf = <<>>
           /\ place = "service" => w = "main"
<1>1. Other(w) \in Writers /\ Other(w) # w /\ \A o \in Writers : o = w \/ o = Other(w)
  BY TwoWriters
<1>2. /\ LogsTypeInv /\ log[w].pc = "named" /\ DOMAIN archives' = DOMAIN archives \cup {log[w].name}
      /\ Cardinality(DOMAIN archives') \in Nat
      /\ Cardinality(DOMAIN archives') <= Cardinality(DOMAIN archives) + 1
      /\ log[w].name \in Names
      /\ rotated'.at = Append(rotated.at, log[w].name.time)
      /\ rotated'.met = rotated.met /\ rotated'.removed = rotated.removed
  BY RenamedIs DEF LogsInv
<1>3. NamesAreNew'
  <2> SUFFICES ASSUME ~rotated'.met, NEW o \in Writers, log'[o].pc = "named"
               PROVE  /\ log'[o].name \notin DOMAIN archives'
                      /\ \A u \in Writers \ {o} : log'[u].pc = "named" => log'[u].name # log'[o].name
    BY DEF NamesAreNew
  <2>1. o = Other(w) /\ log'[o] = log[o]
    BY <1>1
  <2>2. log[o].name \notin DOMAIN archives /\ log[w].name # log[o].name
    BY <1>1, <1>2, <2>1 DEF LogsInv, NamesAreNew
  <2> QED
    BY <1>1, <1>2, <2>1, <2>2
<1>4. Len(rotated'.at) = Len(rotated.at) + 1 /\ Len(rotated.at) \in Nat /\ MaxFiles \in Nat
  <2>1. rotated.at \in Seq(1..MaxTime) /\ log[w].name.time \in 1..MaxTime
    BY <1>2, KeptRecords DEF Records, Names
  <2> QED
    BY <1>2, <2>1, AppendProperties, LenProperties, LogsAssumption
<1>5. ArchivesAreCounted'
  <2>1. Cardinality(DOMAIN archives) \in Nat
    BY <1>2, LogsTypesAre
  <2>2. /\ Cardinality(DOMAIN archives) <= Len(rotated.at)
        /\ rotated.removed => Len(rotated.at) > MaxFiles
    BY DEF LogsInv, ArchivesAreCounted
  <2>3. Cardinality(DOMAIN archives') <= Len(rotated'.at)
    BY <1>2, <1>4, <2>1, <2>2
  <2>4. rotated'.removed => Len(rotated'.at) > MaxFiles
    BY <1>2, <1>4, <2>2
  <2> QED
    BY <2>3, <2>4 DEF ArchivesAreCounted
<1>6. log[w].mem = <<>> /\ log[w].buf = <<>>
  BY <1>2 DEF LogsInv, MemoryInv, Ready, LinesAreGiven
<1>7. place = "service" => w = "main"
  BY <1>2 DEF LogsInv, ServiceInv, Ready, Writers
<1> QED
  BY <1>3, <1>5, <1>6, <1>7

LEMMA ReopenFailsKeeps ==
    ASSUME LogsInv, LogsTypeInv', NEW w \in Writers, ReopenFails(w)
    PROVE  LogsInv'
<1> DEFINE v == Other(w)
<1>1. v \in Writers /\ v # w /\ \A o \in Writers : o = w \/ o = v
  BY TwoWriters
<1>2. /\ Renamed(w) /\ UNCHANGED <<place, written, text, clock>> /\ harmed'
      /\ log'[v] = log[v] /\ log'[w].buf = log[w].buf /\ log'[w].mem = log[w].mem
      /\ log'[w].pc = "ready"
  BY NotReopenedIs DEF LogsInv
<1>3. /\ NamesAreNew' /\ ArchivesAreCounted' /\ log[w].mem = <<>> /\ log[w].buf = <<>>
      /\ place = "service" => w = "main"
  BY <1>2, RenamedKeeps
<1>4. MemoryInv'
  BY <1>2, <1>3, MemoryStays DEF LogsInv
<1> HIDE DEF v
<1>5. LinesAreGiven'
  BY <1>1, <1>2, <1>3, EmptyRange DEF LogsInv, LinesAreGiven, By
<1>6. NothingHasHappened' /\ FilesAreKept'
  BY <1>2 DEF NothingHasHappened, FilesAreKept
<1>7. ServiceInv'
  <2>1. place = "service" => log'["other"].pc = "ready"
    BY <1>1, <1>2, <1>3 DEF LogsInv, ServiceInv, Ready, Writers
  <2> QED
    BY <1>2, <2>1 DEF ServiceInv, Ready
<1> QED
  BY <1>3, <1>4, <1>5, <1>6, <1>7 DEF LogsInv

LEMMA MoveCurrentOrder ==
    ASSUME LogsInv, LogsTypeInv', MoveCurrent("main"), place = "service", ~harmed
    PROVE  MainIsInOrder' /\ LinesAreInOrder' /\ ArchivesAreLast'
<1> DEFINE n == Len(text)
<1> DEFINE name == log["main"].name
<1>1. "main" \in Writers /\ LogsTypeInv /\ Path("main") = "main"
  BY DEF Writers, LogsInv, Path
<1>2. /\ Renamed("main") /\ UNCHANGED <<place, written, clock, disk, harmed>>
      /\ Len(text') = n + 1 /\ text'[n + 1] = <<>> /\ \A f \in 1..n : text'[f] = text[f]
      /\ current'["main"] = n + 1 /\ log'["main"].file = n + 1 /\ log'["main"].buf = <<>>
      /\ log'["main"].pc = "renamed"
  BY <1>1, MovedIs
<1>3. /\ log["main"].pc = "named" /\ DOMAIN archives' = DOMAIN archives \cup {name}
      /\ archives'[name] = current["main"]
      /\ \A m \in DOMAIN archives : m # name => archives'[m] = archives[m]
      /\ rotated'.at = Append(rotated.at, name.time) /\ name \in Names
  BY <1>1, <1>2, RenamedIs
<1>4. MainIsInOrder /\ LinesAreInOrder /\ ArchivesAreLast
  BY DEF LogsInv, ServiceInv
<1>5. /\ current["main"] = n /\ Len(rotated.at) = n - 1 /\ n \in Nat
      /\ name \notin DOMAIN archives /\ name.time <= clock
      /\ \A k \in DOMAIN rotated.at : rotated.at[k] <= clock /\ rotated.at[k] <= name.time
      /\ \A j, k \in DOMAIN rotated.at : j < k => rotated.at[j] <= rotated.at[k]
  BY <1>1, <1>3, <1>4, LogsTypesAre DEF MainIsInOrder
<1>6. /\ DOMAIN rotated.at = 1..(n - 1) /\ DOMAIN rotated'.at = 1..n /\ Len(rotated'.at) = n
      /\ \A k \in 1..(n - 1) : rotated'.at[k] = rotated.at[k]
      /\ rotated'.at[n] = name.time /\ n \in 1..n
      /\ \A k \in 1..n : k \in 1..(n - 1) \/ k = n
  <2>1. rotated.at \in Seq(1..MaxTime) /\ name.time \in 1..MaxTime
    BY <1>1, <1>3, KeptRecords DEF Records, Names
  <2>2. /\ Append(rotated.at, name.time) \in Seq(1..MaxTime)
        /\ Len(Append(rotated.at, name.time)) = Len(rotated.at) + 1 /\ Len(rotated.at) \in Nat
        /\ \A k \in 1..Len(rotated.at) : Append(rotated.at, name.time)[k] = rotated.at[k]
        /\ Append(rotated.at, name.time)[Len(rotated.at) + 1] = name.time
    BY <2>1, AppendProperties, LenProperties
  <2>3. DOMAIN rotated.at = 1..Len(rotated.at)
    BY <2>1, LenProperties
  <2>4. DOMAIN Append(rotated.at, name.time) = 1..Len(Append(rotated.at, name.time))
    BY <2>2, LenProperties
  <2>5. (n - 1) + 1 = n /\ n \in 1..n /\ \A k \in 1..n : k \in 1..(n - 1) \/ k = n
    BY <1>5, <2>2
  <2> HIDE DEF n, name
  <2> QED
    BY <1>3, <1>5, <2>2, <2>3, <2>4, <2>5
<1>7. \A m \in DOMAIN archives : /\ archives'[m] = archives[m] /\ archives[m] \in 1..(n - 1)
                                 /\ rotated.at[archives[m]] = m.time /\ m # name
  <2> HIDE DEF n, name
  <2> QED
    BY <1>3, <1>4, <1>5, <1>6 DEF MainIsInOrder
<1> HIDE DEF n, name
<1>8. MainIsInOrder'
  <2>1. /\ current'["main"] = Len(text') /\ log'["main"].file = Len(text')
        /\ Len(rotated'.at) = Len(text') - 1
    BY <1>2, <1>5, <1>6
  <2>2. \A m \in DOMAIN archives' :
          archives'[m] \in DOMAIN rotated'.at /\ rotated'.at[archives'[m]] = m.time
    <3>1. ASSUME NEW m \in DOMAIN archives
          PROVE  archives'[m] \in 1..n /\ rotated'.at[archives'[m]] = m.time
      <4>1. archives'[m] \in 1..(n - 1) /\ rotated.at[archives'[m]] = m.time
        BY <1>7
      <4> QED
        BY <1>5, <1>6, <4>1
    <3> QED
      BY <1>3, <1>5, <1>6, <3>1
  <2>3. \A m, o \in DOMAIN archives' : archives'[m] = archives'[o] => m = o
    <3>1. \A m, o \in DOMAIN archives : archives'[m] = archives'[o] => m = o
      BY <1>4, <1>7 DEF MainIsInOrder
    <3>2. \A m \in DOMAIN archives : archives'[m] # archives'[name]
      BY <1>3, <1>5, <1>7
    <3> QED
      BY <1>3, <3>1, <3>2
  <2>4. \A j, k \in DOMAIN rotated'.at : j < k => rotated'.at[j] <= rotated'.at[k]
    <3> SUFFICES ASSUME NEW j \in 1..n, NEW k \in 1..n, j < k
                 PROVE  rotated'.at[j] <= rotated'.at[k]
      BY <1>6
    <3>1. j \in 1..(n - 1)
      BY <1>5, <1>6
    <3> QED
      BY <1>5, <1>6, <3>1
  <2>5. \A k \in DOMAIN rotated'.at : rotated'.at[k] <= clock'
    BY <1>2, <1>5, <1>6
  <2> QED
    BY <1>2, <2>1, <2>2, <2>3, <2>4, <2>5 DEF MainIsInOrder
<1>9. LinesAreInOrder'
  <2>1. Sorted(written, text, n, <<>>)
    <3>1. log["main"].buf = <<>>
      BY <1>1, <1>3 DEF LogsInv, LinesAreGiven
    <3> QED
      BY <1>1, <1>4, <3>1, SortedIs DEF n
  <2>2. Sorted(written', text', Len(text'), log'["main"].buf)
    BY <1>2, <1>5, <2>1, FileBegins
  <2> QED
    BY <2>2, SortedIsThen
<1>10. ArchivesAreLast'
  <2> SUFFICES ASSUME IsInjective(rotated'.at), NEW m \in DOMAIN archives', NEW g \in 1..n,
                      archives'[m] < g
               PROVE  \E o \in DOMAIN archives' : archives'[o] = g
    BY <1>6 DEF ArchivesAreLast
  <2>1. CASE g = n
    BY <1>3, <1>5, <2>1
  <2>2. CASE g # n
    <3>1. g \in 1..(n - 1) /\ m \in DOMAIN archives /\ archives[m] < g
      BY <1>3, <1>5, <1>6, <1>7, <2>2
    <3>2. IsInjective(rotated.at)
      <4>1. \A j, k \in 1..(n - 1) : rotated.at[j] = rotated.at[k] => j = k
        <5>1. \A j, k \in 1..n : rotated'.at[j] = rotated'.at[k] => j = k
          BY <1>6 DEF IsInjective
        <5>2. \A j \in 1..(n - 1) : j \in 1..n /\ rotated'.at[j] = rotated.at[j]
          BY <1>5, <1>6
        <5> QED
          BY <5>1, <5>2
      <4> QED
        BY <1>6, <4>1 DEF IsInjective
    <3>3. PICK o \in DOMAIN archives : archives[o] = g
      BY <1>4, <1>6, <3>1, <3>2 DEF ArchivesAreLast
    <3> QED
      BY <1>3, <1>7, <3>3
  <2> QED
    BY <2>1, <2>2
<1> QED
  BY <1>8, <1>9, <1>10

LEMMA MoveCurrentKeeps ==
    ASSUME LogsInv, LogsTypeInv', NEW w \in Writers, MoveCurrent(w)
    PROVE  LogsInv'
<1> DEFINE v == Other(w)
<1> DEFINE n == Len(text)
<1>1. v \in Writers /\ v # w /\ \A o \in Writers : o = w \/ o = v
  BY TwoWriters
<1>2. /\ Renamed(w) /\ UNCHANGED <<place, written, clock, disk, harmed>>
      /\ DOMAIN text' = 1..(n + 1) /\ text'[n + 1] = <<>> /\ \A f \in 1..n : text'[f] = text[f]
      /\ \A o \in Writers : current'[o] = IF Path(o) = Path(w) THEN n + 1 ELSE current[o]
      /\ log'[v] = log[v] /\ log'[w].buf = <<>>
      /\ log'[w].bad = FALSE /\ log'[w].mem = log[w].mem /\ log'[w].pc = "renamed"
  BY MovedIs DEF LogsInv
<1>3. /\ NamesAreNew' /\ ArchivesAreCounted' /\ log[w].mem = <<>> /\ log[w].buf = <<>>
      /\ place = "service" => w = "main"
  BY <1>2, RenamedKeeps
<1>4. MemoryInv'
  BY <1>2, <1>3, MemoryStays DEF LogsInv
<1>5. /\ log[w].pc = "named"
      /\ DOMAIN archives' = DOMAIN archives \cup {log[w].name}
      /\ archives'[log[w].name] = current[Path(w)]
      /\ \A m \in DOMAIN archives : m # log[w].name => archives'[m] = archives[m]
      /\ rotated'.met = rotated.met /\ rotated'.removed = rotated.removed
  BY <1>2, RenamedIs DEF LogsInv
<1>6. n \in Nat /\ DOMAIN text = 1..n /\ \A f \in 1..(n + 1) : f = n + 1 \/ f \in 1..n
  <2>1. n \in Nat /\ DOMAIN text = 1..n
    BY LogsTypesAre DEF LogsInv
  <2> HIDE DEF n
  <2> QED
    BY <2>1
<1> HIDE DEF v, n
<1>7. LinesAreGiven'
  <2>1. \A f \in 1..(n + 1) : Range(text'[f]) \subseteq DOMAIN written
    BY <1>2, <1>6, EmptyRange DEF LogsInv, LinesAreGiven
  <2> QED
    BY <1>1, <1>2, <2>1, EmptyRange DEF LogsInv, LinesAreGiven, By
<1>8. NothingHasHappened'
  <2> SUFFICES ASSUME ~harmed
               PROVE  /\ \A o \in Writers : ~log'[o].bad /\ current'[o] # 0
                      /\ \A l \in DOMAIN written : IsSomewhere(l)'
    BY <1>2 DEF NothingHasHappened
  <2>1. \A o \in Writers : ~log[o].bad /\ current[o] # 0
    BY DEF LogsInv, NothingHasHappened
  <2>2. \A o \in Writers : ~log'[o].bad /\ current'[o] # 0
    BY <1>1, <1>2, <1>6, <2>1
  <2>3. ASSUME NEW l \in DOMAIN written PROVE IsSomewhere(l)'
    <3>1. IsSomewhere(l)
      BY DEF LogsInv, NothingHasHappened
    <3>2. (\E f \in 1..n : l \in Range(text[f])) \/ l \in Range(log[v].buf)
      BY <1>1, <1>3, <1>6, <3>1, EmptyRange DEF IsSomewhere
    <3>3. \A f \in 1..n : f \in DOMAIN text' /\ text'[f] = text[f]
      BY <1>2, <1>6
    <3> QED
      BY <1>1, <1>2, <3>2, <3>3 DEF IsSomewhere
  <2> QED
    BY <2>2, <2>3
<1>9. FilesAreKept'
  <2> SUFFICES ASSUME ~harmed, ~rotated.met, ~rotated.removed, NEW f \in 1..(n + 1)
               PROVE  f \in Files'
    BY <1>2, <1>5 DEF FilesAreKept
  <2>1. \A o \in Writers : current'[o] # 0 => current'[o] \in Files'
    <3>1. DOMAIN current' = Writers
      BY DEF LogsTypeInv, LogsTypeOK
    <3> QED
      BY <3>1 DEF Files, Range
  <2>2. \A m \in DOMAIN archives' : archives'[m] \in Files'
    BY DEF Files, Range
  <2>3. CASE f = n + 1
    <3>1. current'[w] = n + 1
      BY <1>2
    <3> QED
      BY <1>6, <2>1, <2>3, <3>1
  <2>4. CASE f \in 1..n
    <3>1. f \in Files
      BY <1>6, <2>4 DEF LogsInv, FilesAreKept
    <3>2. CASE f \in Range(archives)
      <4>1. PICK m \in DOMAIN archives : f = archives[m]
        BY <3>2 DEF Range
      <4>2. m # log[w].name
        BY <1>5 DEF LogsInv, NamesAreNew
      <4> QED
        BY <1>5, <2>2, <4>1, <4>2
    <3>3. CASE f \notin Range(archives)
      <4>1. PICK o \in Writers : f = current[o]
        <5>1. DOMAIN current = Writers
          BY DEF LogsInv, LogsTypeInv, LogsTypeOK
        <5> QED
          BY <3>1, <3>3, <5>1 DEF Files, Range
      <4>2. CASE Path(o) = Path(w)
        <5>1. current[o] = archives'[log[w].name]
          BY <1>5, <4>2 DEF LogsInv, LogsTypeInv, FilesAreThere
        <5> QED
          BY <1>5, <2>2, <4>1, <5>1
      <4>3. CASE Path(o) # Path(w)
        <5>1. current'[o] = f /\ f # 0
          BY <1>2, <1>6, <2>4, <4>1, <4>3
        <5> QED
          BY <2>1, <5>1
      <4> QED
        BY <4>2, <4>3
    <3> QED
      BY <3>2, <3>3
  <2> QED
    BY <1>6, <2>3, <2>4
<1>10. ServiceInv'
  <2> SUFFICES ASSUME place = "service"
               PROVE  /\ Ready("other")'
                      /\ ~harmed => MainIsInOrder' /\ LinesAreInOrder' /\ ArchivesAreLast'
    BY <1>2 DEF ServiceInv
  <2>1. Ready("other")'
    BY <1>1, <1>2, <1>3 DEF LogsInv, ServiceInv, Ready, Writers
  <2> QED
    BY <1>3, <2>1, MoveCurrentOrder
<1> QED
  BY <1>3, <1>4, <1>7, <1>8, <1>9, <1>10 DEF LogsInv

LEMMA ArchiveOrder ==
    ASSUME NEW m \in Names, NEW n \in Names, NEW o \in Names
    PROVE  /\ ~ArchiveBefore(m, m)
           /\ ArchiveBefore(m, n) /\ ArchiveBefore(n, o) => ArchiveBefore(m, o)
<1>1. /\ m.time \in Nat /\ n.time \in Nat /\ o.time \in Nat
      /\ m.seq \in Nat /\ n.seq \in Nat /\ o.seq \in Nat
  BY LogsAssumption DEF Names
<1> QED
  BY <1>1 DEF ArchiveBefore

\* An archive that is old has MaxFiles after it: there are more than that.
LEMMA OldIsBeyond ==
    ASSUME LogsTypeInv, OldArchives # {}
    PROVE  Cardinality(DOMAIN archives) > MaxFiles
<1> DEFINE D == DOMAIN archives
<1>1. IsFiniteSet(D) /\ D \subseteq Names /\ MaxFiles \in Nat /\ Cardinality(D) \in Nat
  BY LogsTypesAre, LogsAssumption DEF LogsTypeInv, LogsTypeOK
<1>2. PICK n \in D : Cardinality({m \in D : ArchiveBefore(n, m)}) >= MaxFiles
  BY DEF OldArchives
<1> DEFINE After == {m \in D : ArchiveBefore(n, m)}
<1>3. After \subseteq D \ {n}
  BY <1>1, ArchiveOrder
<1>4. Cardinality(After) >= MaxFiles
  BY <1>2
<1> HIDE DEF D, After
<1>5. IsFiniteSet(D \ {n}) /\ Cardinality(D \ {n}) = Cardinality(D) - 1
  BY <1>1, FS_RemoveElement
<1>6. Cardinality(After) <= Cardinality(D \ {n}) /\ Cardinality(After) \in Nat
  BY <1>3, <1>5, FS_Subset, FS_CardinalityType
<1> QED
  BY <1>1, <1>4, <1>5, <1>6 DEF D

\* What is after an archive that is old and what is old goes with all that is before it.
LEMMA OldComesFirst ==
    ASSUME LogsTypeInv, NEW n \in DOMAIN archives, NEW m \in OldArchives, ArchiveBefore(n, m)
    PROVE  n \in OldArchives
<1> DEFINE D == DOMAIN archives
<1>1. IsFiniteSet(D) /\ D \subseteq Names /\ MaxFiles \in Nat /\ m \in D /\ n \in D
  BY LogsTypesAre, LogsAssumption DEF LogsTypeInv, LogsTypeOK, OldArchives
<1> DEFINE A == {k \in D : ArchiveBefore(n, k)}
<1> DEFINE B == {k \in D : ArchiveBefore(m, k)}
<1>2. Cardinality(B) >= MaxFiles
  BY DEF OldArchives
<1>3. B \subseteq A /\ A \subseteq D
  BY <1>1, ArchiveOrder
<1>4. Cardinality(A) >= MaxFiles
  <2> HIDE DEF A, B, D
  <2>1. IsFiniteSet(A) /\ Cardinality(A) \in Nat
    BY <1>1, <1>3, FS_Subset, FS_CardinalityType
  <2>2. Cardinality(B) <= Cardinality(A) /\ Cardinality(B) \in Nat
    BY <1>3, <2>1, FS_Subset, FS_CardinalityType
  <2> QED
    BY <1>1, <1>2, <2>1, <2>2
<1> QED
  BY <1>4 DEF OldArchives

\* With the main writer rotating once a second, archives have the order of their files.
LEMMA OrderOfFiles ==
    ASSUME LogsTypeInv, MainIsInOrder, IsInjective(rotated.at),
           NEW m \in DOMAIN archives, NEW n \in DOMAIN archives
    PROVE  ArchiveBefore(m, n) <=> archives[m] < archives[n]
<1>1. /\ archives[m] \in DOMAIN rotated.at /\ rotated.at[archives[m]] = m.time
      /\ archives[n] \in DOMAIN rotated.at /\ rotated.at[archives[n]] = n.time
      /\ archives[m] = archives[n] => m = n
      /\ \A j, k \in DOMAIN rotated.at : j < k => rotated.at[j] <= rotated.at[k]
  BY DEF MainIsInOrder
<1>2. \A j, k \in DOMAIN rotated.at : rotated.at[j] = rotated.at[k] => j = k
  BY DEF IsInjective
<1>3. /\ m \in Names /\ n \in Names /\ m.time \in Nat /\ n.time \in Nat
      /\ \A k \in DOMAIN rotated.at : k \in Nat /\ rotated.at[k] \in Nat
  <2>1. m \in Names /\ n \in Names
    BY DEF LogsTypeInv, LogsTypeOK
  <2>2. rotated.at \in Seq(1..MaxTime) /\ MaxTime \in Nat
    BY KeptRecords, LogsAssumption DEF Records
  <2>3. \A k \in DOMAIN rotated.at : k \in Nat /\ rotated.at[k] \in Nat
    <3>1. DOMAIN rotated.at = 1..Len(rotated.at) /\ Len(rotated.at) \in Nat
      BY <2>2, LenProperties
    <3>2. \A k \in 1..Len(rotated.at) : rotated.at[k] \in 1..MaxTime
      BY <2>2, ElementOfSeq
    <3> QED
      BY <2>2, <3>1, <3>2
  <2> QED
    BY <2>1, <2>3, LogsAssumption DEF Names
<1>4. archives[m] < archives[n] => m.time < n.time
  BY <1>1, <1>2, <1>3
<1>5. archives[n] < archives[m] => n.time < m.time
  BY <1>1, <1>2, <1>3
<1>6. archives[m] = archives[n] => ~ArchiveBefore(m, n)
  BY <1>1, <1>3, ArchiveOrder
<1>7. archives[m] \in Nat /\ archives[n] \in Nat
  BY <1>1, <1>3
<1> QED
  BY <1>3, <1>4, <1>5, <1>6, <1>7 DEF ArchiveBefore

LEMMA CleanOldArchivesKeeps ==
    ASSUME LogsInv, LogsTypeInv', NEW w \in Writers, CleanOldArchives(w)
    PROVE  LogsInv'
<1> DEFINE v == Other(w)
<1>1. v \in Writers /\ v # w /\ \A o \in Writers : o = w \/ o = v
  BY TwoWriters
<1>2. /\ LogsTypeInv /\ UNCHANGED <<place, written, text, current, clock, disk, harmed>>
      /\ log[w].pc = "renamed"
      /\ DOMAIN archives' = DOMAIN archives \ OldArchives
      /\ \A n \in DOMAIN archives' : archives'[n] = archives[n]
      /\ rotated'.at = rotated.at /\ rotated'.met = rotated.met
      /\ rotated'.removed = (rotated.removed \/ OldArchives # {})
      /\ log'[v] = log[v] /\ log'[w].buf = log[w].buf /\ log'[w].mem = log[w].mem
      /\ log'[w].bad = log[w].bad /\ log'[w].file = log[w].file /\ log'[w].pc = "ready"
  BY CleanedIs DEF LogsInv
<1>3. log'[w].mem = <<>>
  BY <1>2 DEF LogsInv, MemoryInv, Ready
<1>4. MemoryInv' /\ NamesAreNew'
  BY <1>2, <1>3, MemoryStays, NamesStay DEF LogsInv
<1> HIDE DEF v
<1>5. LinesAreGiven'
  BY <1>1, <1>2 DEF LogsInv, LinesAreGiven, By
<1>6. NothingHasHappened'
  <2>1. \A l : IsSomewhere(l)' <=> IsSomewhere(l)
    BY <1>1, <1>2 DEF IsSomewhere
  <2> QED
    BY <1>1, <1>2, <2>1 DEF LogsInv, NothingHasHappened
<1>7. FilesAreKept'
  <2> SUFFICES ASSUME ~harmed, ~rotated.met, ~rotated.removed, OldArchives = {}
               PROVE  DOMAIN text \subseteq Files'
    BY <1>2 DEF FilesAreKept
  <2>1. Range(archives') = Range(archives)
    BY <1>2 DEF Range
  <2> QED
    BY <1>2, <2>1 DEF LogsInv, FilesAreKept, Files
<1>8. ArchivesAreCounted'
  <2>1. /\ Cardinality(DOMAIN archives) <= Len(rotated.at)
        /\ rotated.removed => Len(rotated.at) > MaxFiles
    BY DEF LogsInv, ArchivesAreCounted
  <2>2. /\ Cardinality(DOMAIN archives) \in Nat /\ MaxFiles \in Nat /\ Len(rotated.at) \in Nat
        /\ Cardinality(DOMAIN archives') \in Nat
        /\ Cardinality(DOMAIN archives') <= Cardinality(DOMAIN archives)
    BY <1>2, LogsTypesAre, RemainingFit, LogsAssumption, KeptRecords, LenProperties DEF Records
  <2>3. OldArchives # {} => Len(rotated.at) > MaxFiles
    <3>1. OldArchives # {} => Cardinality(DOMAIN archives) > MaxFiles
      BY <1>2, OldIsBeyond
    <3> QED
      BY <2>1, <2>2, <3>1
  <2>4. Cardinality(DOMAIN archives') <= Len(rotated.at)
    BY <2>1, <2>2
  <2> QED
    BY <1>2, <2>1, <2>3, <2>4 DEF ArchivesAreCounted
<1>9. ServiceInv'
  <2> SUFFICES ASSUME place = "service"
               PROVE  /\ Ready("other")'
                      /\ ~harmed => MainIsInOrder' /\ LinesAreInOrder' /\ ArchivesAreLast'
    BY <1>2 DEF ServiceInv
  <2>1. /\ w = "main" /\ Ready("other")'
    BY <1>1, <1>2 DEF LogsInv, ServiceInv, Ready, Writers
  <2>2. ASSUME ~harmed PROVE MainIsInOrder' /\ LinesAreInOrder' /\ ArchivesAreLast'
    <3>1. MainIsInOrder /\ LinesAreInOrder /\ ArchivesAreLast
      BY <2>2 DEF LogsInv, ServiceInv
    <3>2. MainIsInOrder'
      BY <1>2, <2>1, <3>1 DEF MainIsInOrder
    <3>3. LinesAreInOrder'
      BY <1>2, <2>1, <3>1 DEF LinesAreInOrder, InOrder, Precedes, By
    <3>4. ArchivesAreLast'
      <4> SUFFICES ASSUME IsInjective(rotated.at), NEW n \in DOMAIN archives',
                          NEW g \in DOMAIN rotated.at, archives'[n] < g
                   PROVE  \E m \in DOMAIN archives' : archives'[m] = g
        BY <1>2 DEF ArchivesAreLast, IsInjective
      <4>1. n \in DOMAIN archives /\ n \notin OldArchives /\ archives[n] < g
        BY <1>2
      <4>2. PICK m \in DOMAIN archives : archives[m] = g
        BY <3>1, <4>1 DEF ArchivesAreLast
      <4>3. ArchiveBefore(n, m)
        BY <1>2, <3>1, <4>1, <4>2, OrderOfFiles
      <4>4. m \notin OldArchives
        BY <1>2, <4>1, <4>3, OldComesFirst
      <4> QED
        BY <1>2, <4>2, <4>4
    <3> QED
      BY <3>2, <3>3, <3>4
  <2> QED
    BY <2>1, <2>2
<1> QED
  BY <1>4, <1>5, <1>6, <1>7, <1>8, <1>9 DEF LogsInv

-----------------------------------------------------------------------------
(* The logs: what follows. *)

LEMMA LogsBegin == LogsInit => LogsInv
<1> SUFFICES ASSUME LogsInit PROVE LogsInv
  OBVIOUS
<1>1. LogsTypeInv
  BY LogsTypeBegins
<1>2. /\ \A w \in Writers : log[w] = Opened(current[w], 0)
      /\ DOMAIN written = {} /\ DOMAIN archives = {} /\ rotated.removed = FALSE
      /\ DOMAIN rotated.at = {} /\ Len(rotated.at) = 0 /\ IsFiniteSet({}) /\ Cardinality({}) = 0
  BY FS_EmptySet DEF LogsInit
<1>3. \A w \in Writers : /\ log[w].buf = <<>> /\ log[w].mem = <<>> /\ log[w].pc = "ready"
                         /\ log[w].bad = FALSE /\ log[w].file = current[w]
  <2>1. \A f : LET x == Opened(f, 0)
               IN  /\ x.buf = <<>> /\ x.mem = <<>> /\ x.pc = "ready"
                   /\ x.bad = FALSE /\ x.file = f
    BY DEF Opened
  <2> QED
    BY <1>2, <2>1
<1>4. \A f \in DOMAIN text : text[f] = <<>> /\ Range(text[f]) = {} /\ DOMAIN text[f] = {}
  <2>1. \A f \in DOMAIN text : text[f] = <<>>
    BY DEF LogsInit
  <2> QED
    BY <2>1, EmptyRange
<1>5. \A w \in Writers : current[w] # 0 /\ current[w] \in Nat
  BY DEF LogsInit
<1>6. LinesAreGiven /\ NothingHasHappened /\ NamesAreNew
  BY <1>2, <1>3, <1>4, <1>5, EmptyRange DEF LinesAreGiven, NothingHasHappened, NamesAreNew
<1>7. FilesAreKept
  <2>1. DOMAIN current = Writers
    BY DEF LogsInit
  <2>2. \A f \in DOMAIN text : \E w \in Writers : current[w] = f
    <3>1. CASE place = "service"
      <4>1. DOMAIN text = {1}
        <5>1. text = << <<>> >>
          BY <3>1 DEF LogsInit
        <5> QED
          BY <5>1
      <4>2. current["main"] = 1 /\ "main" \in Writers
        BY <3>1 DEF LogsInit, Path, Writers
      <4> QED
        BY <4>1, <4>2
    <3>2. CASE place # "service"
      <4>1. DOMAIN text = {1, 2}
        <5>1. text = << <<>>, <<>> >>
          BY <3>2 DEF LogsInit
        <5> QED
          BY <5>1
      <4>2. current["main"] = 1 /\ current["other"] = 2 /\ "main" \in Writers /\ "other" \in Writers
        BY <3>2 DEF LogsInit, Path, Writers
      <4> QED
        BY <4>1, <4>2
    <3> QED
      BY <3>1, <3>2
  <2>3. \A f \in DOMAIN text : f # 0
    BY <1>5, <2>2
  <2> QED
    BY <2>1, <2>2, <2>3 DEF FilesAreKept, Files, Range
<1>8. ArchivesAreCounted
  BY <1>2 DEF ArchivesAreCounted
<1>9. MemoryInv
  BY <1>2, <1>3, EmptyRange DEF MemoryInv, MemoryIsRecent, InOrder, IsEnd
<1>10. ServiceInv
  <2> SUFFICES ASSUME place = "service"
               PROVE  Ready("other") /\ MainIsInOrder /\ LinesAreInOrder /\ ArchivesAreLast
    BY DEF ServiceInv
  <2>1. "main" \in Writers /\ "other" \in Writers
    BY DEF Writers
  <2>2. Len(text) = 1 /\ current["main"] = 1
    BY <2>1 DEF LogsInit, Path
  <2>3. MainIsInOrder
    BY <1>2, <1>3, <2>1, <2>2 DEF MainIsInOrder
  <2>4. LinesAreInOrder
    BY <1>3, <1>4, <2>1, EmptyRange DEF LinesAreInOrder, InOrder, Precedes
  <2>5. ArchivesAreLast
    BY <1>2 DEF ArchivesAreLast
  <2> QED
    BY <1>3, <2>1, <2>3, <2>4, <2>5 DEF Ready
<1> QED
  BY <1>1, <1>6, <1>7, <1>8, <1>9, <1>10 DEF LogsInv

LEMMA LogsNextKeeps == LogsInv /\ LogsNext => LogsInv'
<1> SUFFICES ASSUME LogsInv, LogsNext PROVE LogsInv'
  OBVIOUS
<1>1. LogsTypeInv /\ LogsTypeInv'
  BY LogsTypeNext DEF LogsInv
<1>2. CASE DiskFills \/ DiskFrees \/ Tick
  BY <1>1, <1>2, DiskAndClockAre, SpaceAndTimeKeeps
<1> QED
  BY <1>1, <1>2, LogsCases, WriteLineKeeps, LineFailsKeeps, FlushLoopKeeps, NameArchiveKeeps,
     MoveCurrentKeeps, ReopenFailsKeeps, RenameFailsKeeps, CleanOldArchivesKeeps, RebuildLoggerKeeps

LEMMA LogsUntouched == LogsInv /\ UNCHANGED logsVars => LogsInv'
<1> SUFFICES ASSUME LogsInv, UNCHANGED logsVars PROVE LogsInv'
  OBVIOUS
<1>1. LogsTypeInv'
  BY LogsTypeUntouched DEF LogsInv
<1>2. clock <= clock'
  <2>1. clock \in Nat /\ clock' = clock
    BY KeptRecords, LogsAssumption DEF LogsInv, logsVars
  <2> QED
    BY <2>1
<1> QED
  BY <1>1, <1>2, SpaceAndTimeKeeps DEF logsVars

\* What a service shows is the end of what it wrote: a line is in a file that is kept, or
\* that is older than all that are.
LEMMA ServiceShowsTheEnd ==
    ASSUME LogsInv, ~harmed, place = "service", IsInjective(rotated.at),
           NEW l \in DOMAIN written, NEW m \in DOMAIN written,
           l < m, By("main", l), By("main", m),
           \/ \E n \in DOMAIN archives : l \in Range(text[archives[n]])
           \/ l \in Range(text[current["main"]])
           \/ l \in Range(log["main"].buf)
    PROVE  \/ \E n \in DOMAIN archives : m \in Range(text[archives[n]])
           \/ m \in Range(text[current["main"]])
           \/ m \in Range(log["main"].buf)
<1>1. /\ LogsTypeInv /\ MainIsInOrder /\ LinesAreInOrder /\ ArchivesAreLast
      /\ LinesAreGiven /\ IsSomewhere(m)
  BY DEF LogsInv, ServiceInv, NothingHasHappened
<1>2. l \in Nat /\ m \in Nat /\ Len(text) \in Nat /\ DOMAIN text = 1..Len(text)
  BY <1>1, LogsTypesAre
<1>3. current["main"] = Len(text) /\ DOMAIN rotated.at = 1..(Len(text) - 1)
  <2>1. rotated.at \in Seq(1..MaxTime)
    BY <1>1, KeptRecords DEF Records
  <2> QED
    BY <1>1, <2>1, LenProperties DEF MainIsInOrder
<1>4. m \in Range(log["other"].buf) => FALSE
  BY <1>1 DEF LinesAreGiven, By, Writers
<1>5. ASSUME NEW g \in DOMAIN text, m \in Range(text[g]), g # Len(text)
      PROVE  \E n \in DOMAIN archives : m \in Range(text[archives[n]])
  <2>1. g < Len(text) /\ g \in DOMAIN rotated.at
    BY <1>2, <1>3, <1>5
  <2>2. \A f \in DOMAIN text : g < f => l \notin Range(text[f])
    <3> SUFFICES ASSUME NEW f \in DOMAIN text, g < f, l \in Range(text[f]) PROVE FALSE
      OBVIOUS
    <3>1. Precedes("main", text[g], text[f])
      BY <1>1 DEF LinesAreInOrder
    <3>2. m < l
      BY <1>5, <3>1 DEF Precedes
    <3> QED
      BY <1>2, <3>2
  <2>3. l \notin Range(log["main"].buf)
    <3> SUFFICES ASSUME l \in Range(log["main"].buf) PROVE FALSE
      OBVIOUS
    <3>1. Precedes("main", text[g], log["main"].buf)
      BY <1>1 DEF LinesAreInOrder
    <3>2. m < l
      BY <1>5, <3>1 DEF Precedes
    <3> QED
      BY <1>2, <3>2
  <2>4. PICK n \in DOMAIN archives : l \in Range(text[archives[n]])
    <3>1. Len(text) \in DOMAIN text
      BY <1>2, <2>1
    <3> QED
      BY <1>3, <2>1, <2>2, <2>3, <3>1
  <2>5. archives[n] \in DOMAIN text
    BY <1>1 DEF LogsTypeInv, LogsTypeOK, Range
  <2>6. archives[n] = g \/ archives[n] < g
    BY <1>2, <2>2, <2>4, <2>5
  <2> QED
    BY <1>1, <1>5, <2>1, <2>6 DEF ArchivesAreLast
<1> QED
  BY <1>1, <1>3, <1>4, <1>5 DEF IsSomewhere, Writers

LEMMA ServiceShows ==
    ASSUME LogsInv, ~harmed, place = "service", IsInjective(rotated.at)
    PROVE  ServiceIsShown
<1>1. LogsTypeInv /\ MainIsInOrder /\ LinesAreInOrder /\ LinesAreGiven
  BY DEF LogsInv, ServiceInv
<1>2. Len(text) \in Nat /\ DOMAIN text = 1..Len(text) /\ text # <<>>
  BY <1>1, LogsTypesAre DEF LogsTypeInv, LinesAreCounted
<1>3. current["main"] = Len(text) /\ Len(text) \in DOMAIN text
  <2>1. Len(text) # 0
    BY <1>1, <1>2, EmptySeq DEF LogsTypeInv, LogsTypeOK
  <2>2. current["main"] = Len(text)
    BY <1>1 DEF MainIsInOrder
  <2>3. Len(text) \in 1..Len(text)
    BY <1>2, <2>1
  <2> QED
    BY <1>2, <2>2, <2>3
<1>4. \A n \in DOMAIN archives : archives[n] \in DOMAIN text /\ archives[n] < Len(text)
  <2> TAKE n \in DOMAIN archives
  <2>1. archives[n] \in DOMAIN rotated.at /\ Len(rotated.at) = Len(text) - 1
    BY <1>1 DEF MainIsInOrder
  <2>2. rotated.at \in Seq(1..MaxTime)
    BY <1>1, KeptRecords DEF Records
  <2>3. DOMAIN rotated.at = 1..(Len(text) - 1)
    BY <2>1, <2>2, LenProperties
  <2>4. archives[n] \in 1..Len(text) /\ archives[n] < Len(text)
    <3>1. \A k \in Nat : \A a \in 1..(k - 1) : a \in 1..k /\ a < k
      OBVIOUS
    <3> QED
      BY <1>2, <2>1, <2>3, <3>1
  <2> QED
    BY <1>2, <2>4
<1>5. \A n \in DOMAIN archives :
        /\ InOrder("main", text[archives[n]])
        /\ Precedes("main", text[archives[n]], text[current["main"]])
        /\ Precedes("main", text[archives[n]], log["main"].buf)
  BY <1>1, <1>3, <1>4 DEF LinesAreInOrder
<1>6. \A m, n \in DOMAIN archives :
        ArchiveBefore(m, n) => Precedes("main", text[archives[m]], text[archives[n]])
  <2> SUFFICES ASSUME NEW m \in DOMAIN archives, NEW n \in DOMAIN archives, ArchiveBefore(m, n)
               PROVE  Precedes("main", text[archives[m]], text[archives[n]])
    OBVIOUS
  <2>1. archives[m] < archives[n]
    BY <1>1, OrderOfFiles
  <2> QED
    BY <1>1, <1>4, <2>1 DEF LinesAreInOrder
<1>7. /\ InOrder("main", text[current["main"]]) /\ InOrder("main", log["main"].buf)
      /\ Precedes("main", text[current["main"]], log["main"].buf)
  BY <1>1, <1>3 DEF LinesAreInOrder
<1> DEFINE archived == UNION {Range(text[archives[n]]) : n \in DOMAIN archives}
<1> DEFINE shown == archived \cup Range(text[current["main"]]) \cup Range(log["main"].buf)
<1>8. IsEnd("main", shown)
  <2>1. \A l : l \in shown <=> \/ \E n \in DOMAIN archives : l \in Range(text[archives[n]])
                               \/ l \in Range(text[current["main"]])
                               \/ l \in Range(log["main"].buf)
    <3>1. \A l : l \in archived <=> \E n \in DOMAIN archives : l \in Range(text[archives[n]])
      BY Zenon
    <3> HIDE DEF archived
    <3> QED
      BY <3>1
  <2>2. \A l \in shown : l \in DOMAIN written
    <3>1. \A f \in DOMAIN text : \A l \in Range(text[f]) : l \in DOMAIN written
      BY <1>1 DEF LinesAreGiven
    <3>2. \A l \in Range(log["main"].buf) : l \in DOMAIN written
      BY <1>1 DEF LinesAreGiven, Writers
    <3> HIDE DEF shown
    <3> QED
      BY <1>3, <1>4, <2>1, <3>1, <3>2
  <2> HIDE DEF shown
  <2> SUFFICES ASSUME NEW l \in shown, NEW m \in DOMAIN written, l < m,
                      By("main", l), By("main", m)
               PROVE  m \in shown
    BY DEF IsEnd
  <2>3. l \in DOMAIN written
    BY <2>2
  <2> QED
    BY <2>1, <2>3, ServiceShowsTheEnd
<1> QED
  BY <1>5, <1>6, <1>7, <1>8 DEF ServiceIsShown

LEMMA NoLineIsMissing ==
    ASSUME LogsInv, ~harmed, ~rotated.met, ~rotated.removed
    PROVE  Kept = DOMAIN written
<1>1. LogsTypeInv /\ LinesAreGiven /\ DOMAIN text \subseteq Files
      /\ \A l \in DOMAIN written : IsSomewhere(l)
  BY DEF LogsInv, FilesAreKept, NothingHasHappened
<1>2. Files \subseteq DOMAIN text
  <2>1. Range(archives) \subseteq DOMAIN text
    BY <1>1 DEF LogsTypeInv, LogsTypeOK
  <2>2. Range(current) \ {0} \subseteq DOMAIN text
    BY <1>1, LogsTypesAre DEF Range
  <2> QED
    BY <2>1, <2>2 DEF Files
<1>3. \A l : l \in Kept <=> \/ \E f \in Files : l \in Range(text[f])
                            \/ \E w \in Writers : l \in Range(log[w].buf)
  <2> DEFINE filed == UNION {Range(text[f]) : f \in Files}
  <2> DEFINE buffered == UNION {Range(log[w].buf) : w \in Writers}
  <2>1. Kept = filed \cup buffered
    BY DEF Kept
  <2>2. \A l : l \in filed <=> \E f \in Files : l \in Range(text[f])
    OBVIOUS
  <2>3. \A l : l \in buffered <=> \E w \in Writers : l \in Range(log[w].buf)
    OBVIOUS
  <2> HIDE DEF filed, buffered
  <2> QED
    BY <2>1, <2>2, <2>3
<1>4. \A l \in Kept : l \in DOMAIN written
  BY <1>1, <1>2, <1>3 DEF LinesAreGiven
<1>5. \A l \in DOMAIN written : l \in Kept
  BY <1>1, <1>3 DEF IsSomewhere
<1> QED
  BY <1>4, <1>5

LEMMA LogsAreThenComplete == LogsInv => LogsAreComplete
<1> SUFFICES ASSUME LogsInv PROVE LogsAreComplete
  OBVIOUS
<1>1. rotated.removed => Len(rotated.at) > MaxFiles
  BY DEF LogsInv, ArchivesAreCounted
<1>2. \A w \in Writers : MemoryIsRecent(w)
  BY DEF LogsInv, MemoryInv
<1> QED
  BY <1>1, <1>2, NoLineIsMissing, ServiceShows DEF LogsAreComplete

LEMMA SpecLogsInv == Spec => []LogsInv
<1>1. Init => LogsInv
  BY LogsBegin DEF Init
<1>2. LogsInv /\ [Next]_vars => LogsInv'
  <2> SUFFICES ASSUME LogsInv, [Next]_vars PROVE LogsInv'
    OBVIOUS
  <2>1. CASE LogsNext
    BY <2>1, LogsNextKeeps
  <2>2. CASE UNCHANGED logsVars
    BY <2>2, LogsUntouched
  <2> QED
    BY <2>1, <2>2 DEF Next, vars
<1> QED
  BY <1>1, <1>2, PTL DEF Spec

(***************************************************************************)
(* The lines of a log are in the archives, the file and the buffers until  *)
(* more than MaxFiles archives let the oldest go, for any number of lines, *)
(* archives and failures, and any sizes of the buffer, the memory and the  *)
(* files: whatever a full disk, a rename that fails (handleRenameFailure)  *)
(* or a file that does not open again does to them, what is then still     *)
(* claimed holds. Files of a service hold its lines in the order they were *)
(* written, and the memory of a failed writer holds the last of its lines  *)
(* (Write, rotate, resolveConflict, cleanOldArchives, appendToBuffer).     *)
(***************************************************************************)
THEOREM LogsAreKept == Spec => []LogsAreComplete
BY SpecLogsInv, LogsAreThenComplete, PTL

-----------------------------------------------------------------------------
PartIsOne == part \in {"directory", "file", "log"}

LEMMA SpecPart == Spec => []PartIsOne
<1>1. Init => PartIsOne
  BY DEF Init, PartIsOne
<1>2. PartIsOne /\ [Next]_vars => PartIsOne'
  BY DEF Next, vars, PartIsOne
<1> QED
  BY <1>1, <1>2, PTL DEF Spec

(***************************************************************************)
(* What is kept on disk has its types: a directory and its backups, the    *)
(* marker files of an import, the deletion that waits for a start (package *)
(* extension); files and the numbers and sizes of their history (package   *)
(* watch); log files, archives, buffers and memory within their bounds,    *)
(* and never more archives than MaxFiles but for the one a rotation is     *)
(* about to remove and one for each call that failed (package logging).    *)
(***************************************************************************)
THEOREM TypeCorrect == Spec => []TypeOK
<1>1. ImportsInv => ImportsTypeOK
  BY DEF ImportsInv
<1>2. HistoryInv => FileHistoryTypeOK
  BY DEF HistoryInv, FileTypeInv
<1>3. LogsInv => LogsTypeOK
  BY DEF LogsInv, LogsTypeInv
<1>4. PartIsOne /\ ImportsTypeOK /\ FileHistoryTypeOK /\ LogsTypeOK => TypeOK
  BY DEF TypeOK, PartIsOne
<1> QED
  BY SpecPart, SpecImportsInv, SpecHistoryInv, SpecLogsInv, <1>1, <1>2, <1>3, <1>4, PTL
=============================================================================
