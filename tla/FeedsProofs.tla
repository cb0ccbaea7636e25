------------------------------ MODULE FeedsProofs ------------------------------
(***************************************************************************)
(* What TLAPS proves of the two feeds: for any number of adders, readers   *)
(* and clock readings, any capacity of the ring, of a page and of the      *)
(* queue, and however often supd is stopped or crashes.                    *)
(***************************************************************************)
EXTENDS Feeds, TLAPS, WellFoundedInduction, FiniteSetTheorems, SequenceTheorems

-----------------------------------------------------------------------------
(* Facts about the operators. *)

\* Every set of natural numbers that is not empty has a least element: the form of
\* induction that needs no operator as a parameter.
LEMMA LeastNumber ==
    ASSUME NEW T \in SUBSET Nat, T # {}
    PROVE  \E x \in T : \A y \in T : x <= y
<1> DEFINE Below == {0..m : m \in T}
<1>1. \A m \in Nat : IsFiniteSet(0..m) /\ 0..m \subseteq Nat
  BY FS_Interval
<1>2. Below \subseteq FiniteSubsetsOf(Nat) /\ Below # {}
  BY <1>1 DEF FiniteSubsetsOf
<1>3. \E X \in Below : \A Y \in Below : ~ (<<Y, X>> \in StrictSubsetOrdering(Nat))
  <2> HIDE DEF Below
  <2> QED
    BY <1>2, FS_StrictSubsetOrderingWellFounded, WFMin
<1>4. PICK x \in T : \A Y \in Below : ~ (<<Y, 0..x>> \in StrictSubsetOrdering(Nat))
  BY <1>3
<1>5. \A y \in T : y < x => <<0..y, 0..x>> \in StrictSubsetOrdering(Nat)
  BY <1>1 DEF StrictSubsetOrdering
<1>6. \A y \in T : ~(y < x)
  BY <1>4, <1>5
<1> QED
  BY <1>6

\* The loop of Since does what its body says: Newer is defined for every index.
LEMMA NewerUnfolds ==
    ASSUME NEW s, NEW n, Len(s) \in Nat
    PROVE  Newer(s, n) =
             [k \in 0..Len(s) |->
                IF k = 0 THEN <<>>
                ELSE IF s[k] > n THEN Append(Newer(s, n)[k - 1], s[k]) ELSE Newer(s, n)[k - 1]]
<1> DEFINE Body(f, k) ==
      IF k = 0 THEN <<>> ELSE IF s[k] > n THEN Append(f[k - 1], s[k]) ELSE f[k - 1]
<1> DEFINE Bad == {m \in Nat : ~\E f : f = [k \in 0..m |-> Body(f, k)]}
<1>1. Bad = {}
  <2> SUFFICES ASSUME Bad # {} PROVE FALSE
    OBVIOUS
  <2>1. PICK m \in Bad : \A y \in Bad : m <= y
    BY LeastNumber
  <2>2. m # 0
    <3> DEFINE f == [k \in 0..0 |-> <<>>]
    <3>1. f = [k \in 0..0 |-> Body(f, k)]
      OBVIOUS
    <3> QED
      BY <3>1
  <2>3. m \in Nat /\ m - 1 \in Nat /\ m - 1 \notin Bad
    <3> HIDE DEF Bad
    <3>1. m \in Nat
      BY DEF Bad
    <3> QED
      BY <2>1, <2>2, <3>1
  <2>4. PICK f : f = [k \in 0..(m - 1) |-> Body(f, k)]
    BY <2>3
  <2> DEFINE g == [k \in 0..m |-> IF k < m THEN f[k] ELSE Body(f, m)]
  <2>5. g = [k \in 0..m |-> Body(g, k)]
    <3> SUFFICES ASSUME NEW k \in 0..m PROVE g[k] = Body(g, k)
      OBVIOUS
    <3>1. CASE k = m
      BY <3>1, <2>2
    <3>2. CASE k < m
      <4>1. k \in 0..(m - 1) /\ g[k] = f[k]
        BY <3>2
      <4>2. g[k] = Body(f, k)
        BY <4>1, <2>4
      <4>3. k # 0 => g[k - 1] = f[k - 1]
        BY <3>2
      <4> QED
        BY <4>2, <4>3
    <3> QED
      BY <3>1, <3>2
  <2> QED
    BY <2>5, <2>1
<1>2. \E f : f = [k \in 0..Len(s) |-> Body(f, k)]
  BY <1>1
<1> QED
  BY <1>2 DEF Newer

\* After k events, the loop has collected the newer ones among them, in their order: of
\* what it has collected, each comes from a place in the ring before which every newer
\* event has been collected too, and before it.
Collected(s, n, k) ==
    LET all == Newer(s, n)[k]
    IN  /\ \A p \in 1..Len(all) :
              \E i \in 1..k : /\ s[i] = all[p] /\ s[i] > n
                              /\ \A j \in 1..i : s[j] > n => \E q \in 1..p : all[q] = s[j]
        /\ \A j \in 1..k : s[j] > n => \E q \in 1..Len(all) : all[q] = s[j]

LEMMA NewerCollects ==
    ASSUME NEW S \in SUBSET Nat, NEW s \in Seq(S), NEW n \in Nat, NEW k \in 0..Len(s)
    PROVE  Newer(s, n)[k] \in Seq(S) /\ Collected(s, n, k)
<1> DEFINE all == Newer(s, n)
           Good(m) == all[m] \in Seq(S) /\ Collected(s, n, m)
           Bad == {m \in 0..Len(s) : ~Good(m)}
<1>0. all = [m \in 0..Len(s) |->
               IF m = 0 THEN <<>>
               ELSE IF s[m] > n THEN Append(all[m - 1], s[m]) ELSE all[m - 1]]
  <2>1. Len(s) \in Nat
    OBVIOUS
  <2> QED
    BY <2>1, NewerUnfolds
<1> HIDE DEF all
<1>1. all[0] = <<>>
  BY <1>0
<1>2. ASSUME NEW m \in 1..Len(s)
      PROVE  all[m] = IF s[m] > n THEN Append(all[m - 1], s[m]) ELSE all[m - 1]
  <2>1. m \in 0..Len(s) /\ m # 0
    OBVIOUS
  <2> QED
    BY <1>0, <2>1, Zenon
<1>3. Good(0)
  BY <1>1 DEF Collected, all
<1>4. ASSUME NEW m \in 1..Len(s), Good(m - 1) PROVE Good(m)
  <2>1. CASE ~(s[m] > n)
    <3>1. all[m] = all[m - 1]
      BY <1>2, <2>1
    <3>2. \A j \in 1..m : s[j] > n => j \in 1..(m - 1)
      BY <2>1
    <3>3. \A j \in 1..(m - 1) : j \in 1..m /\ \A i \in 1..j : i \in 1..(m - 1)
      OBVIOUS
    <3>4. all[m - 1] \in Seq(S) /\ Collected(s, n, m - 1)
      BY <1>4
    <3>5. Collected(s, n, m)
      BY <3>1, <3>2, <3>3, <3>4 DEF Collected, all
    <3> QED
      BY <3>1, <3>4, <3>5
  <2>2. CASE s[m] > n
    <3>1. s[m] \in S /\ all[m - 1] \in Seq(S) /\ all[m] = Append(all[m - 1], s[m])
      <4>1. all[m - 1] \in Seq(S)
        BY <1>4
      <4>2. all[m] = Append(all[m - 1], s[m])
        BY <1>2, <2>2, Zenon
      <4> QED
        BY <4>1, <4>2
    <3> DEFINE old == all[m - 1]
               new == all[m]
    <3>2. /\ new \in Seq(S) /\ Len(new) = Len(old) + 1 /\ new[Len(old) + 1] = s[m]
          /\ \A q \in 1..Len(old) : new[q] = old[q]
      BY <3>1
    <3>3. Collected(s, n, m - 1)
      BY <1>4
    <3> HIDE DEF old, new
    <3>4. \A j \in 1..m : s[j] > n => \E q \in 1..Len(new) : new[q] = s[j]
      <4>1. Len(old) \in Nat /\ \A j \in 1..(m - 1) : s[j] > n => \E q \in 1..Len(old) : old[q] = s[j]
        BY <3>1, <3>3 DEF Collected, all, old
      <4>2. \A j \in 1..m : j = m \/ j \in 1..(m - 1)
        OBVIOUS
      <4> QED
        BY <3>2, <4>1, <4>2
    <3>5. \A p \in 1..Len(new) :
             \E i \in 1..m : /\ s[i] = new[p] /\ s[i] > n
                             /\ \A j \in 1..i : s[j] > n => \E q \in 1..p : new[q] = s[j]
      <4> SUFFICES ASSUME NEW p \in 1..Len(new)
                   PROVE  \E i \in 1..m : /\ s[i] = new[p] /\ s[i] > n
                                          /\ \A j \in 1..i : s[j] > n => \E q \in 1..p : new[q] = s[j]
        OBVIOUS
      <4>1. CASE p = Len(old) + 1
        BY <2>2, <3>1, <3>2, <3>4, <4>1
      <4>2. CASE p # Len(old) + 1
        <5>1. old \in Seq(S) /\ p \in 1..Len(old)
          BY <3>1, <3>2, <4>2 DEF old
        <5>2. PICK i \in 1..(m - 1) : /\ s[i] = old[p] /\ s[i] > n
                                      /\ \A j \in 1..i : s[j] > n => \E q \in 1..p : old[q] = s[j]
          BY <3>3, <5>1 DEF Collected, all, old
        <5>3. i \in 1..m /\ \A q \in 1..p : new[q] = old[q]
          <6>1. Len(old) \in Nat
            BY <5>1
          <6>2. p \in Nat /\ p <= Len(old)
            BY <5>1, <6>1
          <6>3. \A q \in 1..p : q \in 1..Len(old)
            BY <6>1, <6>2
          <6>4. i \in 1..m
            OBVIOUS
          <6> QED
            BY <3>2, <6>3, <6>4
        <5> QED
          BY <5>1, <5>2, <5>3
      <4> QED
        BY <4>1, <4>2
    <3> QED
      BY <3>2, <3>4, <3>5 DEF Collected, all, new
  <2> QED
    BY <2>1, <2>2
<1> HIDE DEF Good
<1>5. Bad = {}
  <2> SUFFICES ASSUME Bad # {} PROVE FALSE
    OBVIOUS
  <2>1. PICK m \in Bad : \A y \in Bad : m <= y
    <3>1. Bad \in SUBSET Nat
      OBVIOUS
    <3> HIDE DEF Bad
    <3> QED
      BY <3>1, LeastNumber
  <2>2. m # 0
    BY <1>3
  <2>3. m \in 1..Len(s) /\ ~Good(m) /\ Good(m - 1)
    BY <2>1, <2>2
  <2> QED
    BY <1>4, <2>3
<1> QED
  BY <1>5 DEF Good, all

-----------------------------------------------------------------------------
(* The events. *)

\* The stamps differ, and none is that of the newest event before it is in the ring.
StampsInv ==
    /\ newest \in 0..clock
    /\ \A a \in Adders : adding[a].stamp <= clock
    /\ \A a, b \in Adders : a # b /\ adding[a].stamp = adding[b].stamp => adding[a].stamp = 0
    /\ \A a \in Adders : adding[a].stamp > 0 /\ ~adding[a].in => adding[a].stamp # newest

\* Where the ring is out of order, the later event is known to have been overtaken.
RingInv ==
    /\ \A i \in 1..Len(ring) : ring[i] <= newest
    /\ \A i, j \in 1..Len(ring) : i < j /\ ring[j] < ring[i] => ring[j] \in overtaken

\* A reader that has gone past an event which is not in the ring yet is excused: a
\* newer one has been in, or it came while an empty answer was under way.
SinceInv ==
    /\ \A r \in Readers : since[r] <= clock
    /\ \A r \in Readers, a \in Adders :
          adding[a].stamp > 0 /\ ~adding[a].in /\ adding[a].stamp <= since[r] =>
              adding[a].stamp \in raced[r] \/ adding[a].stamp < newest

\* And so it will be when the answer that is under way has been given.
Covered(r) == ToSet(page[r]) \cup got[r] \cup overtaken \cup raced[r]

PageInv ==
    /\ \A r \in Readers : \A k \in 1..Len(page[r]) : page[r][k] <= newest
    /\ \A r \in Readers : poll[r] = "answer" /\ page[r] # <<>> =>
          \A i \in 1..Len(ring) : ring[i] <= Last(page[r]) => ring[i] \in Covered(r)

EventInv == EventTypeOK /\ StampsInv /\ RingInv /\ SinceInv /\ PageInv /\ NothingIsSkipped

LEMMA SetOfSeq ==
    ASSUME NEW S, NEW s \in Seq(S)
    PROVE  ToSet(s) = {s[i] : i \in 1..Len(s)} /\ ToSet(s) \subseteq S
BY DEF ToSet

\* A page is from the ring, and before its last event no newer one has been left out.
LEMMA PageOfSince ==
    ASSUME EventTypeOK, NEW n \in Nat
    PROVE  /\ Since(n) \in Seq(1..MaxClock) /\ Len(Since(n)) <= PageLimit
           /\ \A k \in 1..Len(Since(n)) : \E i \in 1..Len(ring) : Since(n)[k] = ring[i]
           /\ Since(n) # <<>> =>
                \E i \in 1..Len(ring) :
                   /\ ring[i] = Last(Since(n))
                   /\ \A j \in 1..i : ring[j] > n => ring[j] \in ToSet(Since(n))
<1> DEFINE newer == Newer(ring, n)[Len(ring)]
           m == IF Len(newer) < PageLimit THEN Len(newer) ELSE PageLimit
           p == SubSeq(newer, 1, m)
<1>1. ring \in Seq(1..MaxClock) /\ Len(ring) \in Nat /\ Len(ring) \in 0..Len(ring)
  BY DEF EventTypeOK
<1>2. newer \in Seq(1..MaxClock) /\ Collected(ring, n, Len(ring))
  <2>1. 1..MaxClock \in SUBSET Nat
    BY RingAssumption
  <2> QED
    BY <1>1, <2>1, NewerCollects
<1>3. \A q \in 1..Len(newer) :
         \E i \in 1..Len(ring) :
            ring[i] = newer[q] /\ \A j \in 1..i : ring[j] > n => \E o \in 1..q : newer[o] = ring[j]
  BY <1>2 DEF Collected
<1> HIDE DEF newer
<1>4. m \in Nat /\ m <= Len(newer) /\ m <= PageLimit
  BY <1>2, RingAssumption
<1> HIDE DEF m
<1>5. p \in Seq(1..MaxClock) /\ Len(p) = m /\ \A k \in 1..m : p[k] = newer[k]
  <2>1. \A i \in 1..m : newer[i] \in 1..MaxClock
    <3> SUFFICES ASSUME NEW i \in 1..m PROVE newer[i] \in 1..MaxClock
      OBVIOUS
    <3>1. i \in 1..Len(newer)
      BY <1>2, <1>4
    <3> QED
      BY <1>2, <3>1, ElementOfSeq
  <2>2. /\ p \in Seq(1..MaxClock) /\ Len(p) = IF 1 <= m THEN m - 1 + 1 ELSE 0
        /\ \A k \in 1..(m - 1 + 1) : p[k] = newer[1 + k - 1]
    BY <1>4, <2>1, SubSeqProperties
  <2> QED
    BY <1>4, <2>2
<1> HIDE DEF p
<1>6. \A k \in 1..Len(p) : \E i \in 1..Len(ring) : p[k] = ring[i]
  <2> SUFFICES ASSUME NEW k \in 1..Len(p) PROVE \E i \in 1..Len(ring) : p[k] = ring[i]
    OBVIOUS
  <2>1. k \in 1..Len(newer) /\ p[k] = newer[k]
    BY <1>2, <1>4, <1>5
  <2> QED
    BY <1>3, <2>1
<1>7. ASSUME p # <<>>
      PROVE  \E i \in 1..Len(ring) :
                ring[i] = Last(p) /\ \A j \in 1..i : ring[j] > n => ring[j] \in ToSet(p)
  <2>1. m \in 1..Len(newer) /\ Last(p) = newer[m]
    BY <1>4, <1>5, <1>7 DEF Last
  <2>2. \A o \in 1..m : newer[o] \in ToSet(p)
    BY <1>5, SetOfSeq
  <2> QED
    BY <1>3, <2>1, <2>2
<1> QED
  BY <1>4, <1>5, <1>6, <1>7 DEF Since, newer, m, p

LEMMA EventInitInv == EventInit => EventInv
BY RingAssumption
DEF EventInit, EventInv, EventTypeOK, StampsInv, RingInv, SinceInv, PageInv, NothingIsSkipped,
    NotAdding, ToSet

LEMMA StampsStep ==
    ASSUME EventInv, NEW a \in Adders, AddStamps(a)
    PROVE  EventInv'
<1> USE DEF AddStamps, pollVars, eventHist
<1>1. EventTypeOK'
  BY RingAssumption DEF EventInv, EventTypeOK
<1>2. clock \in Nat /\ newest \in 0..clock /\ clock' = clock + 1 /\ newest' = newest
  BY RingAssumption DEF EventInv, EventTypeOK, StampsInv
<1>3. /\ adding'[a] = [stamp |-> clock + 1, in |-> FALSE]
      /\ \A b \in Adders \ {a} : adding'[b] = adding[b]
      /\ \A b \in Adders : adding[b].stamp \in 0..clock
  BY RingAssumption DEF EventInv, EventTypeOK, StampsInv
<1>4. StampsInv'
  BY <1>2, <1>3 DEF EventInv, StampsInv
<1>5. SinceInv'
  BY <1>2, <1>3 DEF EventInv, SinceInv, EventTypeOK
<1>6. RingInv' /\ PageInv' /\ NothingIsSkipped'
  BY DEF EventInv, RingInv, PageInv, NothingIsSkipped, Covered
<1> QED
  BY <1>1, <1>4, <1>5, <1>6 DEF EventInv

\* What Add does to the ring: the event goes behind the others, of which at most the
\* oldest is left out.
LEMMA RingAfterAdd ==
    ASSUME NEW S, NEW old \in Seq(S), NEW cap \in Nat \ {0}, Len(old) <= cap, NEW e \in S,
           NEW new, new = Append(IF Len(old) = cap THEN Tail(old) ELSE old, e)
    PROVE  /\ new \in Seq(S) /\ Len(new) \in 1..cap /\ new[Len(new)] = e
           /\ \E d \in {0, 1} : \A i \in 1..(Len(new) - 1) :
                i + d \in 1..Len(old) /\ new[i] = old[i + d]
<1>1. CASE Len(old) = cap
  <2> DEFINE t == Tail(old)
  <2>1. t \in Seq(S) /\ Len(t) = Len(old) - 1 /\ \A i \in 1..(Len(old) - 1) : t[i] = old[i + 1]
    <3>1. old # <<>>
      BY <1>1
    <3> QED
      BY <3>1, HeadTailProperties
  <2>2. new = Append(t, e)
    BY <1>1
  <2>3. Len(old) \in Nat /\ Len(t) \in Nat
    BY <2>1, LenProperties
  <2> HIDE DEF t
  <2>4. new \in Seq(S) /\ Len(new) = Len(t) + 1 /\ new[Len(t) + 1] = e
        /\ \A i \in 1..Len(t) : new[i] = t[i]
    BY <2>1, <2>2, AppendProperties
  <2>5. \A i \in 1..(Len(new) - 1) : i + 1 \in 1..Len(old) /\ new[i] = old[i + 1]
    <3> SUFFICES ASSUME NEW i \in 1..(Len(new) - 1)
                 PROVE  i + 1 \in 1..Len(old) /\ new[i] = old[i + 1]
      OBVIOUS
    <3>1. i \in 1..(Len(old) - 1) /\ i \in 1..Len(t)
      BY <2>1, <2>3, <2>4
    <3>2. new[i] = t[i] /\ t[i] = old[i + 1]
      BY <2>1, <2>4, <3>1
    <3> QED
      BY <2>3, <3>1, <3>2
  <2> QED
    BY <1>1, <2>1, <2>3, <2>4, <2>5
<1>2. CASE Len(old) # cap
  <2>1. /\ new \in Seq(S) /\ Len(new) = Len(old) + 1 /\ new[Len(old) + 1] = e
        /\ \A i \in 1..Len(old) : new[i] = old[i]
    BY <1>2, AppendProperties
  <2>2. \A i \in 1..(Len(new) - 1) : i + 0 \in 1..Len(old) /\ new[i] = old[i + 0]
    BY <2>1
  <2> QED
    BY <1>2, <2>1, <2>2
<1> QED
  BY <1>1, <1>2

LEMMA InsertsStep ==
    ASSUME EventInv, NEW a \in Adders, AddInserts(a)
    PROVE  EventInv'
<1> DEFINE e == adding[a].stamp
<1>1. e \in 1..MaxClock /\ ~adding[a].in /\ e \in 1..clock /\ e # newest
  BY RingAssumption DEF AddInserts, EventInv, EventTypeOK, StampsInv
<1>2. /\ ring' \in Seq(1..MaxClock) /\ Len(ring') \in 1..RingCap /\ ring'[Len(ring')] = e
      /\ \E d \in {0, 1} : \A i \in 1..(Len(ring') - 1) :
           i + d \in 1..Len(ring) /\ ring'[i] = ring[i + d]
  <2>1. /\ ring \in Seq(1..MaxClock) /\ RingCap \in Nat \ {0} /\ Len(ring) <= RingCap
        /\ e \in 1..MaxClock
        /\ ring' = Append(IF Len(ring) = RingCap THEN Tail(ring) ELSE ring, e)
    BY <1>1, RingAssumption DEF AddInserts, EventInv, EventTypeOK
  <2> HIDE DEF e
  <2> DEFINE S == 1..MaxClock
             new == ring'
  <2>2. ring \in Seq(S) /\ e \in S /\ new = Append(IF Len(ring) = RingCap THEN Tail(ring) ELSE ring, e)
    BY <2>1
  <2> HIDE DEF S, new
  <2>3. /\ new \in Seq(S) /\ Len(new) \in 1..RingCap /\ new[Len(new)] = e
        /\ \E d \in {0, 1} : \A i \in 1..(Len(new) - 1) :
             i + d \in 1..Len(ring) /\ new[i] = ring[i + d]
    BY <2>1, <2>2, RingAfterAdd
  <2> QED
    BY <2>3 DEF S, new
<1>3. PICK d \in {0, 1} : \A i \in 1..(Len(ring') - 1) :
           i + d \in 1..Len(ring) /\ ring'[i] = ring[i + d]
  BY <1>2
<1>4. /\ newest' = IF e > newest THEN e ELSE newest
      /\ overtaken' = IF e < newest THEN overtaken \cup {e} ELSE overtaken
      /\ UNCHANGED <<clock, pollVars, got, raced>>
  BY DEF AddInserts, Arrives
<1>5. /\ adding'[a].in /\ adding'[a].stamp = e
      /\ \A b \in Adders \ {a} : adding'[b] = adding[b]
      /\ \A b \in Adders : adding'[b].stamp = adding[b].stamp
  BY DEF AddInserts, EventInv, EventTypeOK
<1>6. newest \in 0..clock /\ clock \in Nat /\ newest' \in 0..clock
      /\ newest <= newest' /\ e <= newest' /\ \A b \in Adders : adding[b].stamp \in 0..clock
  BY <1>1, <1>4, RingAssumption DEF EventInv, EventTypeOK, StampsInv
<1>7. EventTypeOK'
  <2>1. adding' \in [Adders -> [stamp: 0..MaxClock, in: BOOLEAN]]
    BY DEF AddInserts, EventInv, EventTypeOK
  <2>2. Len(ring') <= RingCap
    BY <1>2, RingAssumption
  <2> QED
    BY <1>2, <1>4, <2>1, <2>2 DEF EventInv, EventTypeOK, pollVars
<1>8. StampsInv'
  <2>1. \A b \in Adders : adding'[b].stamp > 0 /\ ~adding'[b].in => adding'[b].stamp # newest'
    BY <1>1, <1>4, <1>5 DEF EventInv, StampsInv
  <2> QED
    BY <1>4, <1>5, <1>6, <2>1 DEF EventInv, StampsInv
<1>9. \A i \in 1..Len(ring') : ring'[i] = e \/ \E j \in 1..Len(ring) : ring'[i] = ring[j]
  BY <1>2, <1>3
<1>10. \A i \in 1..Len(ring) : ring[i] \in 1..MaxClock /\ ring[i] <= newest
  BY ElementOfSeq DEF EventInv, EventTypeOK, RingInv
<1>11. RingInv'
  <2>1. \A i \in 1..Len(ring') : ring'[i] <= newest'
    <3> SUFFICES ASSUME NEW i \in 1..Len(ring') PROVE ring'[i] <= newest'
      OBVIOUS
    <3>1. CASE ring'[i] = e
      BY <1>6, <3>1
    <3>2. CASE \E j \in 1..Len(ring) : ring'[i] = ring[j]
      BY <1>6, <1>10, <3>2
    <3> QED
      BY <1>9, <3>1, <3>2
  <2>2. ASSUME NEW i \in 1..Len(ring'), NEW j \in 1..Len(ring'), i < j, ring'[j] < ring'[i]
        PROVE  ring'[j] \in overtaken'
    <3>1. i \in 1..(Len(ring') - 1) /\ i + d \in 1..Len(ring) /\ ring'[i] = ring[i + d]
      BY <1>2, <1>3, <2>2
    <3>2. CASE j = Len(ring')
      BY <1>2, <1>4, <1>6, <1>10, <2>2, <3>1, <3>2
    <3>3. CASE j # Len(ring')
      <4>1. j + d \in 1..Len(ring) /\ ring'[j] = ring[j + d] /\ i + d < j + d
        BY <1>2, <1>3, <2>2, <3>3
      <4> QED
        BY <1>4, <2>2, <3>1, <4>1 DEF EventInv, RingInv
    <3> QED
      BY <3>2, <3>3
  <2> QED
    BY <2>1, <2>2 DEF RingInv
<1>12. SinceInv'
  <2> SUFFICES ASSUME NEW r \in Readers, NEW b \in Adders, adding'[b].stamp > 0, ~adding'[b].in,
                      adding'[b].stamp <= since'[r]
               PROVE  adding'[b].stamp \in raced'[r] \/ adding'[b].stamp < newest'
    BY <1>4 DEF SinceInv, EventInv, pollVars
  <2>1. b # a /\ adding'[b] = adding[b]
    BY <1>5
  <2> QED
    BY <1>4, <1>6, <2>1 DEF EventInv, SinceInv, pollVars
<1>13. \A r \in Readers : e <= since[r] => e \in overtaken' \cup raced'[r]
  BY <1>1, <1>4 DEF EventInv, SinceInv
<1>14. PageInv'
  <2>1. \A r \in Readers : \A k \in 1..Len(page[r]) : page[r][k] \in 1..MaxClock /\ page[r][k] <= newest
    <3>1. \A r \in Readers : page[r] \in Seq(1..MaxClock)
      BY DEF EventInv, EventTypeOK
    <3> QED
      BY <3>1, ElementOfSeq DEF EventInv, PageInv
  <2>2. \A r \in Readers : \A k \in 1..Len(page'[r]) : page'[r][k] <= newest'
    BY <1>4, <1>6, <2>1 DEF pollVars
  <2>3. ASSUME NEW r \in Readers, poll'[r] = "answer", page'[r] # <<>>, NEW i \in 1..Len(ring'),
               ring'[i] <= Last(page'[r])
        PROVE  ring'[i] \in Covered(r)'
    <3>1. page'[r] = page[r] /\ poll[r] = "answer" /\ page[r] # <<>>
      BY <1>4, <2>3 DEF pollVars
    <3>2. Covered(r) \subseteq Covered(r)'
      BY <1>4 DEF Covered, pollVars
    <3>3. CASE \E j \in 1..Len(ring) : ring'[i] = ring[j]
      BY <2>3, <3>1, <3>2, <3>3 DEF EventInv, PageInv
    <3>4. CASE ring'[i] = e
      <4>1. Len(page[r]) \in 1..Len(page[r]) /\ Last(page[r]) = page[r][Len(page[r])]
        BY <3>1 DEF EventInv, EventTypeOK, Last
      <4>2. Last(page[r]) <= newest
        BY <2>1, <4>1
      <4>3. e < newest
        BY SMTT(30), <1>1, <1>6, <2>1, <2>3, <3>1, <3>4, <4>1, <4>2
      <4> QED
        BY <1>4, <3>4, <4>3 DEF Covered
    <3> QED
      BY <1>9, <3>3, <3>4
  <2> QED
    BY <2>2, <2>3 DEF PageInv
<1>15. NothingIsSkipped'
  <2>1. ToSet(ring') \subseteq ToSet(ring) \cup {e}
    <3>1. ring \in Seq(1..MaxClock) /\ ring' \in Seq(1..MaxClock)
      BY <1>2 DEF EventInv, EventTypeOK
    <3> QED
      BY <1>9, <3>1, SetOfSeq
  <2> QED
    BY <1>4, <1>13, <2>1 DEF EventInv, NothingIsSkipped, pollVars
<1> QED
  BY <1>7, <1>8, <1>11, <1>12, <1>14, <1>15 DEF EventInv

LEMMA SignalsStep ==
    ASSUME EventInv, NEW a \in Adders, AddSignals(a)
    PROVE  EventInv'
<1>1. UNCHANGED <<clock, ring, poll, page, since, eventHist>>
  BY DEF AddSignals
<1>2. /\ adding'[a] = NotAdding
      /\ \A b \in Adders \ {a} : adding'[b] = adding[b]
      /\ adding' \in [Adders -> [stamp: 0..MaxClock, in: BOOLEAN]]
      /\ heard' \in [Readers -> BOOLEAN]
  BY RingAssumption DEF AddSignals, EventInv, EventTypeOK, NotAdding
<1>3. EventTypeOK'
  BY <1>1, <1>2 DEF EventInv, EventTypeOK, eventHist
<1>4. StampsInv'
  <2>1. clock \in Nat /\ newest \in 0..clock /\ clock' = clock /\ newest' = newest
    BY <1>1, RingAssumption DEF EventInv, EventTypeOK, StampsInv, eventHist
  <2>2. adding'[a].stamp = 0 /\ \A b \in Adders : b = a \/ adding'[b] = adding[b]
    BY <1>2 DEF NotAdding
  <2>3. \A b \in Adders : adding'[b].stamp <= clock'
    BY <2>1, <2>2 DEF EventInv, StampsInv
  <2>4. \A b, c \in Adders : b # c /\ adding'[b].stamp = adding'[c].stamp => adding'[b].stamp = 0
    BY <2>2 DEF EventInv, StampsInv
  <2>5. \A b \in Adders : adding'[b].stamp > 0 /\ ~adding'[b].in => adding'[b].stamp # newest'
    BY <2>1, <2>2 DEF EventInv, StampsInv
  <2> QED
    BY <2>1, <2>3, <2>4, <2>5 DEF StampsInv
<1>5. SinceInv'
  BY <1>1, <1>2 DEF EventInv, SinceInv, NotAdding, eventHist
<1>6. RingInv' /\ PageInv' /\ NothingIsSkipped'
  BY <1>1 DEF EventInv, RingInv, PageInv, NothingIsSkipped, Covered, eventHist
<1> QED
  BY <1>3, <1>4, <1>5, <1>6 DEF EventInv

\* The steps of a poll between its two looks at the ring.
LEMMA WaitsStep ==
    ASSUME EventInv, NEW r \in Readers,
           \/ PollBegins(r) \/ PollSubscribes(r) \/ PollChecks(r) \/ PollWakes(r) \/ PollTimesOut(r)
    PROVE  EventInv'
<1> DEFINE Places == {"idle", "fetch", "subscribe", "check", "sleep", "refetch", "answer"}
<1>1. /\ UNCHANGED <<ringVars, page, since, eventHist>>
      /\ \E pc \in Places \ {"answer"} : poll' = [poll EXCEPT ![r] = pc]
      /\ heard' = heard \/ heard' = [heard EXCEPT ![r] = FALSE]
  BY DEF PollBegins, PollSubscribes, PollChecks, PollWakes, PollTimesOut
<1>2. EventTypeOK'
  <2>1. poll' \in [Readers -> Places] /\ heard' \in [Readers -> BOOLEAN]
    BY <1>1 DEF EventInv, EventTypeOK
  <2> QED
    BY <1>1, <2>1 DEF EventInv, EventTypeOK, ringVars, eventHist
<1>3. \A x \in Readers : poll'[x] = "answer" => poll[x] = "answer"
  BY <1>1 DEF EventInv, EventTypeOK
<1>4. PageInv'
  BY <1>1, <1>3 DEF EventInv, PageInv, Covered, ringVars, eventHist
<1>5. StampsInv' /\ RingInv' /\ SinceInv' /\ NothingIsSkipped'
  BY <1>1 DEF EventInv, StampsInv, RingInv, SinceInv, NothingIsSkipped, ringVars, eventHist
<1> QED
  BY <1>2, <1>4, <1>5 DEF EventInv

LEMMA FetchesStep ==
    ASSUME EventInv, NEW r \in Readers, PollFetches(r)
    PROVE  EventInv'
<1> DEFINE p == Since(since[r])
<1>1. /\ UNCHANGED <<ringVars, since, heard, eventHist>>
      /\ page' = [page EXCEPT ![r] = p]
      /\ \E pc \in {"subscribe", "answer"} : poll' = [poll EXCEPT ![r] = pc]
  BY DEF PollFetches
<1>2. /\ p \in Seq(1..MaxClock) /\ Len(p) <= PageLimit
      /\ \A k \in 1..Len(p) : \E i \in 1..Len(ring) : p[k] = ring[i]
      /\ p # <<>> => \E i \in 1..Len(ring) :
                         /\ ring[i] = Last(p)
                         /\ \A j \in 1..i : ring[j] > since[r] => ring[j] \in ToSet(p)
  <2>1. since[r] \in Nat
    BY DEF EventInv, EventTypeOK
  <2> QED
    BY <2>1, PageOfSince DEF EventInv
<1> HIDE DEF p
<1>3. /\ page'[r] = p /\ \A x \in Readers \ {r} : page'[x] = page[x] /\ poll'[x] = poll[x]
      /\ page' \in [Readers -> Seq(1..MaxClock)]
  BY <1>1, <1>2 DEF EventInv, EventTypeOK
<1>4. EventTypeOK'
  <2>1. poll' \in [Readers -> {"idle", "fetch", "subscribe", "check", "sleep", "refetch", "answer"}]
    BY <1>1 DEF EventInv, EventTypeOK
  <2>2. \A x \in Readers : Len(page'[x]) <= PageLimit
    BY <1>2, <1>3 DEF EventInv, EventTypeOK
  <2> QED
    BY <1>1, <1>3, <2>1, <2>2 DEF EventInv, EventTypeOK, ringVars, eventHist
<1>5. StampsInv' /\ RingInv' /\ SinceInv' /\ NothingIsSkipped'
  BY <1>1 DEF EventInv, StampsInv, RingInv, SinceInv, NothingIsSkipped, ringVars, eventHist
<1>6. \A i \in 1..Len(ring) : ring[i] \in 1..MaxClock /\ ring[i] \in ToSet(ring)
  <2>1. ring \in Seq(1..MaxClock)
    BY DEF EventInv, EventTypeOK
  <2>2. ToSet(ring) = {ring[i] : i \in 1..Len(ring)}
    BY <2>1, SetOfSeq
  <2>3. \A i \in 1..Len(ring) : ring[i] \in 1..MaxClock
    BY <2>1, ElementOfSeq
  <2> QED
    BY <2>2, <2>3
<1>7. ASSUME p # <<>>, NEW j \in 1..Len(ring), ring[j] <= Last(p)
      PROVE  ring[j] \in ToSet(p) \cup got[r] \cup overtaken \cup raced[r]
  <2>1. PICK i \in 1..Len(ring) :
                /\ ring[i] = Last(p)
                /\ \A o \in 1..i : ring[o] > since[r] => ring[o] \in ToSet(p)
    BY <1>2, <1>7
  <2>2. Last(p) \in ToSet(p)
    <3>1. Len(p) \in 1..Len(p)
      BY <1>2, <1>7
    <3> QED
      BY <1>2, <3>1, SetOfSeq DEF Last
  <2>3. CASE j \in 1..i /\ ring[j] > since[r]
    BY <2>1, <2>3
  <2>4. CASE ~(ring[j] > since[r])
    <3>1. ring[j] <= since[r]
      BY <1>6, <2>4 DEF EventInv, EventTypeOK
    <3> QED
      BY <1>6, <3>1 DEF EventInv, NothingIsSkipped
  <2>5. CASE i < j
    <3>1. ring[j] = ring[i] \/ ring[j] < ring[i]
      BY <1>6, <1>7, <2>1
    <3> QED
      BY <2>1, <2>2, <2>5, <3>1 DEF EventInv, RingInv
  <2>6. j \in 1..i \/ i < j
    OBVIOUS
  <2> QED
    BY <2>3, <2>4, <2>5, <2>6
<1>8. PageInv'
  <2>1. ASSUME NEW x \in Readers, NEW k \in 1..Len(page'[x]) PROVE page'[x][k] <= newest'
    <3>1. CASE x = r
      BY <1>1, <1>2, <1>3, <2>1, <3>1 DEF EventInv, RingInv, ringVars, eventHist
    <3>2. CASE x # r
      BY <1>1, <1>3, <2>1, <3>2 DEF EventInv, PageInv, eventHist
    <3> QED
      BY <3>1, <3>2
  <2>2. ASSUME NEW x \in Readers, poll'[x] = "answer", page'[x] # <<>>, NEW j \in 1..Len(ring),
               ring[j] <= Last(page'[x])
        PROVE  ring[j] \in Covered(x)'
    <3>1. CASE x = r
      BY <1>1, <1>3, <1>7, <2>2, <3>1 DEF Covered, eventHist
    <3>2. CASE x # r
      BY <1>1, <1>3, <2>2, <3>2 DEF Covered, eventHist, EventInv, PageInv
    <3> QED
      BY <3>1, <3>2
  <2> QED
    BY <1>1, <2>1, <2>2 DEF PageInv, ringVars
<1> QED
  BY <1>4, <1>5, <1>8 DEF EventInv

LEMMA AnswersStep ==
    ASSUME EventInv, NEW r \in Readers, PollAnswers(r)
    PROVE  EventInv'
<1> DEFINE last == Last(page[r])
<1>1. /\ UNCHANGED <<clock, adding, ring, heard, newest, overtaken, raced>>
      /\ poll' = [poll EXCEPT ![r] = "idle"] /\ page' = [page EXCEPT ![r] = <<>>]
      /\ since' = [since EXCEPT ![r] = last]
      /\ got' = [got EXCEPT ![r] = @ \cup ToSet(page[r])]
      /\ poll[r] = "answer" /\ page[r] # <<>>
  BY DEF PollAnswers, Answered
<1>2. last \in 1..MaxClock /\ last <= newest
  <2>1. page[r] \in Seq(1..MaxClock) /\ Len(page[r]) \in 1..Len(page[r])
    BY <1>1 DEF EventInv, EventTypeOK
  <2>2. page[r][Len(page[r])] \in 1..MaxClock
    BY <2>1, ElementOfSeq
  <2> QED
    BY <2>1, <2>2 DEF EventInv, PageInv, Last
<1>3. \A i \in 1..Len(ring) : ring[i] <= last => ring[i] \in Covered(r)
  BY <1>1 DEF EventInv, PageInv
<1> HIDE DEF last
<1>4. /\ since'[r] = last /\ page'[r] = <<>>
      /\ \A x \in Readers \ {r} : /\ since'[x] = since[x] /\ page'[x] = page[x]
                                    /\ poll'[x] = poll[x]
      /\ poll' \in [Readers -> {"idle", "fetch", "subscribe", "check", "sleep", "refetch", "answer"}]
      /\ page' \in [Readers -> Seq(1..MaxClock)] /\ since' \in [Readers -> 0..MaxClock]
  BY <1>1, <1>2 DEF EventInv, EventTypeOK
<1>5. /\ newest \in 0..clock /\ clock \in 0..MaxClock /\ PageLimit \in Nat /\ Len(<<>>) = 0
      /\ \A a \in Adders : adding[a].stamp \in Nat
  BY RingAssumption DEF EventInv, EventTypeOK, StampsInv
<1>6. EventTypeOK'
  <2>1. ASSUME NEW x \in Readers PROVE Len(page'[x]) <= PageLimit
    <3>1. CASE x = r
      BY <1>4, <1>5, <3>1
    <3>2. CASE x # r
      BY <1>4, <3>2 DEF EventInv, EventTypeOK
    <3> QED
      BY <3>1, <3>2
  <2>2. got' \in [Readers -> SUBSET Nat]
    <3>1. ToSet(page[r]) \subseteq Nat
      <4>1. page[r] \in Seq(1..MaxClock)
        BY DEF EventInv, EventTypeOK
      <4>2. ToSet(page[r]) \subseteq 1..MaxClock
        BY <4>1, SetOfSeq
      <4> QED
        BY <4>2
    <3> QED
      BY <1>1, <3>1 DEF EventInv, EventTypeOK
  <2> QED
    BY <1>1, <1>4, <2>1, <2>2 DEF EventInv, EventTypeOK
<1>7. StampsInv' /\ RingInv'
  BY <1>1 DEF EventInv, StampsInv, RingInv
<1>8. SinceInv'
  <2>1. \A x \in Readers : since'[x] <= clock'
    BY <1>1, <1>2, <1>4, <1>5 DEF EventInv, SinceInv
  <2>2. ASSUME NEW x \in Readers, NEW a \in Adders,
               adding[a].stamp > 0, ~adding[a].in, adding[a].stamp <= since'[x]
        PROVE  adding[a].stamp \in raced[x] \/ adding[a].stamp < newest
    <3>1. CASE x = r
      BY SMTT(30), <1>2, <1>4, <1>5, <2>2, <3>1 DEF EventInv, StampsInv
    <3>2. CASE x # r
      BY <1>4, <2>2, <3>2 DEF EventInv, SinceInv
    <3> QED
      BY <3>1, <3>2
  <2> QED
    BY <1>1, <2>1, <2>2 DEF SinceInv
<1>9. \A x \in Readers : got[x] \subseteq got'[x]
  BY <1>1 DEF EventInv, EventTypeOK
<1>10. got'[r] = got[r] \cup ToSet(page[r])
  BY <1>1 DEF EventInv, EventTypeOK
<1>11. PageInv'
  <2>1. \A x \in Readers : \A k \in 1..Len(page'[x]) : page'[x][k] <= newest'
    BY <1>1, <1>4, <1>5 DEF EventInv, PageInv
  <2>2. ASSUME NEW x \in Readers, poll'[x] = "answer", page'[x] # <<>>
        PROVE  x # r /\ Covered(x) \subseteq Covered(x)'
    BY <1>1, <1>4, <1>9, <2>2 DEF Covered
  <2> QED
    BY <1>1, <1>4, <2>1, <2>2 DEF EventInv, PageInv
<1>12. NothingIsSkipped'
  <2>1. ASSUME NEW n \in ToSet(ring), n <= last PROVE n \in got'[r] \cup overtaken \cup raced[r]
    <3>1. PICK i \in 1..Len(ring) : n = ring[i]
      BY SetOfSeq DEF EventInv, EventTypeOK
    <3> QED
      BY <1>3, <1>10, <2>1, <3>1 DEF Covered
  <2>2. ASSUME NEW x \in Readers \ {r}, NEW n \in ToSet(ring), n <= since'[x]
        PROVE  n \in got'[x] \cup overtaken \cup raced[x]
    BY <1>4, <1>9, <2>2 DEF EventInv, NothingIsSkipped
  <2> QED
    BY <1>1, <1>4, <2>1, <2>2 DEF NothingIsSkipped
<1> QED
  BY <1>6, <1>7, <1>8, <1>11, <1>12 DEF EventInv

LEMMA AnswersEmptyStep ==
    ASSUME EventInv, NEW r \in Readers, PollAnswersEmpty(r)
    PROVE  EventInv'
<1> DEFINE missed == {n \in ToSet(ring) : n > since[r]} \cup {adding[a].stamp : a \in Adders}
<1>1. /\ UNCHANGED <<adding, ring, heard, newest, overtaken>>
      /\ clock \in Nat /\ clock < MaxClock /\ clock' = clock + 1
      /\ poll' = [poll EXCEPT ![r] = "idle"] /\ page' = [page EXCEPT ![r] = <<>>]
      /\ since' = [since EXCEPT ![r] = clock + 1]
      /\ got' = [got EXCEPT ![r] = @ \cup ToSet(page[r])]
      /\ page[r] = <<>>
      /\ raced' = [raced EXCEPT ![r] = @ \cup missed]
  <2>1. clock \in Nat
    BY RingAssumption DEF EventInv, EventTypeOK
  <2> QED
    BY <2>1, Zenon DEF PollAnswersEmpty, Answered
<1>2. missed \subseteq Nat /\ ToSet(ring) \subseteq 1..MaxClock
  <2>1. ring \in Seq(1..MaxClock) /\ \A a \in Adders : adding[a].stamp \in Nat
    BY DEF EventInv, EventTypeOK
  <2>2. ToSet(ring) \subseteq 1..MaxClock
    BY <2>1, SetOfSeq
  <2> QED
    BY <2>1, <2>2
<1>3. raced'[r] = raced[r] \cup missed /\ raced' \in [Readers -> SUBSET Nat]
      /\ \A x \in Readers : raced[x] \subseteq raced'[x]
  <2> HIDE DEF missed
  <2> QED
    BY <1>1, <1>2 DEF EventInv, EventTypeOK
<1>4. got' = got
  <2>1. ToSet(page[r]) = {}
    BY <1>1 DEF ToSet
  <2> QED
    BY <1>1, <2>1 DEF EventInv, EventTypeOK
<1>5. /\ since'[r] = clock + 1 /\ page'[r] = <<>>
      /\ \A x \in Readers \ {r} : since'[x] = since[x] /\ page'[x] = page[x] /\ poll'[x] = poll[x]
      /\ poll' \in [Readers -> {"idle", "fetch", "subscribe", "check", "sleep", "refetch", "answer"}]
      /\ page' \in [Readers -> Seq(1..MaxClock)] /\ since' \in [Readers -> 0..MaxClock]
  BY <1>1, RingAssumption DEF EventInv, EventTypeOK
<1>6. /\ newest \in 0..clock /\ clock' \in 0..MaxClock /\ PageLimit \in Nat /\ Len(<<>>) = 0
      /\ \A a \in Adders : adding[a].stamp \in Nat
      /\ \A x \in Readers : since[x] \in Nat
  BY <1>1, RingAssumption DEF EventInv, EventTypeOK, StampsInv
<1>7. EventTypeOK'
  <2>1. ASSUME NEW x \in Readers PROVE Len(page'[x]) <= PageLimit
    <3>1. CASE x = r
      BY <1>5, <1>6, <3>1
    <3>2. CASE x # r
      BY <1>5, <3>2 DEF EventInv, EventTypeOK
    <3> QED
      BY <3>1, <3>2
  <2> QED
    BY <1>1, <1>3, <1>4, <1>5, <1>6, <2>1 DEF EventInv, EventTypeOK
<1>8. StampsInv'
  BY <1>1, <1>6 DEF EventInv, StampsInv
<1>9. RingInv'
  BY <1>1 DEF EventInv, RingInv
<1>10. SinceInv'
  <2>1. \A x \in Readers : since'[x] <= clock'
    BY <1>1, <1>5, <1>6 DEF EventInv, SinceInv
  <2>2. ASSUME NEW x \in Readers, NEW a \in Adders,
               adding[a].stamp > 0, ~adding[a].in, adding[a].stamp <= since'[x]
        PROVE  adding[a].stamp \in raced'[x] \/ adding[a].stamp < newest
    <3>1. CASE x = r
      BY <1>3, <3>1
    <3>2. CASE x # r
      BY <1>3, <1>5, <2>2, <3>2 DEF EventInv, SinceInv
    <3> QED
      BY <3>1, <3>2
  <2> QED
    BY <1>1, <2>1, <2>2 DEF SinceInv
<1>11. PageInv'
  <2>1. \A x \in Readers : \A k \in 1..Len(page'[x]) : page'[x][k] <= newest'
    BY <1>1, <1>5, <1>6 DEF EventInv, PageInv
  <2>2. ASSUME NEW x \in Readers, poll'[x] = "answer", page'[x] # <<>>
        PROVE  x # r /\ Covered(x) \subseteq Covered(x)'
    BY <1>1, <1>3, <1>4, <1>5, <2>2 DEF Covered
  <2> QED
    BY <1>1, <1>5, <2>1, <2>2 DEF EventInv, PageInv
<1>12. NothingIsSkipped'
  <2>1. ASSUME NEW n \in ToSet(ring) PROVE n \in got[r] \cup overtaken \cup raced'[r]
    <3>1. n > since[r] \/ n <= since[r]
      BY <1>2, <1>6
    <3> QED
      BY <1>3, <3>1 DEF EventInv, NothingIsSkipped
  <2>2. ASSUME NEW x \in Readers \ {r}, NEW n \in ToSet(ring), n <= since'[x]
        PROVE  n \in got[x] \cup overtaken \cup raced'[x]
    BY <1>3, <1>5, <2>2 DEF EventInv, NothingIsSkipped
  <2> QED
    BY <1>1, <1>4, <2>1, <2>2 DEF NothingIsSkipped
<1> QED
  BY <1>7, <1>8, <1>9, <1>10, <1>11, <1>12 DEF EventInv

LEMMA EventStepInv == EventInv /\ [EventNext]_eventVars => EventInv'
<1> SUFFICES ASSUME EventInv, [EventNext]_eventVars PROVE EventInv'
  OBVIOUS
<1>1. CASE UNCHANGED eventVars
  BY <1>1 DEF eventVars, ringVars, pollVars, eventHist, EventInv, EventTypeOK, StampsInv,
     RingInv,
     SinceInv, PageInv, NothingIsSkipped, Covered
<1>2. CASE EventNext
  BY <1>2, StampsStep, InsertsStep, SignalsStep, WaitsStep, FetchesStep, AnswersStep,
     AnswersEmptyStep DEF EventNext
<1> QED
  BY <1>1, <1>2

-----------------------------------------------------------------------------
(* The notifications. *)

Rows == {s \in Seq(Nat) : Len(s) <= TopicCap}

TopicRecord ==
    [source: Producers, status: Shown \cup {"deleted", "purged"}, last: Nat, read: Nat, rows: Rows]

Topic == {t \in TopicRecord : t.read <= t.last}

Command ==
    [op: {"append"}, note: Nat \ {0}, topic: Nat] \cup [op: {"appendDefault"}, note: Nat \ {0}]
    \cup [op: {"close", "readAll", "deleteAll"}] \cup [op: {"read", "delete"}, topic: Nat]
    \cup [op: {"retain"}, old: SUBSET Nat]

StoreTypes ==
    /\ topics \in Seq(Topic) /\ Len(topics) >= 1
    /\ queue \in Seq(Command) /\ Len(queue) <= QueueCap
    /\ writing \in {"idle", "bump", "signal", "exited"}
    /\ life \in {"up", "closing", "stopping", "down"}
    /\ seq \in Nat /\ epoch \in Nat
    /\ reader \in [Producers -> [pc: {"idle", "enqueue", "recheck"}, note: Nat, topic: {0, 1}]]
    /\ \A p \in Producers : reader[p].pc # "idle" => reader[p].note # 0
    /\ request \in [Requesters -> Command \cup {NoCommand}]
    /\ client \in [pc: {"list", "ask", "subscribe", "check", "sleep", "answer"}, epoch: Nat,
                   since: Nat, heard: BOOLEAN]
    /\ left \in [notes: Nat, requests: Nat, fails: Nat, starts: Nat]
    /\ accepted \cup executed \subseteq Nat \ {0}

\* The notifications the writer still has before it.
Queued == {queue[i].note : i \in {i \in 1..Len(queue) : "note" \in DOMAIN queue[i]}}

\* What has been accepted is done or queued, and so is what a reader will find accepted
\* unless the store is closed before it looks; the writer ends only behind the queue.
PromiseInv ==
    /\ accepted \subseteq executed \cup Queued
    /\ \A p \in Producers :
          life = "up" /\ reader[p].pc = "recheck" => reader[p].note \in executed \cup Queued
    /\ life \in {"up", "closing"} => writing # "exited"
    /\ life = "down" => /\ \A p \in Producers : reader[p].pc = "idle"
                        /\ writing = "exited"
    /\ AcceptedIsCarriedOut

StoreInv == StoreTypes /\ PromiseInv

TopicList == {ts \in Seq(Topic) : Len(ts) >= 1}

LEMMA TopicListUpdate ==
    ASSUME NEW ts \in TopicList, NEW f, DOMAIN f = 1..Len(ts),
           f = [t \in 1..Len(ts) |-> f[t]], \A t \in 1..Len(ts) : f[t] \in Topic
    PROVE  f \in TopicList
<1>1. f \in [1..Len(ts) -> Topic] /\ Len(ts) \in Nat
  BY DEF TopicList
<1>2. f \in Seq(Topic)
  BY <1>1, IsASeq
<1>3. Len(f) = Len(ts)
  BY <1>1, <1>2
<1> QED
  BY <1>2, <1>3 DEF TopicList

LEMMA AppendInTxKeeps ==
    ASSUME NEW ts \in TopicList, NEW t \in DOMAIN ts, NEW n \in Nat
    PROVE  AppendInTx(ts, t, n) \in TopicList
<1> DEFINE old == ts[t].rows
           all == Append(old, n)
           kept == IF Len(all) > TopicCap THEN Tail(all) ELSE all
           new == [ts[t] EXCEPT !.last = @ + 1, !.rows = kept]
<1>1. /\ ts \in Seq(Topic) /\ t \in 1..Len(ts) /\ DOMAIN ts = 1..Len(ts)
      /\ \A x \in 1..Len(ts) : ts[x] \in Topic
  BY ElementOfSeq DEF TopicList
<1>2. old \in Rows
  BY <1>1 DEF Topic, TopicRecord
<1> HIDE DEF old
<1>3. kept \in Rows
  <2>1. old \in Seq(Nat) /\ Len(old) \in Nat /\ Len(old) <= TopicCap /\ TopicCap \in Nat
    BY <1>2, LenProperties, StoreAssumption DEF Rows
  <2>2. all \in Seq(Nat) /\ all # <<>> /\ Len(all) = Len(old) + 1
    BY <2>1, AppendProperties
  <2> HIDE DEF all
  <2>3. Tail(all) \in Seq(Nat) /\ Len(Tail(all)) = Len(all) - 1
    BY <2>2, HeadTailProperties
  <2> QED
    BY <2>1, <2>2, <2>3 DEF Rows
<1> HIDE DEF kept
<1>4. new \in Topic
  <2>1. ts[t] \in TopicRecord /\ ts[t].read <= ts[t].last
    BY <1>1 DEF Topic
  <2>2. new \in TopicRecord
    <3>1. \A y \in TopicRecord, l \in Nat, k \in Rows : [y EXCEPT !.last = l, !.rows = k] \in TopicRecord
      BY DEF TopicRecord
    <3>2. ts[t].last + 1 \in Nat
      BY <2>1 DEF TopicRecord
    <3> QED
      BY <1>3, <2>1, <3>1, <3>2
  <2>3. new.read = ts[t].read /\ new.last = ts[t].last + 1
    BY <2>1 DEF TopicRecord
  <2>4. ts[t].read \in Nat /\ ts[t].last \in Nat
    BY <2>1 DEF TopicRecord
  <2>5. new.read <= new.last
    BY <2>1, <2>3, <2>4
  <2> HIDE DEF new
  <2> QED
    BY <2>2, <2>5 DEF Topic
<1>5. AppendInTx(ts, t, n) = [ts EXCEPT ![t] = new]
  BY <1>1, Zenon DEF AppendInTx, kept, all, old
<1> HIDE DEF new
<1>6. DOMAIN AppendInTx(ts, t, n) = 1..Len(ts)
      /\ AppendInTx(ts, t, n) = [x \in 1..Len(ts) |-> IF x = t THEN new ELSE ts[x]]
  BY <1>1, <1>5, Zenon
<1>7. DOMAIN AppendInTx(ts, t, n) = 1..Len(ts)
      /\ AppendInTx(ts, t, n) = [x \in 1..Len(ts) |-> AppendInTx(ts, t, n)[x]]
      /\ \A x \in 1..Len(ts) : AppendInTx(ts, t, n)[x] \in Topic
  <2> HIDE DEF all
  <2> QED
    BY <1>1, <1>4, <1>6
<1> QED
  BY <1>7, TopicListUpdate

\* What commands do to a topic.
LEMMA TopicUpdates ==
    ASSUME NEW x \in Topic
    PROVE  /\ [x EXCEPT !.status = "deleted"] \in Topic
           /\ [x EXCEPT !.status = "closed"] \in Topic
           /\ [x EXCEPT !.read = x.last] \in Topic
           /\ [x EXCEPT !.status = "purged", !.rows = <<>>] \in Topic
           /\ NewTopic("service") \in Topic
<1>1. x \in TopicRecord /\ x.read <= x.last
  BY DEF Topic
<1>2. <<>> \in Rows
  BY StoreAssumption DEF Rows
<1>3. ASSUME NEW y \in TopicRecord, y.read <= y.last PROVE y \in Topic
  BY <1>3 DEF Topic
<1>4. /\ [x EXCEPT !.status = "deleted"] \in TopicRecord
      /\ [x EXCEPT !.status = "closed"] \in TopicRecord
      /\ [x EXCEPT !.read = x.last] \in TopicRecord
  BY <1>1 DEF TopicRecord, Shown
<1>5. [x EXCEPT !.status = "purged", !.rows = <<>>] \in TopicRecord
  BY <1>1, <1>2 DEF TopicRecord
<1>6. NewTopic("service") \in TopicRecord
  BY <1>2 DEF TopicRecord, NewTopic, Shown, Producers
<1>7. [x EXCEPT !.status = "deleted"] \in Topic /\ [x EXCEPT !.status = "closed"] \in Topic
  BY <1>1, <1>3, <1>4 DEF TopicRecord
<1>8. [x EXCEPT !.read = x.last] \in Topic
  <2>1. [x EXCEPT !.read = x.last].read = x.last /\ [x EXCEPT !.read = x.last].last = x.last
    BY <1>1 DEF TopicRecord
  <2>2. x.last <= x.last
    BY <1>1 DEF TopicRecord
  <2> QED
    BY <1>3, <1>4, <2>1, <2>2
<1>9. [x EXCEPT !.status = "purged", !.rows = <<>>] \in Topic
  BY <1>1, <1>3, <1>5 DEF TopicRecord
<1>10. NewTopic("service") \in Topic
  BY <1>3, <1>6 DEF NewTopic
<1> QED
  BY <1>7, <1>8, <1>9, <1>10

\* A command leaves topics, with no more rows than there is room for and none read
\* beyond its last.
LEMMA RunKeepsTopics ==
    ASSUME NEW ts \in TopicList, NEW cmd \in Command
    PROVE  Run(cmd, ts)[1] \in TopicList
<1>1. /\ ts \in Seq(Topic) /\ DOMAIN ts = 1..Len(ts) /\ 1 \in DOMAIN ts
      /\ ts = [t \in 1..Len(ts) |-> ts[t]]
      /\ \A t \in 1..Len(ts) : ts[t] \in Topic
  BY DEF TopicList
<1>2. /\ cmd.op \in {"append", "appendDefault", "close", "read", "readAll", "delete", "deleteAll", "retain"}
      /\ cmd.op \in {"append", "appendDefault"} => cmd.note \in Nat
  BY DEF Command
<1>3. \A x \in Topic : /\ [x EXCEPT !.status = "deleted"] \in Topic
                       /\ [x EXCEPT !.status = "closed"] \in Topic
                       /\ [x EXCEPT !.read = x.last] \in Topic
                       /\ [x EXCEPT !.status = "purged", !.rows = <<>>] \in Topic
                       /\ NewTopic("service") \in Topic
  BY TopicUpdates
<1>4. CASE cmd.op = "append"
  BY <1>1, <1>2, <1>4, AppendInTxKeeps DEF Run, AppendNotification, Alive
<1>5. CASE cmd.op = "appendDefault"
  <2> DEFINE d == Default(ts, "service")
             all == IF d = {} THEN Append(ts, NewTopic("service")) ELSE ts
             t == IF d = {} THEN Len(all) ELSE CHOOSE t \in d : TRUE
  <2>1. NewTopic("service") \in Topic
    BY <1>1, <1>3
  <2>2. all \in TopicList /\ t \in DOMAIN all
    <3>1. CASE d = {}
      <4> DEFINE new == NewTopic("service")
      <4>1. new \in Topic
        BY <2>1
      <4> HIDE DEF new
      <4>2. Append(ts, new) \in Seq(Topic) /\ Len(Append(ts, new)) = Len(ts) + 1
        BY <1>1, <4>1, AppendProperties
      <4> QED
        BY <1>1, <3>1, <4>2 DEF TopicList, new
    <3>2. CASE d # {}
      BY <3>2 DEF Default
    <3> QED
      BY <3>1, <3>2
  <2>3. Run(cmd, ts)[1] = AppendInTx(all, t, cmd.note)
    BY <1>5 DEF Run, AppendToDefaultTopic
  <2> HIDE DEF all, t
  <2> QED
    BY <1>2, <1>5, <2>2, <2>3, AppendInTxKeeps
<1>6. CASE cmd.op \notin {"append", "appendDefault"}
  <2> DEFINE f == Run(cmd, ts)[1]
  <2>1. /\ DOMAIN f = 1..Len(ts) /\ f = [t \in 1..Len(ts) |-> f[t]]
        /\ \A t \in 1..Len(ts) : f[t] \in Topic
    <3>1. CASE cmd.op = "close"
      <4>1. f = ts \/ f = [t \in 1..Len(ts) |->
                             IF t = 1 THEN [ts[t] EXCEPT !.status = "closed"] ELSE ts[t]]
        BY <1>1, <3>1 DEF Run, CloseTopic
      <4> HIDE DEF f
      <4> QED
        BY <1>1, <1>3, <4>1
    <3>2. CASE cmd.op = "read"
      <4>1. f = ts \/ f = [t \in 1..Len(ts) |->
                             IF t \in {cmd.topic} THEN [ts[t] EXCEPT !.read = ts[t].last] ELSE ts[t]]
        BY <1>1, <3>2 DEF Run, MarkReadToLast, Each, ReadToLast
      <4> HIDE DEF f
      <4> QED
        BY ZenonT(30), <1>1, <1>3, <4>1
    <3>3. CASE cmd.op = "readAll"
      BY <1>1, <1>3, <3>3 DEF Run, MarkAllRead, Each, ReadToLast
    <3>4. CASE cmd.op = "delete"
      BY <1>1, <1>3, <3>4 DEF Run, DeleteTopic, Each, Deleted
    <3>5. CASE cmd.op = "deleteAll"
      BY <1>1, <1>3, <3>5 DEF Run, DeleteAllTopics, Each, Deleted
    <3>6. CASE cmd.op = "retain"
      BY <1>1, <1>3, <3>6 DEF Run, RunRetention, Each
    <3> QED
      BY <1>2, <1>6, <3>1, <3>2, <3>3, <3>4, <3>5, <3>6
  <2> HIDE DEF f
  <2>2. f \in TopicList
    BY <2>1, TopicListUpdate
  <2> QED
    BY <2>2 DEF f
<1> QED
  BY <1>2, <1>4, <1>5, <1>6

LEMMA StoreInitInv == StoreInit => StoreInv
<1> SUFFICES ASSUME StoreInit PROVE StoreInv
  OBVIOUS
<1>1. topics \in Seq(Topic) /\ Len(topics) >= 1
  <2>1. <<>> \in Rows
    BY StoreAssumption DEF Rows
  <2>2. NewTopic("operation") \in Topic
    BY <2>1 DEF NewTopic, Topic, TopicRecord, Shown, Producers
  <2> QED
    BY <2>2 DEF StoreInit
<1>2. queue \in Seq(Command) /\ Len(queue) = 0 /\ QueueCap \in Nat
  BY StoreAssumption DEF StoreInit
<1>3. reader \in [Producers -> [pc: {"idle", "enqueue", "recheck"}, note: Nat, topic: {0, 1}]]
      /\ \A p \in Producers : reader[p].pc = "idle"
  BY DEF StoreInit, Idle
<1>4. request \in [Requesters -> Command \cup {NoCommand}]
  BY DEF StoreInit
<1>5. client \in [pc: {"list", "ask", "subscribe", "check", "sleep", "answer"}, epoch: Nat,
                 since: Nat, heard: BOOLEAN]
  BY DEF StoreInit, Unstarted
<1>6. left \in [notes: Nat, requests: Nat, fails: Nat, starts: Nat]
  BY StoreAssumption DEF StoreInit
<1>7. StoreTypes
  BY <1>1, <1>2, <1>3, <1>4, <1>5, <1>6 DEF StoreInit, StoreTypes
<1>8. PromiseInv
  BY DEF StoreInit, PromiseInv, AcceptedIsCarriedOut, Idle
<1> QED
  BY <1>7, <1>8 DEF StoreInv

\* What is appended to the queue is queued, and what was queued still is.
LEMMA QueuedAfterAppend ==
    ASSUME NEW cmd \in Command, queue \in Seq(Command), queue' = Append(queue, cmd)
    PROVE  /\ queue' \in Seq(Command) /\ Len(queue') = Len(queue) + 1
           /\ Queued \subseteq Queued' /\ ("note" \in DOMAIN cmd => cmd.note \in Queued')
<1>1. /\ queue' \in Seq(Command) /\ Len(queue') = Len(queue) + 1 /\ Len(queue) \in Nat
      /\ queue'[Len(queue) + 1] = cmd /\ \A i \in 1..Len(queue) : queue'[i] = queue[i]
  BY AppendProperties, LenProperties
<1>2. \A i \in 1..Len(queue) : i \in 1..Len(queue')
  BY <1>1
<1>3. Len(queue) + 1 \in 1..Len(queue')
  BY <1>1
<1> QED
  BY <1>1, <1>2, <1>3 DEF Queued

\* Of what was queued, only the command that is taken is queued no more.
LEMMA QueuedAfterTail ==
    ASSUME queue \in Seq(Command), queue # <<>>, queue' = Tail(queue)
    PROVE  /\ queue' \in Seq(Command) /\ Len(queue') = Len(queue) - 1 /\ Head(queue) \in Command
           /\ \A n \in Queued : n \in Queued' \/ ("note" \in DOMAIN Head(queue) /\ n = Head(queue).note)
<1>1. /\ queue' \in Seq(Command) /\ Len(queue') = Len(queue) - 1 /\ Len(queue) \in Nat
      /\ Head(queue) \in Command /\ Head(queue) = queue[1]
      /\ \A i \in 1..Len(queue') : queue'[i] = queue[i + 1]
  BY HeadTailProperties, LenProperties
<1>2. ASSUME NEW i \in 1..Len(queue), "note" \in DOMAIN queue[i]
      PROVE  queue[i].note \in Queued' \/ ("note" \in DOMAIN Head(queue) /\ queue[i].note = Head(queue).note)
  <2>1. CASE i = 1
    BY <1>1, <1>2, <2>1
  <2>2. CASE i # 1
    <3>1. i - 1 \in 1..Len(queue') /\ queue'[i - 1] = queue[i]
      BY <1>1, <2>2
    <3> QED
      BY <1>2, <3>1 DEF Queued
  <2> QED
    BY <2>1, <2>2
<1> QED
  BY <1>1, <1>2 DEF Queued

\* One of the bounds is used up.
LEMMA LeftAfter ==
    ASSUME NEW l \in [notes: Nat, requests: Nat, fails: Nat, starts: Nat]
    PROVE  LET T == [notes: Nat, requests: Nat, fails: Nat, starts: Nat]
           IN  /\ l.notes > 0 => [l EXCEPT !.notes = @ - 1] \in T
               /\ l.requests > 0 => [l EXCEPT !.requests = @ - 1] \in T
               /\ l.fails > 0 => [l EXCEPT !.fails = @ - 1] \in T
               /\ l.starts > 0 => [l EXCEPT !.starts = @ - 1] \in T
<1>1. /\ l.notes > 0 => l.notes - 1 \in Nat
      /\ l.requests > 0 => l.requests - 1 \in Nat
      /\ l.fails > 0 => l.fails - 1 \in Nat
      /\ l.starts > 0 => l.starts - 1 \in Nat
  OBVIOUS
<1> QED
  BY <1>1, Zenon

\* The readers up to the queue, and behind it.
LEMMA ReaderStep ==
    ASSUME StoreInv, NEW p \in Producers, Route(p) \/ EnqueueRefused(p) \/ EnqueueAnswers(p)
    PROVE  StoreInv'
<1> DEFINE Reader == [pc: {"idle", "enqueue", "recheck"}, note: Nat, topic: {0, 1}]
<1>1. UNCHANGED <<rows, work, life, epoch, request, browser, executed>> /\ Queued' = Queued
  BY DEF Route, EnqueueRefused, EnqueueAnswers, noteHist, work, Queued
<1>2. /\ \E x \in Reader : /\ x.pc \in {"idle", "enqueue"} /\ (x.pc # "idle" => x.note # 0)
                           /\ life = "down" => x.pc = "idle"
                           /\ reader' = [reader EXCEPT ![p] = x]
      /\ left' \in [notes: Nat, requests: Nat, fails: Nat, starts: Nat]
  <2>1. left.notes \in Nat /\ left \in [notes: Nat, requests: Nat, fails: Nat, starts: Nat]
        /\ Idle \in Reader /\ Idle.pc = "idle"
    BY DEF StoreInv, StoreTypes, Idle
  <2>2. CASE Route(p)
    <3>1. left.notes > 0 /\ left' = [left EXCEPT !.notes = @ - 1] /\ life # "down"
      BY <2>2 DEF Route
    <3>2. \E x \in {Idle, [pc |-> "enqueue", note |-> left.notes, topic |-> 0],
                    [pc |-> "enqueue", note |-> left.notes, topic |-> 1]} :
             reader' = [reader EXCEPT ![p] = x]
      BY <2>2, Zenon DEF Route
    <3>3. left' \in [notes: Nat, requests: Nat, fails: Nat, starts: Nat]
      BY <2>1, <3>1, LeftAfter
    <3>4. \A x \in {Idle, [pc |-> "enqueue", note |-> left.notes, topic |-> 0],
                   [pc |-> "enqueue", note |-> left.notes, topic |-> 1]} :
             x \in Reader /\ x.pc \in {"idle", "enqueue"} /\ (x.pc # "idle" => x.note # 0)
      BY <2>1, <3>1
    <3> QED
      BY <3>1, <3>2, <3>3, <3>4
  <2>3. CASE EnqueueRefused(p) \/ EnqueueAnswers(p)
    BY <2>1, <2>3 DEF EnqueueRefused, EnqueueAnswers
  <2> QED
    BY <2>2, <2>3
<1>3. /\ accepted' \subseteq executed \cup Queued
      /\ accepted' = accepted \/ (life = "up" /\ accepted' \subseteq Nat \ {0})
  <2>1. CASE EnqueueAnswers(p)
    BY <2>1 DEF EnqueueAnswers, StoreInv, StoreTypes, PromiseInv
  <2>2. CASE Route(p) \/ EnqueueRefused(p)
    BY <2>2 DEF Route, EnqueueRefused, StoreInv, PromiseInv, noteHist
  <2> QED
    BY <2>1, <2>2
<1>4. reader' \in [Producers -> Reader]
      /\ \A q \in Producers : /\ reader'[q].pc # "idle" => reader'[q].note # 0
                              /\ reader'[q].pc = "recheck" => reader'[q] = reader[q]
                              /\ life = "down" => reader'[q].pc = "idle"
  BY <1>2 DEF StoreInv, StoreTypes, PromiseInv
<1>5. StoreTypes'
  BY <1>1, <1>2, <1>3, <1>4 DEF StoreInv, StoreTypes, rows, work, browser
<1>6. PromiseInv'
  <2>1. (life = "down" => writing = "exited") /\ life' = life /\ writing' = writing /\ executed' = executed
    BY <1>1 DEF StoreInv, PromiseInv, work
  <2>2. AcceptedIsCarriedOut'
    BY <1>3, <2>1 DEF StoreInv, PromiseInv, AcceptedIsCarriedOut
  <2> QED
    BY <1>1, <1>3, <1>4, <2>1, <2>2 DEF StoreInv, PromiseInv
<1> QED
  BY <1>5, <1>6 DEF StoreInv

LEMMA EnqueueStep ==
    ASSUME StoreInv, NEW p \in Producers, Enqueue(p)
    PROVE  StoreInv'
<1> DEFINE Reader == [pc: {"idle", "enqueue", "recheck"}, note: Nat, topic: {0, 1}]
           cmd == AppendCommand(reader[p])
<1>1. /\ UNCHANGED <<rows, writing, life, epoch, request, browser, left, noteHist>>
      /\ life # "down" /\ Len(queue) < QueueCap /\ queue' = Append(queue, cmd)
      /\ reader' = [reader EXCEPT ![p].pc = "recheck"] /\ reader[p].pc = "enqueue"
      /\ queue \in Seq(Command)
  BY DEF Enqueue, StoreInv, StoreTypes
<1>2. cmd \in Command /\ "note" \in DOMAIN cmd /\ cmd.note = reader[p].note
  <2>1. reader[p].note \in Nat \ {0} /\ reader[p].topic \in {0, 1}
    BY <1>1 DEF StoreInv, StoreTypes
  <2> QED
    BY <2>1 DEF AppendCommand, Command
<1> HIDE DEF cmd
<1>3. /\ queue' \in Seq(Command) /\ Len(queue') = Len(queue) + 1
      /\ Queued \subseteq Queued' /\ reader[p].note \in Queued'
  BY <1>1, <1>2, QueuedAfterAppend
<1>4. /\ reader' \in [Producers -> Reader]
      /\ \A q \in Producers : reader'[q].note = reader[q].note
                              /\ (reader'[q].pc # reader[q].pc => q = p)
  BY ZenonT(30), <1>1 DEF StoreInv, StoreTypes
<1>5. StoreTypes'
  <2>1. Len(queue') <= QueueCap
    BY <1>1, <1>3, StoreAssumption, LenProperties
  <2>2. \A q \in Producers : reader'[q].pc # "idle" => reader'[q].note # 0
    BY <1>1, <1>4 DEF StoreInv, StoreTypes
  <2> QED
    BY <1>1, <1>3, <1>4, <2>1, <2>2 DEF StoreInv, StoreTypes, rows, browser, noteHist
<1>6. PromiseInv'
  <2>1. AcceptedIsCarriedOut'
    BY <1>1 DEF StoreInv, PromiseInv, AcceptedIsCarriedOut, noteHist
  <2>2. \A q \in Producers : life' = "up" /\ reader'[q].pc = "recheck" =>
                                reader'[q].note \in executed \cup Queued'
    BY <1>1, <1>3, <1>4 DEF StoreInv, PromiseInv
  <2> QED
    BY <1>1, <1>3, <2>1, <2>2 DEF StoreInv, PromiseInv, noteHist
<1> QED
  BY <1>5, <1>6 DEF StoreInv

LEMMA SubmitStep ==
    ASSUME StoreInv, NEW x \in Requesters, Submit(x) \/ SubmitEnqueues(x) \/ SubmitGivesUp(x)
    PROVE  StoreInv'
<1>1. UNCHANGED <<rows, writing, life, epoch, reader, browser, noteHist>>
  BY DEF Submit, SubmitEnqueues, SubmitGivesUp, work
<1>2. ASSUME life = "up" PROVE Commands(x) \subseteq Command
  <2>1. DOMAIN topics \subseteq Nat
    BY DEF StoreInv, StoreTypes
  <2> QED
    BY <2>1 DEF Commands, Command, Requesters
<1>3. request' \in [Requesters -> Command \cup {NoCommand}]
  <2>1. CASE Submit(x)
    BY <1>2, <2>1 DEF Submit, StoreInv, StoreTypes
  <2>2. CASE SubmitEnqueues(x) \/ SubmitGivesUp(x)
    BY <2>2 DEF SubmitEnqueues, SubmitGivesUp, StoreInv, StoreTypes
  <2> QED
    BY <2>1, <2>2
<1>4. left' \in [notes: Nat, requests: Nat, fails: Nat, starts: Nat]
  <2>1. CASE Submit(x)
    BY <2>1, LeftAfter DEF Submit, StoreInv, StoreTypes
  <2>2. CASE SubmitEnqueues(x) \/ SubmitGivesUp(x)
    BY <2>2 DEF SubmitEnqueues, SubmitGivesUp, StoreInv, StoreTypes
  <2> QED
    BY <2>1, <2>2
<1>5. queue' \in Seq(Command) /\ Len(queue') <= QueueCap /\ Queued \subseteq Queued'
  <2>1. CASE SubmitEnqueues(x)
    <3> DEFINE cmd == request[x]
    <3>1. cmd \in Command /\ queue \in Seq(Command) /\ queue' = Append(queue, cmd) /\ Len(queue) < QueueCap
      BY <2>1 DEF SubmitEnqueues, StoreInv, StoreTypes
    <3> HIDE DEF cmd
    <3>2. queue' \in Seq(Command) /\ Len(queue') = Len(queue) + 1 /\ Queued \subseteq Queued'
      BY <3>1, QueuedAfterAppend
    <3> QED
      BY <3>1, <3>2, StoreAssumption, LenProperties
  <2>2. CASE Submit(x) \/ SubmitGivesUp(x)
    BY <2>2 DEF Submit, SubmitGivesUp, work, Queued, StoreInv, StoreTypes
  <2> QED
    BY <2>1, <2>2
<1>6. StoreTypes'
  BY <1>1, <1>3, <1>4, <1>5 DEF StoreInv, StoreTypes, rows, browser, noteHist
<1>7. PromiseInv'
  BY <1>1, <1>5 DEF StoreInv, PromiseInv, AcceptedIsCarriedOut, noteHist
<1> QED
  BY <1>6, <1>7 DEF StoreInv

LEMMA ExecuteStep ==
    ASSUME StoreInv, Execute
    PROVE  StoreInv'
<1> DEFINE cmd == Head(queue)
           result == Run(cmd, topics)
<1>1. /\ UNCHANGED <<seq, life, epoch, sides, browser, accepted>>
      /\ life # "down" /\ writing = "idle" /\ queue # <<>> /\ queue' = Tail(queue)
      /\ topics' = result[1] \/ topics' = topics
      /\ writing' \in {"idle", "bump"}
      /\ executed' = IF "note" \in DOMAIN cmd THEN executed \cup {cmd.note} ELSE executed
  BY DEF Execute
<1>2. /\ queue \in Seq(Command) /\ queue' \in Seq(Command) /\ Len(queue') = Len(queue) - 1
      /\ cmd \in Command
      /\ \A n \in Queued : n \in Queued' \/ ("note" \in DOMAIN cmd /\ n = cmd.note)
  <2>1. queue \in Seq(Command)
    BY DEF StoreInv, StoreTypes
  <2> QED
    BY <1>1, <2>1, QueuedAfterTail
<1> HIDE DEF cmd
<1>3. topics' \in Seq(Topic) /\ Len(topics') >= 1
  <2>1. topics \in TopicList
    BY DEF StoreInv, StoreTypes, TopicList
  <2>2. topics' \in TopicList
    BY <1>1, <1>2, <2>1, RunKeepsTopics
  <2> QED
    BY <2>2 DEF TopicList
<1>4. left' \in [notes: Nat, requests: Nat, fails: Nat, starts: Nat]
  <2>1. left \in [notes: Nat, requests: Nat, fails: Nat, starts: Nat]
    BY DEF StoreInv, StoreTypes
  <2>2. left' = left \/ (left.fails > 0 /\ left' = [left EXCEPT !.fails = @ - 1])
    BY DEF Execute
  <2> QED
    BY <2>1, <2>2, LeftAfter
<1>5. "note" \in DOMAIN cmd => cmd.note \in Nat \ {0}
  BY <1>2 DEF Command
<1>6. StoreTypes'
  <2>1. Len(queue') <= QueueCap
    BY <1>2, LenProperties, StoreAssumption DEF StoreInv, StoreTypes
  <2>2. accepted' \cup executed' \subseteq Nat \ {0}
    BY <1>1, <1>5 DEF StoreInv, StoreTypes
  <2> HIDE DEF result
  <2> QED
    BY <1>1, <1>2, <1>3, <1>4, <2>1, <2>2 DEF StoreInv, StoreTypes, sides, browser
<1>7. executed \cup Queued \subseteq executed' \cup Queued' /\ executed \subseteq executed'
  BY <1>1, <1>2
<1>8. PromiseInv'
  <2> HIDE DEF result
  <2> QED
    BY <1>1, <1>7 DEF StoreInv, PromiseInv, AcceptedIsCarriedOut, sides
<1> QED
  BY <1>6, <1>8 DEF StoreInv

LEMMA WriterRestStep ==
    ASSUME StoreInv, Bump \/ SignalChange \/ WriterExits
    PROVE  StoreInv'
<1>1. UNCHANGED <<topics, queue, life, epoch, sides, view, left, noteHist>> /\ Queued' = Queued
  BY DEF Bump, SignalChange, WriterExits, rows, browser, Queued
<1>2. /\ seq' \in Nat
      /\ writing' \in {"idle", "signal", "exited"}
      /\ writing # "exited" \/ writing' = writing
      /\ writing' = "exited" => life = "stopping" /\ queue = <<>>
      /\ client' = client \/ client' = [client EXCEPT !.heard = TRUE]
  BY DEF Bump, SignalChange, WriterExits, StoreInv, StoreTypes, rows, browser
<1>3. StoreTypes'
  <2>1. client' \in [pc: {"list", "ask", "subscribe", "check", "sleep", "answer"}, epoch: Nat,
                    since: Nat, heard: BOOLEAN]
    BY <1>2 DEF StoreInv, StoreTypes
  <2> QED
    BY <1>1, <1>2, <2>1 DEF StoreInv, StoreTypes, sides, noteHist
<1>4. queue = <<>> => Queued = {}
  BY DEF Queued
<1>5. PromiseInv'
  BY <1>1, <1>2, <1>4 DEF StoreInv, StoreTypes, PromiseInv, AcceptedIsCarriedOut, sides,
     noteHist
<1> QED
  BY <1>3, <1>5 DEF StoreInv

LEMMA LifeStep ==
    ASSUME StoreInv, Open \/ CloseBegins \/ CloseStops
    PROVE  StoreInv'
<1>1. UNCHANGED <<topics, queue, sides, browser, noteHist>> /\ Queued' = Queued
  BY DEF Open, CloseBegins, CloseStops, rows, work, Queued
<1>2. CASE Open
  <2>1. left' \in [notes: Nat, requests: Nat, fails: Nat, starts: Nat]
    BY <1>2, LeftAfter DEF Open, StoreInv, StoreTypes
  <2>2. StoreTypes'
    BY SMTT(30), <1>1, <1>2, <2>1 DEF Open, StoreInv, StoreTypes, sides, browser, noteHist
  <2>3. PromiseInv'
    BY <1>1, <1>2 DEF Open, StoreInv, PromiseInv, AcceptedIsCarriedOut, sides, noteHist
  <2> QED
    BY <2>2, <2>3 DEF StoreInv
<1>3. CASE CloseBegins \/ CloseStops
  <2>1. StoreTypes'
    BY <1>1, <1>3 DEF CloseBegins, CloseStops, StoreInv, StoreTypes, rows, work, sides,
       browser, noteHist
  <2>2. PromiseInv'
    BY <1>1, <1>3 DEF CloseBegins, CloseStops, StoreInv, PromiseInv, AcceptedIsCarriedOut,
       work, sides, noteHist
  <2> QED
    BY <2>1, <2>2 DEF StoreInv
<1> QED
  BY <1>2, <1>3

LEMMA DownStep ==
    ASSUME StoreInv, Down
    PROVE  StoreInv'
<1>1. UNCHANGED <<rows, epoch, view, left, executed>> /\ life' = "down" /\ queue' = <<>> /\
                  writing' = "exited"
  BY DEF Down
<1>2. accepted' \subseteq accepted /\ accepted' \subseteq executed
  BY DEF Down, StoreInv, PromiseInv, AcceptedIsCarriedOut
<1>3. StoreTypes'
  <2>1. queue' \in Seq(Command) /\ Len(queue') <= QueueCap
    BY <1>1, StoreAssumption
  <2>2. client' \in [pc: {"list", "ask", "subscribe", "check", "sleep", "answer"}, epoch: Nat,
                    since: Nat, heard: BOOLEAN]
    BY DEF Down, StoreInv, StoreTypes
  <2>3. /\ reader' \in [Producers -> [pc: {"idle", "enqueue", "recheck"}, note: Nat, topic: {0, 1}]]
        /\ \A p \in Producers : reader'[p].pc = "idle"
        /\ request' \in [Requesters -> Command \cup {NoCommand}]
    BY DEF Down, Idle
  <2> QED
    BY <1>1, <1>2, <2>1, <2>2, <2>3 DEF StoreInv, StoreTypes, rows
<1>4. PromiseInv'
  BY <1>1, <1>2 DEF Down, PromiseInv, AcceptedIsCarriedOut, Idle
<1> QED
  BY <1>3, <1>4 DEF StoreInv

LEMMA ClientStepInv ==
    ASSUME StoreInv, ClientStep \/ ClientTimesOut
    PROVE  StoreInv'
<1> USE DEF ClientStep, ClientLists, ClientAsks, ClientSubscribes, ClientChecks, ClientWakes,
        ClientAnswered, ClientTimesOut, Goto
<1>1. UNCHANGED <<rows, work, life, epoch, sides, left, noteHist>> /\ Queued' = Queued
  BY DEF work, Queued
<1>2. client' \in [pc: {"list", "ask", "subscribe", "check", "sleep", "answer"}, epoch: Nat,
                  since: Nat, heard: BOOLEAN]
  BY DEF StoreInv, StoreTypes
<1>3. StoreTypes'
  <2> USE DEF StoreTypes
  <2> QED
    BY <1>1, <1>2, Zenon DEF StoreInv, rows, work, sides, noteHist
<1>4. PromiseInv'
  BY <1>1, Zenon DEF StoreInv, PromiseInv, AcceptedIsCarriedOut, work, sides, noteHist
<1> QED
  BY <1>3, <1>4 DEF StoreInv

LEMMA StoreStepInv == StoreInv /\ [StoreNext]_storeVars => StoreInv'
<1> SUFFICES ASSUME StoreInv, [StoreNext]_storeVars PROVE StoreInv'
  OBVIOUS
<1>1. CASE UNCHANGED storeVars
  BY <1>1 DEF storeVars, rows, work, sides, browser, noteHist, StoreInv, StoreTypes, PromiseInv,
     AcceptedIsCarriedOut, Queued
<1>2. CASE StoreNext
  BY <1>2, ReaderStep, EnqueueStep, SubmitStep, ExecuteStep, WriterRestStep, LifeStep, DownStep,
     ClientStepInv DEF StoreNext, WriterStep
<1> QED
  BY <1>1, <1>2

-----------------------------------------------------------------------------
(* Both feeds. *)

IInv == feed \in {"events", "topics"} /\ EventInv /\ StoreInv

LEMMA InitIInv == Init => IInv
BY EventInitInv, StoreInitInv DEF Init, IInv

LEMMA NextIInv == IInv /\ [Next]_vars => IInv'
<1> SUFFICES ASSUME IInv, [Next]_vars PROVE IInv'
  OBVIOUS
<1>1. feed' = feed /\ [EventNext]_eventVars /\ [StoreNext]_storeVars
  BY DEF Next, vars
<1> QED
  BY <1>1, EventStepInv, StoreStepInv DEF IInv

\* The inductive invariant holds of every reachable state; the theorems below rest on it.
THEOREM SpecIInv == Spec => []IInv
BY InitIInv, NextIInv, PTL DEF Spec

\* The ring never holds more than its capacity, nor does a page exceed its limit, nor the
\* queue of the writer its own; no topic keeps more rows than it may or is read beyond its
\* last row.
THEOREM TypeCorrect == Spec => []TypeOK
<1>1. IInv => TypeOK
  <2> SUFFICES ASSUME IInv PROVE TypeOK
    OBVIOUS
  <2>1. ASSUME NEW t \in DOMAIN topics
        PROVE  /\ topics[t].source \in Producers
               /\ topics[t].status \in Shown \cup {"deleted", "purged"}
               /\ topics[t].read <= topics[t].last
               /\ Len(topics[t].rows) <= TopicCap
    <3>1. topics[t] \in Topic
      BY ElementOfSeq DEF IInv, StoreInv, StoreTypes
    <3>2. topics[t] \in TopicRecord /\ topics[t].read <= topics[t].last
      BY <3>1 DEF Topic
    <3>3. topics[t].rows \in Rows
      BY <3>2 DEF TopicRecord
    <3> QED
      BY <3>2, <3>3 DEF TopicRecord, Rows
  <2>2. StoreTypeOK
    BY <2>1 DEF StoreTypeOK, IInv, StoreInv, StoreTypes
  <2> QED
    BY <2>2 DEF TypeOK, IInv, EventInv
<1> QED
  BY <1>1, SpecIInv, PTL

\* A client that follows next_since is sent every event that is in the ring when it asks
\* for newer ones, but for those that were overtaken or came while an empty answer was
\* under way.
THEOREM EveryEventIsSent == Spec => []NothingIsSkipped
<1>1. IInv => NothingIsSkipped
  BY DEF IInv, EventInv
<1> QED
  BY <1>1, SpecIInv, PTL

\* A notification for which TryEnqueue has answered true has been carried out when the
\* writer has ended, however supd was closed meanwhile.
THEOREM AcceptedNotesAreCarriedOut == Spec => []AcceptedIsCarriedOut
<1>1. IInv => AcceptedIsCarriedOut
  BY DEF IInv, StoreInv, PromiseInv
<1> QED
  BY <1>1, SpecIInv, PTL
=============================================================================
