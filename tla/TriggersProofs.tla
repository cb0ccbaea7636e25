---------------------------- MODULE TriggersProofs ----------------------------
(***************************************************************************)
(* What TLAPS proves of the schedule, of the dispatches and of the history *)
(* of runs: for any extensions, services and runs, any number of retries,  *)
(* and however often the configuration is reloaded.                        *)
(***************************************************************************)
EXTENDS Triggers, TLAPS, FiniteSetTheorems

-----------------------------------------------------------------------------
(* The schedule: the invariant. *)

\* Every slot is free or holds a run, with all a run has.
SlotsAreTyped == slot \in [Slots -> Busy \cup {Free}]

\* The runs of an action that may still end, and with it give back their share.
Claims(k) == {s \in Busies : slot[s].key = k}

\* What a run has not given back of the budget: that of those under way, or that of the
\* last one if it left a count behind.
Held(k) ==
    IF Cardinality(Claims(k)) = 0 /\ attempts[k] > 0 THEN 1 ELSE Cardinality(Claims(k))

\* The retries granted since the last reload were paid by the runs that have ended, but
\* for those the count still shows: the count is cleared by a run that ends.
Paid(k) ==
    /\ Held(k) <= due[k]
    /\ used[k] <= MaxRetries * (due[k] - Held(k)) + attempts[k]

\* Once the clock's jobs have been waited for, none of them is left, nor comes.
JobsAreOver == shut \in {"wait", "exited"} /\ ~cutShort => \A s \in Slots : ~InJob(s)

CronInv ==
    /\ CronTypeOK
    /\ SlotsAreTyped
    /\ IsFiniteSet(Busies)
    /\ \A k \in Keys : Paid(k)
    /\ JobsAreOver

-----------------------------------------------------------------------------
(* The schedule: what a step does to the slots. *)

LEMMA Times ==
    ASSUME NEW m \in Nat, NEW x \in Nat, NEW y \in Nat, x <= y
    PROVE  m * x \in Nat /\ m * x <= m * y /\ m * (x + 1) = m * x + m
<1>1. PICK z \in Nat : y = x + z
  <2>1. y - x \in Nat /\ y = x + (y - x)
    OBVIOUS
  <2> QED
    BY <2>1
<1>2. m * y = m * x + m * z /\ m * z \in Nat /\ m * x \in Nat
  BY <1>1
<1>3. m * (x + 1) = m * x + m
  OBVIOUS
<1> QED
  BY <1>2, <1>3

LEMMA BusyIsNotFree == \A b \in Busy : b # Free /\ b.pc # "free"
BY DEF Busy, Free

\* A run goes on in its slot.
LEMMA GoesOn ==
    ASSUME SlotsAreTyped, NEW s \in Slots, slot[s].pc # "free", NEW v \in Busy,
           v.key = slot[s].key, slot' = [slot EXCEPT ![s] = v]
    PROVE  SlotsAreTyped' /\ Busies' = Busies /\ \A k \in Keys : Claims(k)' = Claims(k)
<1>1. \A x \in Slots : /\ slot'[x].pc = "free" <=> slot[x].pc = "free"
                       /\ slot'[x].key = slot[x].key
  BY BusyIsNotFree DEF SlotsAreTyped
<1>2. SlotsAreTyped'
  BY DEF SlotsAreTyped
<1> QED
  BY <1>1, <1>2 DEF Busies, Claims

\* A run leaves its slot.
LEMMA Leaves ==
    ASSUME SlotsAreTyped, NEW s \in Slots, slot' = [slot EXCEPT ![s] = Free]
    PROVE  SlotsAreTyped' /\ Busies' = Busies \ {s} /\ \A k \in Keys : Claims(k)' = Claims(k) \ {s}
<1>1. /\ slot'[s] = Free /\ slot'[s].pc = "free"
      /\ \A x \in Slots \ {s} : slot'[x] = slot[x]
  BY DEF SlotsAreTyped, Free
<1>2. SlotsAreTyped'
  BY DEF SlotsAreTyped
<1>3. Busies' = Busies \ {s}
  BY <1>1 DEF Busies
<1> QED
  BY <1>1, <1>2, <1>3 DEF Busies, Claims

\* A run takes a free slot.
LEMMA Takes ==
    ASSUME SlotsAreTyped, NEW s \in Slots, slot[s] = Free, NEW v \in Busy,
           slot' = [slot EXCEPT ![s] = v]
    PROVE  /\ SlotsAreTyped' /\ Busies' = Busies \cup {s} /\ s \notin Busies
           /\ Claims(v.key)' = Claims(v.key) \cup {s}
           /\ \A k \in Keys : k # v.key => Claims(k)' = Claims(k)
<1>1. /\ slot'[s] = v /\ v.pc # "free" /\ slot[s].pc = "free"
      /\ \A x \in Slots \ {s} : slot'[x] = slot[x]
  BY BusyIsNotFree DEF SlotsAreTyped, Free
<1>2. SlotsAreTyped'
  BY DEF SlotsAreTyped
<1>3. Busies' = Busies \cup {s} /\ s \notin Busies
  BY <1>1 DEF Busies
<1> QED
  BY <1>1, <1>2, <1>3 DEF Busies, Claims

\* The claims are finitely many.
LEMMA ClaimsAreFew ==
    ASSUME IsFiniteSet(Busies), NEW k
    PROVE  /\ IsFiniteSet(Claims(k)) /\ Cardinality(Claims(k)) \in Nat
           /\ \A s \in Claims(k) : /\ Cardinality(Claims(k)) >= 1
                                   /\ Cardinality(Claims(k) \ {s}) = Cardinality(Claims(k)) - 1
           /\ \A s : s \notin Claims(k) => Cardinality(Claims(k) \cup {s}) = Cardinality(Claims(k)) + 1
<1>1. Claims(k) \subseteq Busies
  BY DEF Claims
<1>2. IsFiniteSet(Claims(k)) /\ Cardinality(Claims(k)) \in Nat
  BY <1>1, FS_Subset, FS_CardinalityType
<1>3. \A s \in Claims(k) : Cardinality(Claims(k) \ {s}) = Cardinality(Claims(k)) - 1
  BY <1>2, FS_RemoveElement
<1>4. \A s \in Claims(k) : Cardinality(Claims(k)) >= 1
  BY <1>2, FS_EmptySet
<1>5. \A s : s \notin Claims(k) => Cardinality(Claims(k) \cup {s}) = Cardinality(Claims(k)) + 1
  BY <1>2, FS_AddElement
<1> QED
  BY <1>2, <1>3, <1>4, <1>5
-----------------------------------------------------------------------------
(* The schedule: what a step does to the budget. *)

\* The numbers a budget is made of.
LEMMA Numbers ==
    ASSUME CronInv, NEW k \in Keys
    PROVE  /\ MaxRetries \in Nat /\ attempts[k] \in 0..MaxRetries /\ due[k] \in Nat /\ used[k] \in Nat
           /\ Cardinality(Claims(k)) \in Nat /\ Held(k) \in Nat /\ due[k] - Held(k) \in Nat
           /\ Cardinality(Claims(k)) <= Held(k)
           /\ attempts[k] > 0 => Held(k) >= 1
<1>1. MaxRetries \in Nat /\ attempts[k] \in 0..MaxRetries /\ due[k] \in Nat /\ used[k] \in Nat
  BY CronAssumption DEF CronInv, CronTypeOK
<1>2. Cardinality(Claims(k)) \in Nat
  BY ClaimsAreFew DEF CronInv
<1>3. /\ Held(k) \in Nat /\ Cardinality(Claims(k)) <= Held(k)
      /\ attempts[k] > 0 => Held(k) >= 1
  BY <1>1, <1>2 DEF Held
<1>4. Held(k) <= due[k]
  BY DEF CronInv, Paid
<1> QED
  BY <1>1, <1>2, <1>3, <1>4

\* Whoever holds no more, of no fewer runs, with no fewer retries to count, has paid.
LEMMA PaidStill ==
    ASSUME CronInv, NEW k \in Keys, due'[k] \in Nat, Held(k)' \in Nat, attempts'[k] \in Nat,
           used'[k] \in Nat, NEW n \in Int, used'[k] = used[k] + n, attempts'[k] = attempts[k] + n,
           Held(k)' <= due'[k], due[k] - Held(k) <= due'[k] - Held(k)'
    PROVE  Paid(k)'
<1>1. used[k] <= MaxRetries * (due[k] - Held(k)) + attempts[k]
  BY DEF CronInv, Paid
<1> DEFINE x == due[k] - Held(k)
           y == due'[k] - Held(k)'
<1>2. MaxRetries \in Nat /\ x \in Nat /\ y \in Nat /\ x <= y /\ attempts[k] \in Nat /\ used[k] \in Nat
  BY Numbers
<1>3. MaxRetries * x \in Nat /\ MaxRetries * y \in Nat /\ MaxRetries * x <= MaxRetries * y
  <2> HIDE DEF x, y
  <2> QED
    BY <1>2, Times
<1>4. used'[k] <= MaxRetries * y + attempts'[k]
  <2>1. used[k] <= MaxRetries * x + attempts[k]
    BY <1>1
  <2> HIDE DEF x, y
  <2> QED
    BY <2>1, <1>2, <1>3
<1> QED
  BY <1>4 DEF Paid

\* A run that goes on in its slot, counted once more or not.
LEMMA PaidGoesOn ==
    ASSUME CronInv, NEW s \in Slots, slot[s].pc # "free", NEW v \in Busy, v.key = slot[s].key,
           slot' = [slot EXCEPT ![s] = v], UNCHANGED due, used' \in [Keys -> Nat],
           attempts' \in [Keys -> 0..MaxRetries],
           \/ UNCHANGED <<attempts, used>>
           \/ /\ attempts' = [attempts EXCEPT ![slot[s].key] = @ + 1]
              /\ used' = [used EXCEPT ![slot[s].key] = @ + 1]
    PROVE  SlotsAreTyped' /\ IsFiniteSet(Busies') /\ \A k \in Keys : Paid(k)'
<1>1. SlotsAreTyped' /\ Busies' = Busies /\ \A k \in Keys : Claims(k)' = Claims(k)
  BY GoesOn DEF CronInv
<1>2. ASSUME NEW k \in Keys PROVE Paid(k)'
  <2>1. Claims(k)' = Claims(k)
    BY <1>1
  <2>2. PICK n \in {0, 1} : /\ used'[k] = used[k] + n /\ attempts'[k] = attempts[k] + n
                            /\ n = 1 => k = slot[s].key
    BY Numbers DEF CronInv, CronTypeOK
  <2>3. n = 1 => s \in Claims(k)
    BY <2>2 DEF Claims, Busies
  <2>4. n = 1 => Cardinality(Claims(k)) >= 1
    BY <2>3, ClaimsAreFew DEF CronInv
  <2>5. Held(k)' = Held(k)
    BY <2>1, <2>2, <2>4, Numbers DEF Held
  <2> QED
    BY <2>2, <2>5, Numbers, PaidStill
<1> QED
  BY <1>1, <1>2 DEF CronInv

\* A run that ends gives back its share, with the count or without it.
LEMMA PaidLeaves ==
    ASSUME CronInv, NEW s \in Slots, slot[s].pc # "free", slot[s].key \in Keys,
           slot' = [slot EXCEPT ![s] = Free], UNCHANGED <<due, used>>,
           \/ UNCHANGED attempts
           \/ attempts' = [attempts EXCEPT ![slot[s].key] = 0]
    PROVE  SlotsAreTyped' /\ IsFiniteSet(Busies') /\ \A k \in Keys : Paid(k)'
<1>1. /\ SlotsAreTyped' /\ Busies' = Busies \ {s}
      /\ \A k \in Keys : Claims(k)' = Claims(k) \ {s}
  BY Leaves DEF CronInv
<1>2. IsFiniteSet(Busies')
  BY <1>1, FS_Subset DEF CronInv
<1>3. ASSUME NEW k \in Keys, k # slot[s].key PROVE Paid(k)'
  <2>1. Claims(k)' = Claims(k) /\ attempts'[k] = attempts[k]
    BY <1>1, <1>3 DEF Claims, CronInv, CronTypeOK
  <2>2. Held(k)' = Held(k)
    BY <2>1 DEF Held
  <2> QED
    BY <2>1, <2>2, <1>3, Numbers, PaidStill
<1>4. ASSUME NEW k \in Keys, k = slot[s].key PROVE Paid(k)'
  <2>1. s \in Claims(k)
    BY <1>4 DEF Claims, Busies
  <2> DEFINE c == Cardinality(Claims(k))
             d == due[k]
  <2>2. c \in Nat /\ c >= 1 /\ Cardinality(Claims(k)') = c - 1
    BY <2>1, <1>1, ClaimsAreFew DEF CronInv
  <2>3. Held(k) = c
    BY <2>2 DEF Held
  <2> HIDE DEF c
  <2>4. CASE attempts'[k] = attempts[k]
    <3>1. Held(k)' \in Nat /\ Held(k)' <= c
      BY <2>2, <2>4, Numbers DEF Held
    <3> QED
      BY <2>3, <2>4, <3>1, Numbers, PaidStill
  <2>5. CASE attempts'[k] = 0
    <3>1. Held(k)' = c - 1
      BY <2>2, <2>5 DEF Held
    <3>2. d \in Nat /\ c <= d /\ d - c \in Nat /\ used[k] \in Nat /\ attempts[k] \in 0..MaxRetries
          /\ MaxRetries \in Nat
      BY <2>3, Numbers
    <3>3. used[k] <= MaxRetries * (d - c) + attempts[k]
      BY <2>3 DEF CronInv, Paid
    <3>4. /\ MaxRetries * (d - c) \in Nat
          /\ MaxRetries * ((d - c) + 1) = MaxRetries * (d - c) + MaxRetries
      BY <3>2, Times
    <3>5. d - (c - 1) = (d - c) + 1
      BY <2>2, <3>2
    <3>6. used[k] <= MaxRetries * (d - (c - 1)) + 0
      BY <3>2, <3>3, <3>4, <3>5
    <3> QED
      BY <2>2, <2>5, <3>1, <3>2, <3>6 DEF Paid
  <2> QED
    BY <1>4, <2>4, <2>5 DEF CronInv, CronTypeOK
<1> QED
  BY <1>1, <1>2, <1>3, <1>4
-----------------------------------------------------------------------------
(* The schedule: the invariant is kept. *)

LEMMA CronBegins == CronInit => CronInv
<1> SUFFICES ASSUME CronInit PROVE CronInv
  OBVIOUS
<1>1. CronTypeOK
  <2>1. /\ None \in Nat /\ gen = 0 /\ gen \in 0..MaxReloads /\ fires \in 0..MaxFires
        /\ 0 \in 0..MaxRetries /\ 0 \in 0..None
    BY CronAssumption DEF CronInit, None
  <2>2. /\ entries \in [Keys -> 0..None] /\ \A k \in Keys : entries[k] \in {gen, None}
        /\ attempts \in [Keys -> 0..MaxRetries]
    BY <2>1 DEF CronInit
  <2>3. due \in [Keys -> Nat] /\ used \in [Keys -> Nat]
    BY DEF CronInit
  <2> QED
    BY <2>1, <2>2, <2>3 DEF CronInit, CronTypeOK
<1>2. SlotsAreTyped
  BY DEF CronInit, SlotsAreTyped
<1>3. Busies = {} /\ \A k \in Keys : Claims(k) = {}
  BY DEF CronInit, Busies, Claims, Free
<1>4. IsFiniteSet(Busies)
  BY <1>3, FS_EmptySet
<1>5. ASSUME NEW k \in Keys PROVE Paid(k)
  <2>1. Cardinality(Claims(k)) = 0 /\ attempts[k] = 0 /\ used[k] = 0 /\ due[k] = 0
    BY <1>3, FS_EmptySet DEF CronInit
  <2>2. Held(k) = 0 /\ due[k] - Held(k) = 0
    BY <2>1 DEF Held
  <2>3. MaxRetries * 0 = 0
    BY CronAssumption
  <2> QED
    BY <2>1, <2>2, <2>3 DEF Paid
<1>6. JobsAreOver
  BY DEF CronInit, JobsAreOver
<1> QED
  BY <1>1, <1>2, <1>4, <1>5, <1>6 DEF CronInv

LEMMA CronStays == CronInv /\ UNCHANGED cronVars => CronInv'
<1> SUFFICES ASSUME CronInv, UNCHANGED cronVars PROVE CronInv'
  OBVIOUS
<1>1. Busies' = Busies /\ \A k \in Keys : Claims(k)' = Claims(k)
  BY DEF cronVars, Busies, Claims
<1>2. \A k \in Keys : Paid(k)'
  BY <1>1 DEF cronVars, CronInv, Paid, Held
<1> QED
  BY <1>1, <1>2 DEF cronVars, CronInv, CronTypeOK, SlotsAreTyped, JobsAreOver, InJob

\* A run is one of the runs there may be; each of its fields has its type.
LEMMA RunIsTyped ==
    ASSUME CronInv, NEW s \in Slots, slot[s].pc # "free"
    PROVE  slot[s] \in Busy /\ slot[s].key \in Keys
BY DEF CronInv, CronTypeOK, Busy, Free

\* What changes one slot, and lets no job of the clock appear, leaves them over.
LEMMA OverStays ==
    ASSUME CronInv, NEW s \in Slots, NEW v, slot' = [slot EXCEPT ![s] = v],
           UNCHANGED <<shut, cutShort>>,
           (v.pc \in {"run", "handle", "exhaust"} /\ ~v.retry) =>
              InJob(s) \/ shut \in {"up", "cron"}
    PROVE  JobsAreOver'
<1>1. \A x \in Slots : x # s => slot'[x] = slot[x]
  BY DEF CronInv, SlotsAreTyped
<1>2. slot'[s] = v
  BY DEF CronInv, SlotsAreTyped
<1> QED
  BY <1>1, <1>2 DEF CronInv, JobsAreOver, InJob

LEMMA FireKeeps ==
    ASSUME CronInv, NEW k \in Keys, NEW s \in Slots, Fire(k, s)
    PROVE  CronInv'
<1> DEFINE v == [pc |-> "run", key |-> k, retry |-> FALSE, ctx |-> gen, failed |-> FALSE]
<1>1. v \in Busy /\ v.key = k /\ v.pc = "run"
  BY DEF CronInv, CronTypeOK, Busy
<1>2. /\ slot' = [slot EXCEPT ![s] = v] /\ slot[s] = Free /\ cron = "on"
      /\ due' = [due EXCEPT ![k] = @ + 1] /\ fires' \in 0..MaxFires
      /\ UNCHANGED <<entries, attempts, gen, todo, cron, shut, awaited, used, cutShort>>
  BY CronAssumption DEF Fire, Set, CronInv, CronTypeOK
<1> HIDE DEF v
<1>3. /\ SlotsAreTyped' /\ Busies' = Busies \cup {s} /\ s \notin Busies
      /\ Claims(k)' = Claims(k) \cup {s}
      /\ \A j \in Keys : j # k => Claims(j)' = Claims(j)
  BY <1>1, <1>2, Takes DEF CronInv
<1>4. IsFiniteSet(Busies')
  BY <1>3, FS_AddElement DEF CronInv
<1>5. CronTypeOK'
  BY <1>2, <1>3 DEF CronInv, CronTypeOK, SlotsAreTyped
<1>6. ASSUME NEW j \in Keys, j # k PROVE Paid(j)'
  <2>1. Claims(j)' = Claims(j) /\ due'[j] = due[j]
    BY <1>2, <1>3, <1>6 DEF CronInv, CronTypeOK
  <2>2. Held(j)' = Held(j)
    BY <1>2, <2>1 DEF Held
  <2>3. used'[j] = used[j] + 0 /\ attempts'[j] = attempts[j] + 0
    BY <1>2, Numbers
  <2>4. Held(j)' \in Nat /\ due'[j] \in Nat /\ Held(j)' <= due'[j]
    BY <2>1, <2>2, Numbers
  <2>5. attempts'[j] \in Nat /\ used'[j] \in Nat /\ due[j] - Held(j) <= due'[j] - Held(j)'
    BY <1>2, <2>1, <2>2, Numbers
  <2> QED
    BY <2>3, <2>4, <2>5, PaidStill
<1>7. Paid(k)'
  <2>1. s \notin Claims(k)
    BY <1>3 DEF Claims
  <2>2. Cardinality(Claims(k)') = Cardinality(Claims(k)) + 1
    BY <1>3, <2>1, ClaimsAreFew DEF CronInv
  <2>3. due'[k] = due[k] + 1
    BY <1>2 DEF CronInv, CronTypeOK
  <2>4. Held(k)' \in Nat /\ Held(k)' <= Held(k) + 1
    BY <1>2, <2>2, Numbers DEF Held
  <2>5. \A h, d, g \in Nat : h <= d /\ g <= h + 1 => g <= d + 1 /\ d - h <= (d + 1) - g
    OBVIOUS
  <2>6. due'[k] \in Nat /\ Held(k)' <= due'[k] /\ due[k] - Held(k) <= due'[k] - Held(k)'
    <3>1. Held(k) \in Nat /\ due[k] \in Nat /\ Held(k) <= due[k]
      BY Numbers
    <3>2. Held(k)' <= due[k] + 1 /\ due[k] - Held(k) <= (due[k] + 1) - Held(k)'
      BY <3>1, <2>4, <2>5
    <3> QED
      BY <3>1, <3>2, <2>3
  <2>7. used'[k] = used[k] + 0 /\ attempts'[k] = attempts[k] + 0
    BY <1>2, Numbers
  <2> QED
    BY <1>2, <2>4, <2>6, <2>7, Numbers, PaidStill
<1>8. JobsAreOver'
  <2>1. shut = "up"
    BY <1>2 DEF CronInv, CronTypeOK
  <2> QED
    BY <1>2, <2>1, OverStays
<1> QED
  BY <1>3, <1>4, <1>5, <1>6, <1>7, <1>8 DEF CronInv

\* The steps of a run in its slot that let it go on.
LEMMA StepKeeps ==
    ASSUME CronInv, NEW s \in Slots, slot[s].pc # "free", NEW v \in Busy,
           v.key = slot[s].key, slot' = [slot EXCEPT ![s] = v],
           (v.pc \in {"run", "handle", "exhaust"} /\ ~v.retry) => InJob(s),
           awaited' \subseteq Slots,
           \/ UNCHANGED <<attempts, used>>
           \/ /\ attempts[slot[s].key] < MaxRetries
              /\ attempts' = [attempts EXCEPT ![slot[s].key] = @ + 1]
              /\ used' = [used EXCEPT ![slot[s].key] = @ + 1],
           UNCHANGED <<entries, gen, todo, cron, shut, fires, due, cutShort>>
    PROVE  CronInv'
<1>1. attempts' \in [Keys -> 0..MaxRetries] /\ used' \in [Keys -> Nat]
  BY CronAssumption DEF CronInv, CronTypeOK
<1>2. SlotsAreTyped' /\ IsFiniteSet(Busies') /\ \A k \in Keys : Paid(k)'
  BY <1>1, PaidGoesOn
<1>3. CronTypeOK'
  BY <1>1, <1>2 DEF CronInv, CronTypeOK, SlotsAreTyped
<1>4. JobsAreOver'
  BY OverStays
<1> QED
  BY <1>2, <1>3, <1>4 DEF CronInv

\* And those that end it.
LEMMA EndKeeps ==
    ASSUME CronInv, NEW s \in Slots, slot[s].pc # "free", slot' = [slot EXCEPT ![s] = Free],
           awaited' \subseteq Slots,
           \/ UNCHANGED attempts
           \/ attempts' = [attempts EXCEPT ![slot[s].key] = 0],
           UNCHANGED <<entries, gen, todo, cron, shut, fires, due, used, cutShort>>
    PROVE  CronInv'
<1>1. attempts' \in [Keys -> 0..MaxRetries]
  BY CronAssumption DEF CronInv, CronTypeOK
<1>2. SlotsAreTyped' /\ IsFiniteSet(Busies') /\ \A k \in Keys : Paid(k)'
  BY RunIsTyped, PaidLeaves
<1>3. CronTypeOK'
  BY <1>1, <1>2 DEF CronInv, CronTypeOK, SlotsAreTyped
<1>4. JobsAreOver'
  BY OverStays DEF Free
<1> QED
  BY <1>2, <1>3, <1>4 DEF CronInv
\* The runs, in their slots: each step lets one go on or ends it.
LEMMA RunKeeps ==
    ASSUME CronInv, NEW s \in Slots,
           JobEnds(s) \/ HandleResult(s) \/ ForgetAttempts(s) \/ ExecuteRetry(s) \/ RetryDropped(s)
    PROVE  CronInv'
<1>1. awaited \subseteq Slots
  BY DEF CronInv, CronTypeOK
<1>2. slot[s].pc # "free"
  BY DEF JobEnds, HandleResult, ForgetAttempts, ExecuteRetry, RetryDropped
<1>3. /\ slot[s] \in Busy /\ slot[s].retry \in BOOLEAN /\ slot[s].ctx \in 0..MaxReloads
      /\ slot[s].key \in Keys /\ gen \in 0..MaxReloads
  BY <1>2, RunIsTyped DEF Busy, CronInv, CronTypeOK
<1>4. CASE JobEnds(s)
  <2>1. CASE slot' = [slot EXCEPT ![s] = Free]
    BY <1>1, <1>2, <1>4, <2>1, EndKeeps DEF JobEnds
  <2>2. ASSUME NEW failed \in BOOLEAN,
               slot' = [slot EXCEPT ![s] = [slot[s] EXCEPT !.pc = "handle", !.failed = failed]]
        PROVE  CronInv'
    <3> DEFINE v == [slot[s] EXCEPT !.pc = "handle", !.failed = failed]
    <3>1. v \in Busy /\ v.key = slot[s].key /\ v.retry = slot[s].retry
      BY <1>3, <2>2 DEF Busy
    <3>2. InJob(s) \/ slot[s].retry
      BY <1>4 DEF JobEnds, InJob
    <3>3. slot' = [slot EXCEPT ![s] = v]
      BY <2>2
    <3> HIDE DEF v
    <3> QED
      BY <1>1, <1>2, <1>4, <3>1, <3>2, <3>3, StepKeeps DEF JobEnds
  <2> QED
    BY <1>4, <2>1, <2>2 DEF JobEnds, Set
<1>5. CASE HandleResult(s)
  <2>1. CASE slot[s].failed /\ attempts[slot[s].key] < MaxRetries
    <3> DEFINE v == [slot[s] EXCEPT !.pc = "wait", !.ctx = gen]
    <3>1. v \in Busy /\ v.key = slot[s].key /\ v.pc = "wait"
      BY <1>3 DEF Busy
    <3>2. /\ slot' = [slot EXCEPT ![s] = v]
          /\ attempts' = [attempts EXCEPT ![slot[s].key] = @ + 1]
          /\ used' = [used EXCEPT ![slot[s].key] = @ + 1]
          /\ UNCHANGED <<entries, gen, todo, cron, shut, awaited, fires, due, cutShort>>
      BY <1>5, <2>1 DEF HandleResult, Set
    <3> HIDE DEF v
    <3> QED
      BY <1>1, <1>2, <2>1, <3>1, <3>2, StepKeeps
  <2>2. CASE ~(slot[s].failed /\ attempts[slot[s].key] < MaxRetries)
    <3>1. /\ slot' = [slot EXCEPT ![s].pc = "exhaust"] \/ slot' = [slot EXCEPT ![s] = Free]
          /\ UNCHANGED <<entries, gen, todo, cron, shut, awaited, fires, due, cutShort,
                         attempts, used>>
      BY <1>5, <2>2 DEF HandleResult, Set, Go
    <3>2. CASE slot' = [slot EXCEPT ![s] = Free]
      BY <1>1, <1>2, <3>1, <3>2, EndKeeps
    <3>3. CASE slot' = [slot EXCEPT ![s].pc = "exhaust"]
      <4> DEFINE v == [slot[s] EXCEPT !.pc = "exhaust"]
      <4>1. v \in Busy /\ v.key = slot[s].key /\ v.retry = slot[s].retry
        BY <1>3 DEF Busy
      <4>2. InJob(s) \/ slot[s].retry
        BY <1>5 DEF HandleResult, InJob
      <4>3. slot' = [slot EXCEPT ![s] = v]
        BY <3>3
      <4> HIDE DEF v
      <4> QED
        BY <1>1, <1>2, <3>1, <4>1, <4>2, <4>3, StepKeeps
    <3> QED
      BY <3>1, <3>2, <3>3
  <2> QED
    BY <2>1, <2>2
<1>6. CASE ForgetAttempts(s)
  BY <1>1, <1>2, <1>6, EndKeeps DEF ForgetAttempts, Set
<1>7. CASE ExecuteRetry(s)
  <2> DEFINE v == [slot[s] EXCEPT !.pc = "run", !.retry = TRUE, !.failed = FALSE]
  <2>1. v \in Busy /\ v.key = slot[s].key /\ v.retry = TRUE
    BY <1>3 DEF Busy
  <2>2. /\ slot' = [slot EXCEPT ![s] = v]
        /\ UNCHANGED <<entries, attempts, gen, todo, cron, shut, awaited, fires, due, used,
                       cutShort>>
    BY <1>7 DEF ExecuteRetry, Set
  <2> HIDE DEF v
  <2> QED
    BY <1>1, <1>2, <2>1, <2>2, StepKeeps
<1>8. CASE RetryDropped(s)
  BY <1>1, <1>2, <1>8, EndKeeps DEF RetryDropped, Set
<1> QED
  BY <1>4, <1>5, <1>6, <1>7, <1>8

\* A reload begins the count anew: every run under way may be retried under it.
LEMMA ClearAllJobsKeeps ==
    ASSUME CronInv, ClearAllJobs
    PROVE  CronInv'
<1>1. /\ entries' = [k \in Keys |-> None] /\ attempts' = [k \in Keys |-> 0]
      /\ used' = [k \in Keys |-> 0] /\ todo' \in SUBSET Keys /\ gen' \in 0..MaxReloads
      /\ UNCHANGED <<slot, cron, shut, awaited, fires, cutShort>>
  BY CronAssumption DEF ClearAllJobs, CronInv, CronTypeOK
<1>2. due' = [k \in Keys |-> Cardinality(Claims(k))]
  BY DEF ClearAllJobs, Claims
<1>3. Busies' = Busies /\ \A k \in Keys : Claims(k)' = Claims(k)
  BY <1>1 DEF Busies, Claims
<1>4. \A k \in Keys : Cardinality(Claims(k)) \in Nat
  BY Numbers
<1>5. CronTypeOK'
  <2>1. None \in 0..None /\ None' = None /\ 0 \in 0..MaxRetries
    BY CronAssumption DEF None
  <2>2. /\ entries' \in [Keys -> 0..None] /\ attempts' \in [Keys -> 0..MaxRetries]
        /\ due' \in [Keys -> Nat] /\ used' \in [Keys -> Nat]
        /\ \A k \in Keys : entries'[k] = None
    BY <1>1, <1>2, <1>4, <2>1
  <2> QED
    BY <1>1, <2>1, <2>2 DEF CronInv, CronTypeOK
<1>6. ASSUME NEW k \in Keys PROVE Paid(k)'
  <2>1. attempts'[k] = 0 /\ used'[k] = 0 /\ due'[k] = Cardinality(Claims(k))
    BY <1>1, <1>2
  <2>2. Held(k)' = Cardinality(Claims(k))
    BY <1>3, <2>1 DEF Held
  <2>3. MaxRetries * 0 = 0 /\ due'[k] - Held(k)' = 0
    BY <1>4, <2>1, <2>2, CronAssumption
  <2> QED
    BY <1>4, <2>1, <2>2, <2>3 DEF Paid
<1>7. JobsAreOver' /\ SlotsAreTyped'
  BY <1>1 DEF CronInv, JobsAreOver, InJob, SlotsAreTyped
<1> QED
  BY <1>3, <1>5, <1>6, <1>7 DEF CronInv

\* What leaves the runs and their counts alone.
LEMMA ClockKeeps ==
    ASSUME CronInv, UNCHANGED <<slot, attempts, due, used>>, CronTypeOK', JobsAreOver'
    PROVE  CronInv'
<1>1. Busies' = Busies /\ \A k \in Keys : Claims(k)' = Claims(k)
  BY DEF Busies, Claims
<1>2. \A k \in Keys : Paid(k)'
  BY <1>1 DEF CronInv, Paid, Held
<1> QED
  BY <1>1, <1>2 DEF CronInv, SlotsAreTyped

LEMMA CronKept == CronInv /\ CronNext => CronInv'
<1> SUFFICES ASSUME CronInv, CronNext PROVE CronInv'
  OBVIOUS
<1>1. ASSUME NEW s \in Slots, NEW k \in Keys, Fire(k, s) PROVE CronInv'
  BY <1>1, FireKeeps
<1>2. ASSUME NEW s \in Slots,
             JobEnds(s) \/ HandleResult(s) \/ ForgetAttempts(s) \/ ExecuteRetry(s) \/ RetryDropped(s)
      PROVE  CronInv'
  BY <1>2, RunKeeps
<1>3. CASE ClearAllJobs
  BY <1>3, ClearAllJobsKeeps
<1>4. ASSUME NEW k \in Keys, AddJob(k) PROVE CronInv'
  <2>1. gen \in 0..None
    BY CronAssumption DEF CronInv, CronTypeOK, None
  <2>2. CronTypeOK'
    BY <1>4, <2>1 DEF AddJob, CronInv, CronTypeOK, None
  <2>3. JobsAreOver'
    BY <1>4 DEF AddJob, CronInv, JobsAreOver, InJob
  <2> QED
    BY <1>4, <2>2, <2>3, ClockKeeps DEF AddJob
<1>5. CASE StopCron
  BY <1>5, ClockKeeps DEF StopCron, CronInv, CronTypeOK, JobsAreOver, None
<1>6. CASE CronStopped
  <2>1. CronTypeOK'
    BY <1>6 DEF CronStopped, Runs, CronInv, CronTypeOK, None
  <2>2. JobsAreOver'
    BY <1>6 DEF CronStopped, JobsAreOver, InJob
  <2> QED
    BY <1>6, <2>1, <2>2, ClockKeeps DEF CronStopped
<1>7. CASE Exit
  <2>1. CronTypeOK'
    BY <1>7 DEF Exit, CronInv, CronTypeOK, None
  <2>2. JobsAreOver'
    BY <1>7 DEF Exit, CronInv, CronTypeOK, JobsAreOver, InJob
  <2> QED
    BY <1>7, <2>1, <2>2, ClockKeeps DEF Exit
<1> QED
  BY <1>1, <1>2, <1>3, <1>4, <1>5, <1>6, <1>7 DEF CronNext

LEMMA CronIsBounded == CronInv => ScheduleIsBounded
<1> SUFFICES ASSUME CronInv PROVE ScheduleIsBounded
  OBVIOUS
<1>1. ASSUME NEW k \in Keys PROVE used[k] <= MaxRetries * due[k]
  <2> DEFINE m == MaxRetries
             h == Held(k)
             d == due[k]
             x == d - h
  <2>1. /\ m \in Nat /\ h \in Nat /\ d \in Nat /\ x \in Nat /\ used[k] \in Nat
        /\ attempts[k] \in 0..m
        /\ attempts[k] > 0 => h >= 1
    BY Numbers
  <2>2. used[k] <= m * x + attempts[k]
    BY DEF CronInv, Paid
  <2>3. x <= d /\ (h >= 1 => x + 1 <= d)
    BY <2>1
  <2> HIDE DEF m, h, d, x
  <2>4. m * x \in Nat /\ m * d \in Nat /\ m * x <= m * d /\ m * (x + 1) = m * x + m
    BY <2>1, <2>3, Times
  <2>5. CASE attempts[k] = 0
    BY <2>1, <2>2, <2>4, <2>5 DEF m, d
  <2>6. CASE attempts[k] > 0
    <3>1. x + 1 \in Nat /\ x + 1 <= d
      BY <2>1, <2>3, <2>6
    <3>2. m * (x + 1) <= m * d
      BY <2>1, <3>1, Times
    <3>3. used[k] <= m * x + m
      BY <2>1, <2>2, <2>4
    <3>4. used[k] <= m * d
      BY <2>1, <2>4, <3>2, <3>3
    <3> QED
      BY <3>4 DEF m, d
  <2> QED
    BY <2>1, <2>5, <2>6
<1>2. OnlyRetriesOutliveSupd
  BY DEF CronInv, JobsAreOver, InJob, OnlyRetriesOutliveSupd, Runs
<1> QED
  BY <1>1, <1>2 DEF ScheduleIsBounded, RetriesAreWithinBudget
-----------------------------------------------------------------------------
(* The history of runs. *)

\* What the history may show of a run, by how far its goroutine is. A record is missed
\* only where it was so old that no later one can come back; the result the goroutine is
\* about to show has caught up with all that was shown.
Told(r) ==
    /\ stage[r] = "idle" => history[r] = NoRecord /\ shown[r] = 0
    /\ stage[r] \in {"called", "queued", "running", "ended", "merged"} =>
          \/ history[r] = NoRecord /\ r \in old
          \/ history[r].state = "running" /\ history[r].progress = shown[r]
    /\ stage[r] \in {"ended", "merged"} => result[r].state \in Terminal
    /\ stage[r] = "merged" => r \in old \/ result[r].progress >= shown[r]
    /\ stage[r] = "over" =>
          \/ history[r] = NoRecord
          \/ history[r].state \in Terminal /\ history[r].progress >= shown[r]

HistoryInv == HistoryTypeOK /\ \A r \in RunIds : Told(r)

LEMMA HistoryBegins == HistoryInit => HistoryInv
<1> SUFFICES ASSUME HistoryInit PROVE HistoryInv
  OBVIOUS
<1>1. 0 \in Progress /\ NoRecord \in [state : {"none", "running"} \cup Terminal, progress : Progress]
      /\ NoRecord \in [state : {"none"} \cup Terminal, progress : Progress]
  BY HistoryAssumption DEF NoRecord, Progress
<1>2. HistoryTypeOK
  BY <1>1 DEF HistoryInit, HistoryTypeOK
<1> QED
  BY <1>2 DEF HistoryInit, HistoryInv, Told

LEMMA HistoryStays == HistoryInv /\ UNCHANGED historyVars => HistoryInv'
BY DEF historyVars, HistoryInv, HistoryTypeOK, Told

\* Only the record of one run changes, and that of those too old goes.
LEMMA Added ==
    ASSUME HistoryInv, NEW r \in RunIds, NEW rec, Add(r, rec)
    PROVE  /\ history'[r] = IF r \in old THEN NoRecord ELSE rec
           /\ \A x \in RunIds : x # r => history'[x] = history[x]
                                         \/ (history'[x] = NoRecord /\ x \in old)
BY DEF Add

\* What was told of a run is still true when its record has gone with age, its goroutine
\* being where it was.
LEMMA ToldStill ==
    ASSUME HistoryInv, NEW r \in RunIds, Told(r), UNCHANGED old,
           history'[r] = history[r] \/ (history'[r] = NoRecord /\ r \in old),
           UNCHANGED <<stage[r], result[r], shown[r]>>
    PROVE  Told(r)'
BY DEF Told

LEMMA HistoryKept == HistoryInv /\ HistoryNext => HistoryInv'
<1> SUFFICES ASSUME HistoryInv, HistoryNext PROVE HistoryInv'
  OBVIOUS
<1>0. /\ history \in [RunIds -> [state : {"none", "running"} \cup Terminal, progress : Progress]]
      /\ stage \in [RunIds -> {"idle", "called", "queued", "running", "ended", "merged", "over"}]
      /\ result \in [RunIds -> [state : {"none"} \cup Terminal, progress : Progress]]
      /\ shown \in [RunIds -> Progress]
      /\ Progress \subseteq Nat /\ 0 \in Progress
      /\ \A r \in RunIds : Told(r)
  BY HistoryAssumption DEF HistoryInv, HistoryTypeOK, Progress
<1>00. NoRecord \in [state : {"none", "running"} \cup Terminal, progress : Progress]
  BY <1>0 DEF NoRecord
<1>1. ASSUME NEW r \in RunIds, RunExtension(r) PROVE HistoryInv'
  <2> DEFINE rec == [state |-> "running", progress |-> 0]
  <2>1. /\ rec \in [state : {"none", "running"} \cup Terminal, progress : Progress]
        /\ rec.state = "running" /\ rec.progress = 0
    BY <1>0
  <2>2. /\ stage[r] = "idle" /\ Goto(r, "called") /\ Add(r, rec)
        /\ UNCHANGED <<stopped, old, said, result, asked, shown>>
    BY <1>1 DEF RunExtension
  <2> HIDE DEF rec
  <2>3. HistoryTypeOK'
    BY <2>1, <2>2, <1>00 DEF HistoryInv, HistoryTypeOK, Add, Goto
  <2>4. Told(r)'
    BY <1>0, <2>1, <2>2, Added DEF Told, Goto
  <2>5. ASSUME NEW x \in RunIds, x # r PROVE Told(x)'
    BY <1>0, <2>2, <2>5, Added, ToldStill DEF Goto
  <2> QED
    BY <2>3, <2>4, <2>5 DEF HistoryInv
<1>2. ASSUME NEW r \in RunIds, ExecuteOnDemand(r) \/ Dequeue(r) \/ ExecuteReturns(r) PROVE HistoryInv'
  <2>1. /\ stage[r] \in {"called", "queued", "running"}
        /\ UNCHANGED <<history, stopped, old, said, asked, shown>>
    BY <1>2 DEF ExecuteOnDemand, Dequeue, ExecuteReturns
  <2>2. \/ UNCHANGED result /\ \E s \in {"queued", "running"} : Goto(r, s)
        \/ /\ Goto(r, "ended")
           /\ \E v \in [state : Terminal, progress : Progress] : result' = [result EXCEPT ![r] = v]
    <3>1. CASE ExecuteOnDemand(r)
      BY <1>0, <3>1 DEF ExecuteOnDemand, Terminal
    <3>2. CASE Dequeue(r)
      BY <1>0, <3>2 DEF Dequeue, Terminal
    <3>3. CASE ExecuteReturns(r)
      <4>1. said[r] \subseteq Progress
        BY DEF HistoryInv, HistoryTypeOK
      <4>2. PICK s \in Terminal, p \in said[r] : result' = [result EXCEPT ![r] = [state |-> s, progress |-> p]]
        BY <3>3 DEF ExecuteReturns, Terminal
      <4> QED
        BY <3>3, <4>1, <4>2 DEF ExecuteReturns
    <3> QED
      BY <1>2, <3>1, <3>2, <3>3
  <2>3. HistoryTypeOK' /\ Told(r)' /\ \A x \in RunIds : x # r => Told(x)'
    <3>1. CASE UNCHANGED result /\ \E s \in {"queued", "running"} : Goto(r, s)
      <4>1. PICK s \in {"queued", "running"} : Goto(r, s)
        BY <3>1
      <4>2. HistoryTypeOK'
        BY <2>1, <3>1, <4>1 DEF HistoryInv, HistoryTypeOK, Goto
      <4>3. Told(r)'
        BY <1>0, <2>1, <3>1, <4>1 DEF Told, Goto
      <4>4. ASSUME NEW x \in RunIds, x # r PROVE Told(x)'
        BY <1>0, <2>1, <3>1, <4>1, <4>4, ToldStill DEF Goto
      <4> QED
        BY <4>2, <4>3, <4>4
    <3>2. ASSUME NEW v \in [state : Terminal, progress : Progress], Goto(r, "ended"),
                 result' = [result EXCEPT ![r] = v]
          PROVE  HistoryTypeOK' /\ Told(r)' /\ \A x \in RunIds : x # r => Told(x)'
      <4>1. HistoryTypeOK'
        BY <2>1, <3>2 DEF HistoryInv, HistoryTypeOK, Goto
      <4>2. Told(r)'
        BY <1>0, <2>1, <3>2 DEF Told, Goto
      <4>3. ASSUME NEW x \in RunIds, x # r PROVE Told(x)'
        BY <1>0, <2>1, <3>2, <4>3, ToldStill DEF Goto
      <4> QED
        BY <4>1, <4>2, <4>3
    <3> QED
      BY <2>2, <3>1, <3>2
  <2> QED
    BY <2>3 DEF HistoryInv
<1>3. ASSUME NEW r \in RunIds, UpdateProgress(r) PROVE HistoryInv'
  <2>1. PICK p \in Progress :
          /\ said' = [said EXCEPT ![r] = @ \cup {p}]
          /\ IF history[r] = NoRecord THEN UNCHANGED <<history, shown>>
             ELSE /\ history' = [history EXCEPT ![r].progress = p]
                  /\ shown' = [shown EXCEPT ![r] = p]
    BY <1>3 DEF UpdateProgress
  <2>2. stage[r] = "running" /\ UNCHANGED <<stage, stopped, old, result, asked>>
    BY <1>3 DEF UpdateProgress
  <2>3. HistoryTypeOK'
    <3>1. said' \in [RunIds -> SUBSET Progress]
      BY <2>1 DEF HistoryInv, HistoryTypeOK
    <3>2. CASE history[r] = NoRecord
      BY <2>1, <2>2, <3>1, <3>2 DEF HistoryInv, HistoryTypeOK
    <3>3. CASE history[r] # NoRecord
      <4>1. history' = [history EXCEPT ![r].progress = p] /\ shown' = [shown EXCEPT ![r] = p]
        BY <2>1, <3>3
      <4>2. /\ shown' \in [RunIds -> Progress]
            /\ history' \in [RunIds -> [state : {"none", "running"} \cup Terminal, progress : Progress]]
        BY <1>0, <4>1
      <4> QED
        BY <2>2, <3>1, <4>2 DEF HistoryInv, HistoryTypeOK
    <3> QED
      BY <3>2, <3>3
  <2>4. Told(r)'
    BY <1>0, <2>1, <2>2 DEF Told
  <2>5. ASSUME NEW x \in RunIds, x # r PROVE Told(x)'
    BY <1>0, <2>1, <2>2, <2>5, ToldStill
  <2> QED
    BY <2>3, <2>4, <2>5 DEF HistoryInv
<1>4. ASSUME NEW r \in RunIds, Merge(r) PROVE HistoryInv'
  \* No progress can be shown any more: what the goroutine finds is the last.
  <2>1. /\ stage[r] = "ended" /\ Goto(r, "merged")
        /\ result' = [result EXCEPT ![r].progress = IF history[r].progress > @
                                                    THEN history[r].progress ELSE @]
        /\ UNCHANGED <<history, stopped, old, said, asked, shown>>
    BY <1>4 DEF Merge
  <2>2. HistoryTypeOK'
    BY <1>0, <2>1 DEF HistoryInv, HistoryTypeOK, Goto
  <2>3. /\ result'[r].state = result[r].state
        /\ result'[r].progress >= history[r].progress
    <3>1. history[r].progress \in Nat /\ result[r].progress \in Nat
      BY <1>0
    <3> QED
      BY <1>0, <2>1, <3>1
  <2>4. Told(r)'
    BY <1>0, <2>1, <2>3 DEF Told, Goto
  <2>5. ASSUME NEW x \in RunIds, x # r PROVE Told(x)'
    BY <1>0, <2>1, <2>5, ToldStill DEF Goto
  <2> QED
    BY <2>2, <2>4, <2>5 DEF HistoryInv
<1>5. ASSUME NEW r \in RunIds, RecordRun(r) PROVE HistoryInv'
  <2>1. /\ stage[r] = "merged" /\ Goto(r, "over") /\ Add(r, result[r])
        /\ UNCHANGED <<stopped, old, said, result, asked, shown>>
    BY <1>5 DEF RecordRun
  <2>2. result[r].state \in Terminal /\ (r \in old \/ result[r].progress >= shown[r])
    BY <1>0, <2>1 DEF Told
  <2>3. result[r] \in [state : {"none", "running"} \cup Terminal, progress : Progress]
    BY <1>0
  <2>4. HistoryTypeOK'
    BY <2>1, <2>3, <1>00 DEF HistoryInv, HistoryTypeOK, Add, Goto
  <2>5. Told(r)'
    BY <1>0, <2>1, <2>2, Added DEF Told, Goto
  <2>6. ASSUME NEW x \in RunIds, x # r PROVE Told(x)'
    BY <1>0, <2>1, <2>6, Added, ToldStill DEF Goto
  <2> QED
    BY <2>4, <2>5, <2>6 DEF HistoryInv
<1>6. ASSUME NEW r \in RunIds, CancelLooks(r) \/ CancelRun(r) PROVE HistoryInv'
  <2>1. UNCHANGED <<history, stage, old, said, result, shown>>
    BY <1>6 DEF CancelLooks, CancelRun
  <2>2. stopped' \subseteq RunIds /\ asked' \subseteq RunIds
    BY <1>6 DEF CancelLooks, CancelRun, HistoryInv, HistoryTypeOK
  <2> QED
    BY <2>1, <2>2 DEF HistoryInv, HistoryTypeOK, Told
<1>7. ASSUME NEW r \in RunIds, Ages(r) PROVE HistoryInv'
  <2>1. old' = old \cup {r} /\ UNCHANGED <<history, stage, stopped, said, result, asked, shown>>
    BY <1>7 DEF Ages
  <2> QED
    BY <2>1 DEF HistoryInv, HistoryTypeOK, Told
<1>8. CASE ClearRuns
  <2>1. PICK c \in SUBSET {r \in RunIds : history[r].state \in Terminal} :
          history' = [r \in RunIds |-> IF r \in c THEN NoRecord ELSE history[r]]
    BY <1>8 DEF ClearRuns
  <2>2. UNCHANGED <<stage, stopped, old, said, result, asked, shown>>
    BY <1>8 DEF ClearRuns
  <2>3. HistoryTypeOK'
    BY <2>1, <2>2, <1>00 DEF HistoryInv, HistoryTypeOK
  <2>4. ASSUME NEW r \in RunIds PROVE Told(r)'
    <3>1. CASE r \in c
      \* A record of a run that is over, and so of no stage before.
      <4>1. history[r].state \in Terminal /\ history'[r] = NoRecord
        BY <2>1, <3>1
      <4>2. stage[r] = "over"
        BY <1>0, <4>1 DEF Told, NoRecord, Terminal
      <4> QED
        BY <2>2, <4>1, <4>2 DEF Told
    <3>2. CASE r \notin c
      BY <1>0, <2>1, <2>2, <3>2, ToldStill
    <3> QED
      BY <3>1, <3>2
  <2> QED
    BY <2>3, <2>4 DEF HistoryInv
<1> QED
  BY <1>1, <1>2, <1>3, <1>4, <1>5, <1>6, <1>7, <1>8 DEF HistoryNext

LEMMA ToldIsTrue == HistoryInv => HistoryIsTrue
<1> SUFFICES ASSUME HistoryInv, NEW r \in RunIds
             PROVE  /\ history[r].state \in Terminal <=> stage[r] = "over" /\ history[r] # NoRecord
                    /\ history[r].state = "running" => stage[r] \notin {"idle", "over"}
                    /\ history[r].state \in Terminal => history[r].progress >= shown[r]
  BY DEF HistoryIsTrue
<1>1. Told(r) /\ NoRecord.state = "none" /\ "none" \notin Terminal /\ "running" \notin Terminal
  BY DEF HistoryInv, NoRecord, Terminal
<1>2. stage[r] \in {"idle", "called", "queued", "running", "ended", "merged", "over"}
  BY DEF HistoryInv, HistoryTypeOK
<1> QED
  BY <1>1, <1>2 DEF Told, Terminal
-----------------------------------------------------------------------------
(* Dispatches: facts about the operators. *)

\* An ordering of a finite set has each of its elements at some place.
LEMMA OrderHasAll ==
    ASSUME NEW S, IsFiniteSet(S), NEW l \in SetToSeqs(S)
    PROVE  /\ Cardinality(S) \in Nat /\ l \in [1..Cardinality(S) -> S]
           /\ l \in Seq(S) /\ Len(l) = Cardinality(S) /\ DOMAIN l = 1..Len(l)
           /\ \A x \in S : \E i \in 1..Len(l) : l[i] = x
<1> DEFINE n == Cardinality(S)
<1>1. n \in Nat
  BY FS_CardinalityType
<1>2. l \in [1..n -> S] /\ \A i, j \in 1..n : i # j => l[i] # l[j]
  BY DEF SetToSeqs
<1>3. l \in Injection(1..n, S)
  BY <1>2 DEF Injection, IsInjective
<1>4. IsFiniteSet(1..n) /\ Cardinality(1..n) = n
  BY <1>1, FS_Interval
<1>5. l \in Surjection(1..n, S)
  BY <1>3, <1>4, FS_Injection
<1>6. \A x \in S : \E i \in 1..n : l[i] = x
  BY <1>5 DEF Surjection
<1>7. l \in Seq(S) /\ Len(l) = n /\ DOMAIN l = 1..n
  BY <1>1, <1>2
<1> QED
  BY <1>1, <1>2, <1>6, <1>7

LEMMA ExtensionsAreFew ==
    /\ IsFiniteSet(Extensions)
    /\ \A m \in SUBSET Extensions : IsFiniteSet(m) /\ IsFiniteSet({e.owner : e \in m} \ {NoService})
    /\ \A m \in SUBSET Extensions : /\ Cardinality(GlobalOf(m)) \in 0..Globals
                                    /\ IsFiniteSet(GlobalOf(m))
<1>1. Globals \in Nat /\ Own \in Nat /\ IsFiniteSet(Services)
  BY DispatchAssumption
<1>2. /\ IsFiniteSet(1..Globals) /\ Cardinality(1..Globals) = Globals
      /\ IsFiniteSet(1..Own)
  BY <1>1, FS_Interval
<1> DEFINE G == [owner : {NoService}, name : 1..Globals]
           O == [owner : Services, name : 1..Own]
           P == Services \X (1..Own)
<1>3. IsFiniteSet(G) /\ \A m \in SUBSET G : IsFiniteSet(m) /\ Cardinality(m) \in 0..Globals
  <2>1. [e \in G |-> e.name] \in Injection(G, 1..Globals)
    BY DEF Injection, IsInjective
  <2>2. IsFiniteSet(G) /\ Cardinality(G) <= Globals
    BY <1>2, <2>1, FS_Injection
  <2>3. \A m \in SUBSET G : IsFiniteSet(m) /\ Cardinality(m) <= Cardinality(G)
    BY <2>2, FS_Subset
  <2>4. \A m \in SUBSET G : Cardinality(m) \in Nat /\ Cardinality(G) \in Nat
    BY <2>2, <2>3, FS_CardinalityType
  <2>5. ASSUME NEW m \in SUBSET G PROVE IsFiniteSet(m) /\ Cardinality(m) \in 0..Globals
    <3>1. IsFiniteSet(m) /\ Cardinality(m) <= Cardinality(G)
      BY <2>3
    <3>2. Cardinality(m) \in Nat /\ Cardinality(G) \in Nat
      BY <2>4
    <3> QED
      BY <1>1, <2>2, <3>1, <3>2
  <2> QED
    BY <2>2, <2>5
<1>4. IsFiniteSet(O)
  <2>1. IsFiniteSet(P)
    BY <1>1, <1>2, FS_Product
  <2>2. [e \in O |-> <<e.owner, e.name>>] \in Injection(O, P)
    BY DEF Injection, IsInjective
  <2> QED
    BY <2>1, <2>2, FS_Injection
<1>5. IsFiniteSet(Extensions)
  BY <1>3, <1>4, FS_Union DEF Extensions
<1>6. ASSUME NEW m \in SUBSET Extensions
      PROVE  IsFiniteSet(m) /\ IsFiniteSet({e.owner : e \in m} \ {NoService})
  <2>1. {e.owner : e \in m} \ {NoService} \subseteq Services
    BY DEF Extensions
  <2> QED
    BY <1>1, <1>5, <2>1, FS_Subset
<1>7. ASSUME NEW m \in SUBSET Extensions PROVE GlobalOf(m) \in SUBSET G
  BY DispatchAssumption DEF GlobalOf, Extensions
<1> QED
  BY <1>3, <1>5, <1>6, <1>7

\* Behind one or two elements append leaves no room.
LEMMA NoRoom == \A n \in {1, 2} : Spare(n) = 0
<1>1. 2^0 = 1 /\ 2^1 = 2
  OBVIOUS
<1>2. Spare(1) = 0
  <2> DEFINE C == {2^k : k \in 0..1}
  <2>1. C = {1, 2}
    BY <1>1
  <2> HIDE DEF C
  <2>2. (CHOOSE c \in C : 1 <= c /\ c < 2 * 1) = 1
    BY <2>1
  <2> QED
    BY <2>2 DEF Spare, C
<1>3. Spare(2) = 0
  <2> DEFINE C == {2^k : k \in 0..2}
  <2>1. 2 \in C /\ C \subseteq Int
    BY <1>1
  <2> HIDE DEF C
  <2>2. (CHOOSE c \in C : 2 <= c /\ c < 2 * 2) = 2
    BY <2>1
  <2> QED
    BY <2>2 DEF Spare, C
<1> QED
  BY <1>2, <1>3

\* Every set of natural numbers that is not empty has a least element, and one of those up
\* to n a greatest: the form of induction that needs no operator as a parameter.
LEMMA LeastNumber ==
    ASSUME NEW T \in SUBSET Nat, T # {}
    PROVE  \E x \in T : \A y \in T : x <= y
<1> DEFINE Below == {0..m : m \in T}
<1>1. \A m \in Nat : IsFiniteSet(0..m) /\ 0..m \subseteq Nat
  BY FS_Interval
<1>2. Below \subseteq FiniteSubsetsOf(Nat) /\ Below # {}
  BY <1>1 DEF FiniteSubsetsOf
<1>3. \E X \in Below : \A Y \in Below : ~ (<<Y, X>> \in StrictSubsetOrdering(Nat))
  <2> HIDE DEF Below
  <2> QED
    BY <1>2, FS_StrictSubsetOrderingWellFounded, WFMin
<1>4. PICK x \in T : \A Y \in Below : ~ (<<Y, 0..x>> \in StrictSubsetOrdering(Nat))
  BY <1>3
<1>5. \A y \in T : y < x => <<0..y, 0..x>> \in StrictSubsetOrdering(Nat)
  BY <1>1 DEF StrictSubsetOrdering
<1>6. \A y \in T : ~(y < x)
  BY <1>4, <1>5
<1> QED
  BY <1>6

LEMMA GreatestNumber ==
    ASSUME NEW n \in Nat, NEW T \in SUBSET (1..n), T # {}
    PROVE  Max(T) \in T
<1> DEFINE D == {n - k : k \in T}
<1>1. D \in SUBSET Nat /\ D # {}
  <2>1. \A k \in T : n - k \in Nat
    OBVIOUS
  <2> QED
    BY <2>1
<1>2. PICK d \in D : \A y \in D : d <= y
  <2> HIDE DEF D
  <2> QED
    BY <1>1, LeastNumber
<1>3. PICK x \in T : d = n - x
  BY <1>2
<1>4. \A y \in T : n - y \in D /\ d <= n - y
  BY <1>2
<1>5. \A y \in T : x >= y
  BY <1>3, <1>4
<1> QED
  BY <1>3, <1>5 DEF Max

\* The groups of a dispatch hold nothing but what matched, and each is of a service that
\* has a match, or of none. If append leaves no room they hold all of it: none of what
\* matched is written over.
LEMMA GroupsAreOfTheMatch ==
    ASSUME NEW m \in SUBSET Extensions, NEW groups \in Groupings(m)
    PROVE  /\ \A g \in DOMAIN groups : groups[g] \subseteq m
           /\ \/ DOMAIN groups = {NoService} /\ \A e \in m : e.owner = NoService
              \/ DOMAIN groups = {e.owner : e \in m} \ {NoService}
           /\ Globals <= 2 => \A e \in m : \E g \in DOMAIN groups : e \in groups[g]
<1> DEFINE globals == GlobalOf(m)
           owners == {e.owner : e \in m} \ {NoService}
           spare == IF globals = {} THEN 0 ELSE Spare(Cardinality(globals))
           listings == {l \in [owners -> UNION {SetToSeqs(OwnOf(m, s)) : s \in owners}] :
                           \A s \in owners : ToSet(l[s]) = OwnOf(m, s)}
<1>1. CASE owners = {}
  <2>1. groups = [g \in {NoService} |-> globals]
    BY <1>1 DEF Groupings
  <2>2. \A e \in m : e.owner = NoService
    BY <1>1
  <2> QED
    BY <2>1, <2>2 DEF GlobalOf
<1>2. CASE owners # {}
  <2>1. PICK l \in listings, order \in SetToSeqs(owners) :
          groups = [s \in owners |-> globals \cup Behind(l, order, spare, s)]
    <3>1. Groupings(m) = {[s \in owners |-> globals \cup Behind(l, order, spare, s)] :
                             l \in listings, order \in SetToSeqs(owners)}
      <4>1. Groupings(m) =
              IF owners = {} THEN {[g \in {NoService} |-> globals]}
              ELSE {[s \in owners |-> globals \cup Behind(l, order, spare, s)] :
                       l \in listings, order \in SetToSeqs(owners)}
        BY DEF Groupings
      <4> HIDE DEF owners, spare, globals, listings
      <4> QED
        BY <1>2, <4>1
    <3> HIDE DEF owners, spare, globals, listings
    <3> QED
      BY <3>1
  <2>2. DOMAIN groups = owners
    BY <2>1
  <2>3. /\ order \in Seq(owners) /\ Len(order) \in Nat /\ DOMAIN order = 1..Len(order)
        /\ \A s \in owners : \E k \in 1..Len(order) : order[k] = s
    <3>1. IsFiniteSet(owners)
      BY ExtensionsAreFew
    <3> HIDE DEF owners, spare, globals, listings
    <3> QED
      BY <2>1, <3>1, OrderHasAll
  <2>4. \A s \in owners : OwnOf(m, s) \subseteq m /\ OwnOf(m, s) # {} /\ IsFiniteSet(OwnOf(m, s))
    BY ExtensionsAreFew DEF OwnOf
  <2>5. \A s \in owners : /\ l[s] \in Seq(m) /\ Len(l[s]) \in Nat /\ DOMAIN l[s] = 1..Len(l[s])
                          /\ ToSet(l[s]) = OwnOf(m, s)
    <3> SUFFICES ASSUME NEW s \in owners
                 PROVE  /\ l[s] \in Seq(m) /\ Len(l[s]) \in Nat /\ DOMAIN l[s] = 1..Len(l[s])
                        /\ ToSet(l[s]) = OwnOf(m, s)
      OBVIOUS
    <3>1. PICK w \in owners : l[s] \in SetToSeqs(OwnOf(m, w))
      BY <2>1
    <3>2. /\ l[s] \in [1..Cardinality(OwnOf(m, w)) -> OwnOf(m, w)]
          /\ Cardinality(OwnOf(m, w)) \in Nat
      BY <2>4, <3>1, OrderHasAll
    <3>3. l[s] \in Seq(m)
      BY <2>4, <3>2
    <3> QED
      BY <3>3
  <2> HIDE DEF owners, spare, globals
  <2>6. ASSUME NEW s \in owners, NEW i \in 1..Len(l[s]), Len(l[s]) \in 1..spare
        PROVE  l[Writer(l, order, spare, i)][i] \in m
    <3> DEFINE T == {k \in DOMAIN order : Len(l[order[k]]) \in i..spare}
    <3>1. PICK k \in 1..Len(order) : order[k] = s
      BY <2>3
    <3>2. Len(l[s]) \in i..spare
      BY <2>6
    <3>3. T \in SUBSET (1..Len(order)) /\ k \in T
      BY <2>3, <3>1, <3>2
    <3>4. Max(T) \in T
      <4> HIDE DEF T
      <4> QED
        BY <2>3, <3>3, GreatestNumber
    <3>5. order[Max(T)] \in owners /\ Len(l[order[Max(T)]]) \in i..spare
      BY <2>3, <3>4
    <3>6. Writer(l, order, spare, i) = order[Max(T)]
      BY DEF Writer
    <3> HIDE DEF T
    <3>7. i \in 1..Len(l[order[Max(T)]]) /\ l[order[Max(T)]] \in Seq(m)
      BY <2>5, <3>5
    <3> QED
      BY <3>6, <3>7
  <2>7. \A s \in owners : Behind(l, order, spare, s) \subseteq m
    <3> SUFFICES ASSUME NEW s \in owners PROVE Behind(l, order, spare, s) \subseteq m
      OBVIOUS
    <3>1. CASE Len(l[s]) \in 1..spare
      BY <2>6, <3>1 DEF Behind
    <3>2. CASE ~(Len(l[s]) \in 1..spare)
      BY <2>4, <2>5, <3>2 DEF Behind
    <3> QED
      BY <3>1, <3>2
  <2>8. \A g \in DOMAIN groups : groups[g] \subseteq m
    BY <2>1, <2>2, <2>7 DEF GlobalOf, globals
  <2>9. ASSUME Globals <= 2, NEW e \in m PROVE \E g \in DOMAIN groups : e \in groups[g]
    <3>1. spare = 0
      <4>1. CASE globals = {}
        BY <4>1 DEF spare
      <4>2. CASE globals # {}
        <5>1. Cardinality(globals) \in 0..Globals /\ IsFiniteSet(globals)
          BY ExtensionsAreFew DEF globals
        <5>2. Cardinality(globals) # 0
          BY <4>2, <5>1, FS_EmptySet
        <5>3. Cardinality(globals) \in {1, 2}
          BY <2>9, <5>1, <5>2, DispatchAssumption
        <5> QED
          BY <4>2, <5>3, NoRoom DEF spare
      <4> QED
        BY <4>1, <4>2
    <3>2. \A s \in owners : Behind(l, order, spare, s) = OwnOf(m, s)
      BY <2>5, <3>1 DEF Behind
    <3>3. CASE e.owner = NoService
      <4>1. e \in globals
        BY <3>3 DEF globals, GlobalOf
      <4> QED
        BY <1>2, <2>1, <2>2, <4>1
    <3>4. CASE e.owner # NoService
      <4>1. e.owner \in owners /\ e \in OwnOf(m, e.owner)
        BY <3>4 DEF owners, OwnOf
      <4> QED
        BY <2>1, <2>2, <3>2, <4>1
    <3> QED
      BY <3>3, <3>4
  <2>10. DOMAIN groups = {e.owner : e \in m} \ {NoService}
    BY <2>2 DEF owners
  <2> QED
    BY <2>1, <2>8, <2>9, <2>10
<1> QED
  BY <1>1, <1>2

-----------------------------------------------------------------------------
(* Dispatches: the invariant. *)

Names == Services \cup {NoService}

Goings == [pc : {"running"}, matched : SUBSET Extensions, req : Requests, busy : SUBSET Names,
           left : UNION {[G -> Seq(Extensions)] : G \in SUBSET Names}]
Overs == [pc : {"over"}, matched : SUBSET Extensions]

\* A group that is busy has an extension in hand; for a service's phase there is one group.
GroupsAreSound(x) ==
    x.pc = "running" =>
        /\ x.busy \subseteq DOMAIN x.left
        /\ \A g \in x.busy : x.left[g] # <<>>
        /\ x.req.event = "service" => \A g, h \in DOMAIN x.left : g = h

FormsAreSound ==
    /\ dispatch \in [Dispatches -> {Waiting} \cup Overs \cup Goings]
    /\ \A d \in Dispatches : GroupsAreSound(dispatch[d])

\* A tracker knows the runs of its own action, and no run that has ended.
BusyRuns ==
    {r \in Dispatches \X Names : dispatch[r[1]].pc = "running" /\ r[2] \in dispatch[r[1]].busy}
KeyOf(r) == Key(dispatch[r[1]].req, At(r[1], r[2]))

RunsAreBusy ==
    /\ \A k \in DOMAIN running : running[k] \subseteq {r \in BusyRuns : KeyOf(r) = k}
    /\ cancelled \subseteq BusyRuns

\* A group has yet to run the extension, and the run of it has not been cancelled.
Ahead(d, e) ==
    \E g \in DOMAIN dispatch[d].left : \E i \in 1..Len(dispatch[d].left[g]) :
        dispatch[d].left[g][i] = e /\ ~(i = 1 /\ <<d, g>> \in cancelled)

\* What matched has been run, left to another dispatch, or is ahead of a group.
NoneIsLost(d) ==
    /\ dispatch[d].pc = "running" => \A e \in dispatch[d].matched :
                                        <<d, e>> \in ran \cup replaced \/ Ahead(d, e)
    /\ dispatch[d].pc = "over" => \A e \in dispatch[d].matched : <<d, e>> \in ran \cup replaced

DispatchInv == DispatchTypeOK /\ FormsAreSound /\ RunsAreBusy

-----------------------------------------------------------------------------
(* Dispatches: what a step reads. *)

LEMMA GoingIsTyped ==
    ASSUME FormsAreSound, NEW d \in Dispatches, dispatch[d].pc = "running"
    PROVE  /\ dispatch[d] \in Goings
           /\ dispatch[d].matched \in SUBSET Extensions /\ dispatch[d].req \in Requests
           /\ dispatch[d].busy \in SUBSET Names /\ dispatch[d].busy \subseteq DOMAIN dispatch[d].left
           /\ DOMAIN dispatch[d].left \subseteq Names
           /\ dispatch[d].left \in [DOMAIN dispatch[d].left -> Seq(Extensions)]
<1>1. dispatch[d] \in Goings
  BY DEF FormsAreSound, Waiting, Overs
<1>2. PICK G \in SUBSET Names : dispatch[d].left \in [G -> Seq(Extensions)]
  BY <1>1 DEF Goings
<1>3. dispatch[d].busy \subseteq DOMAIN dispatch[d].left
  BY DEF FormsAreSound, GroupsAreSound
<1> QED
  BY <1>1, <1>2, <1>3 DEF Goings

LEMMA InHandIsTyped ==
    ASSUME FormsAreSound, NEW d \in Dispatches, dispatch[d].pc = "running",
           NEW g \in DOMAIN dispatch[d].left, dispatch[d].left[g] # <<>>
    PROVE  /\ At(d, g) \in Extensions /\ At(d, g) = dispatch[d].left[g][1]
           /\ Len(dispatch[d].left[g]) \in Nat \ {0}
           /\ Key(dispatch[d].req, At(d, g)) \in Actions
           /\ Tail(dispatch[d].left[g]) \in Seq(Extensions)
<1>1. dispatch[d].left[g] \in Seq(Extensions) /\ dispatch[d].req \in Requests
  BY GoingIsTyped
<1>2. /\ At(d, g) \in Extensions /\ At(d, g) = dispatch[d].left[g][1]
      /\ Len(dispatch[d].left[g]) \in Nat \ {0}
      /\ Tail(dispatch[d].left[g]) \in Seq(Extensions)
  BY <1>1 DEF At
<1>3. \A req \in Requests, e \in Extensions : Key(req, e) \in Actions
  BY DispatchAssumption DEF Key, Actions, Requests, Extensions
<1> QED
  BY <1>1, <1>2, <1>3

\* Of supd's own phases, an action is of one extension.
LEMMA KeyTellsApart ==
    ASSUME NEW req \in Requests, req.event # "service", NEW e \in Extensions, NEW f \in Extensions,
           Key(req, e) = Key(req, f)
    PROVE  e = f
<1>1. e.owner = f.owner /\ e.name = f.name
  BY DEF Key
<1>2. e = [owner |-> e.owner, name |-> e.name] /\ f = [owner |-> f.owner, name |-> f.name]
  BY DEF Extensions
<1> QED
  BY <1>1, <1>2
-----------------------------------------------------------------------------
(* Dispatches: the invariant is kept. *)

LEMMA DispatchBegins == DispatchInit => DispatchInv /\ \A d \in Dispatches : NoneIsLost(d)
<1> SUFFICES ASSUME DispatchInit PROVE DispatchInv /\ \A d \in Dispatches : NoneIsLost(d)
  OBVIOUS
<1>1. \A d \in Dispatches : dispatch[d] = Waiting /\ dispatch[d].pc = "idle"
  BY DEF DispatchInit, Waiting
<1>2. FormsAreSound
  BY <1>1 DEF DispatchInit, FormsAreSound, GroupsAreSound
<1>3. DOMAIN running = {} /\ cancelled = {} /\ ran = {} /\ replaced = {}
  BY DEF DispatchInit
<1>4. DispatchTypeOK
  BY <1>1, <1>3, DispatchAssumption DEF DispatchInit, DispatchTypeOK
<1> QED
  BY <1>1, <1>2, <1>3, <1>4 DEF DispatchInv, RunsAreBusy, NoneIsLost

LEMMA DispatchStays ==
    /\ DispatchInv /\ UNCHANGED dispatchVars => DispatchInv'
    /\ (\A d \in Dispatches : NoneIsLost(d)) /\ UNCHANGED dispatchVars
          => (\A d \in Dispatches : NoneIsLost(d))'
<1>1. ASSUME DispatchInv, UNCHANGED dispatchVars PROVE DispatchInv'
  <2>1. BusyRuns' = BusyRuns /\ \A r \in BusyRuns : KeyOf(r)' = KeyOf(r)
    BY <1>1 DEF dispatchVars, BusyRuns, KeyOf, At
  <2> QED
    BY <1>1, <2>1 DEF dispatchVars, DispatchInv, DispatchTypeOK, FormsAreSound, RunsAreBusy
<1>2. ASSUME \A d \in Dispatches : NoneIsLost(d), UNCHANGED dispatchVars
      PROVE  (\A d \in Dispatches : NoneIsLost(d))'
  BY <1>2 DEF dispatchVars, NoneIsLost, Ahead
<1> QED
  BY <1>1, <1>2

\* A dispatch that begins is of one of the forms there are, with all that matched in its
\* groups.
LEMMA BeginForms ==
    ASSUME DispatchInv, NEW d \in Dispatches, Begin(d)
    PROVE  /\ \E x \in Overs \cup Goings :
                 /\ dispatch' = [dispatch EXCEPT ![d] = x]
                 /\ GroupsAreSound(x)
                 /\ x.pc = "over" => x.matched = {}
                 /\ x.pc = "running" => x.busy = {}
                 /\ x.pc = "running" /\ Globals <= 2 =>
                       \A e \in x.matched : \E g \in DOMAIN x.left : \E i \in 1..Len(x.left[g]) :
                          x.left[g][i] = e
           /\ dispatch[d] = Waiting
           /\ UNCHANGED <<found, changes, running, cancelled, ran, replaced>>
<1>1. dispatch[d] = Waiting /\ UNCHANGED <<found, changes, running, cancelled, ran, replaced>>
  BY DEF Begin
<1>2. PICK req \in Requests :
        IF Matching(req) = {} THEN dispatch' = [dispatch EXCEPT ![d] = [pc |-> "over", matched |-> {}]]
        ELSE \E groups \in Groupings(Matching(req)) : \E order \in Orderings(groups) :
                dispatch' = [dispatch EXCEPT ![d] =
                    [pc |-> "running", matched |-> Matching(req), req |-> req, busy |-> {},
                     left |-> order]]
  BY DEF Begin
<1> DEFINE m == Matching(req)
<1>3. m \in SUBSET Extensions /\ \A e \in m : req.event = "service" => e.owner \in {NoService, req.service}
  BY DEF Matching
<1>4. CASE m = {}
  <2> DEFINE x == [pc |-> "over", matched |-> {}]
  <2>1. x \in Overs /\ x.pc = "over" /\ x.matched = {} /\ GroupsAreSound(x)
    BY DEF Overs, GroupsAreSound
  <2>2. dispatch' = [dispatch EXCEPT ![d] = x]
    BY <1>2, <1>4
  <2> HIDE DEF x
  <2> QED
    BY <1>1, <2>1, <2>2
<1>5. CASE m # {}
  <2>0. PICK groups \in Groupings(m) : \E order \in Orderings(groups) :
          dispatch' = [dispatch EXCEPT ![d] =
              [pc |-> "running", matched |-> m, req |-> req, busy |-> {}, left |-> order]]
    BY <1>2, <1>5
  <2>1. PICK order \in Orderings(groups) :
          dispatch' = [dispatch EXCEPT ![d] =
              [pc |-> "running", matched |-> m, req |-> req, busy |-> {}, left |-> order]]
    BY <2>0
  <2> DEFINE x == [pc |-> "running", matched |-> m, req |-> req, busy |-> {}, left |-> order]
  <2>11. m \in SUBSET Extensions /\ groups \in Groupings(m)
    BY <1>3, <2>0
  <2> HIDE DEF m
  <2>2. /\ \A g \in DOMAIN groups : groups[g] \subseteq m
        /\ \/ DOMAIN groups = {NoService} /\ \A e \in m : e.owner = NoService
           \/ DOMAIN groups = {e.owner : e \in m} \ {NoService}
        /\ Globals <= 2 => \A e \in m : \E g \in DOMAIN groups : e \in groups[g]
    BY <2>11, GroupsAreOfTheMatch
  <2>3. DOMAIN groups \subseteq Names
    BY <1>3, <2>2 DEF Names, Extensions
  <2>4. ASSUME NEW g \in DOMAIN groups
        PROVE  /\ order[g] \in Seq(Extensions)
               /\ \A e \in groups[g] : \E i \in 1..Len(order[g]) : order[g][i] = e
    <3>1. IsFiniteSet(groups[g]) /\ groups[g] \subseteq Extensions
      BY <1>3, <2>2, ExtensionsAreFew
    <3>2. order[g] \in SetToSeqs(groups[g])
      BY <2>1 DEF Orderings, InOrder
    <3>3. /\ order[g] \in Seq(groups[g])
          /\ \A e \in groups[g] : \E i \in 1..Len(order[g]) : order[g][i] = e
      BY <3>1, <3>2, OrderHasAll
    <3>4. order[g] \in Seq(Extensions)
      BY <3>1, <3>3
    <3> QED
      BY <3>3, <3>4
  <2>5. order \in [DOMAIN groups -> Seq(Extensions)] /\ DOMAIN order = DOMAIN groups
    BY <2>1, <2>4 DEF Orderings
  <2>6. x \in Goings
    BY <1>3, <2>3, <2>5 DEF Goings
  <2>7. req.event = "service" => \A g, h \in DOMAIN groups : g = h
    BY <1>3, <2>2
  <2>8. GroupsAreSound(x)
    BY <2>5, <2>7 DEF GroupsAreSound
  <2>9. Globals <= 2 =>
           \A e \in x.matched : \E g \in DOMAIN x.left : \E i \in 1..Len(x.left[g]) : x.left[g][i] = e
    BY <2>2, <2>4, <2>5
  <2>10. x.pc = "running" /\ x.busy = {} /\ dispatch' = [dispatch EXCEPT ![d] = x]
    BY <2>1
  <2> HIDE DEF x
  <2> QED
    BY <1>1, <2>6, <2>8, <2>9, <2>10
<1> QED
  BY <1>4, <1>5

\* A dispatch that begins or is over has no run.
LEMMA NoRunChanges ==
    ASSUME DispatchInv, NEW d \in Dispatches, NEW x \in Overs \cup Goings, GroupsAreSound(x),
           dispatch' = [dispatch EXCEPT ![d] = x], x.pc = "running" => x.busy = {},
           dispatch[d].pc = "running" => dispatch[d].busy = {},
           UNCHANGED <<found, changes, running, cancelled, ran, replaced>>
    PROVE  DispatchInv'
<1>1. /\ dispatch \in [Dispatches -> {Waiting} \cup Overs \cup Goings]
      /\ \A c \in Dispatches : GroupsAreSound(dispatch[c])
  BY DEF DispatchInv, FormsAreSound
<1>2. dispatch'[d] = x /\ \A c \in Dispatches : c # d => dispatch'[c] = dispatch[c]
  BY <1>1
<1>3. FormsAreSound'
  BY <1>1, <1>2 DEF FormsAreSound
<1>4. BusyRuns' = BusyRuns
  BY <1>2 DEF BusyRuns
<1>5. \A r \in BusyRuns : KeyOf(r)' = KeyOf(r)
  BY <1>2 DEF BusyRuns, KeyOf, At
<1>6. RunsAreBusy'
  BY <1>4, <1>5 DEF DispatchInv, RunsAreBusy
<1>7. DispatchTypeOK'
  BY <1>2 DEF DispatchInv, DispatchTypeOK, Overs, Goings
<1> QED
  BY <1>3, <1>6, <1>7 DEF DispatchInv
LEMMA OverForm ==
    ASSUME DispatchInv, NEW d \in Dispatches, Over(d)
    PROVE  /\ \E x \in Overs : /\ dispatch' = [dispatch EXCEPT ![d] = x]
                               /\ GroupsAreSound(x)
                               /\ x.pc = "over" /\ x.matched = dispatch[d].matched
           /\ dispatch[d].pc = "running" /\ dispatch[d].busy = {}
           /\ \A g \in DOMAIN dispatch[d].left : dispatch[d].left[g] = <<>>
           /\ UNCHANGED <<found, changes, running, cancelled, ran, replaced>>
<1>1. /\ dispatch[d].pc = "running"
      /\ \A g \in DOMAIN dispatch[d].left : dispatch[d].left[g] = <<>>
      /\ dispatch' = [dispatch EXCEPT ![d] = [pc |-> "over", matched |-> dispatch[d].matched]]
      /\ UNCHANGED <<found, changes, running, cancelled, ran, replaced>>
  BY DEF Over, DispatchInv, FormsAreSound
<1>2. FormsAreSound
  BY DEF DispatchInv
<1>3. /\ dispatch[d].matched \in SUBSET Extensions
      /\ dispatch[d].busy \subseteq DOMAIN dispatch[d].left
  BY <1>1, <1>2, GoingIsTyped
<1>4. dispatch[d].busy = {}
  BY <1>1, <1>2, <1>3 DEF FormsAreSound, GroupsAreSound
<1> DEFINE x == [pc |-> "over", matched |-> dispatch[d].matched]
<1>5. x \in Overs /\ GroupsAreSound(x) /\ x.pc = "over" /\ x.matched = dispatch[d].matched
  BY <1>3 DEF Overs, GroupsAreSound
<1> HIDE DEF x
<1>6. dispatch' = [dispatch EXCEPT ![d] = x]
  BY <1>1 DEF x
<1> QED
  BY <1>1, <1>4, <1>5, <1>6

\* What a group does that takes its next extension in hand.
LEMMA ReplaceForm ==
    ASSUME DispatchInv, NEW d \in Dispatches, NEW g \in Names, ApplyReplace(d, g)
    PROVE  /\ dispatch[d].pc = "running" /\ g \in DOMAIN dispatch[d].left \ dispatch[d].busy
           /\ dispatch[d].left[g] # <<>>
           /\ dispatch'[d].pc = "running" /\ dispatch'[d].matched = dispatch[d].matched
           /\ dispatch'[d].req = dispatch[d].req /\ dispatch'[d].left = dispatch[d].left
           /\ dispatch'[d].busy = dispatch[d].busy \cup {g}
           /\ \A c \in Dispatches : c # d => dispatch'[c] = dispatch[c]
           /\ FormsAreSound'
<1>0. FormsAreSound
  BY DEF DispatchInv
<1>1. /\ dispatch[d].pc = "running" /\ g \in DOMAIN dispatch[d].left \ dispatch[d].busy
      /\ dispatch[d].left[g] # <<>>
      /\ dispatch' = [dispatch EXCEPT ![d].busy = @ \cup {g}]
  BY DEF ApplyReplace
<1> DEFINE x == [dispatch[d] EXCEPT !.busy = @ \cup {g}]
<1>2. dispatch[d] \in Goings
  BY <1>0, <1>1, GoingIsTyped
<1>3. /\ x \in Goings /\ x.pc = "running" /\ x.matched = dispatch[d].matched
      /\ x.req = dispatch[d].req /\ x.left = dispatch[d].left /\ x.busy = dispatch[d].busy \cup {g}
  BY <1>2 DEF Goings
<1>4. dispatch' = [dispatch EXCEPT ![d] = x]
  BY <1>1
<1> HIDE DEF x
<1>5. dispatch'[d] = x /\ \A c \in Dispatches : c # d => dispatch'[c] = dispatch[c]
  BY <1>0, <1>4 DEF FormsAreSound
<1>6. GroupsAreSound(x)
  BY <1>0, <1>1, <1>3 DEF FormsAreSound, GroupsAreSound
<1>7. FormsAreSound'
  BY <1>0, <1>3, <1>4, <1>5, <1>6 DEF FormsAreSound
<1> QED
  BY <1>1, <1>3, <1>5, <1>7

\* And one that has ended it.
LEMMA EndForm ==
    ASSUME DispatchInv, NEW d \in Dispatches, NEW g \in Names, ExtensionEnds(d, g)
    PROVE  /\ dispatch[d].pc = "running" /\ g \in dispatch[d].busy
           /\ g \in DOMAIN dispatch[d].left /\ dispatch[d].left[g] # <<>>
           /\ dispatch'[d].pc = "running" /\ dispatch'[d].matched = dispatch[d].matched
           /\ dispatch'[d].req = dispatch[d].req
           /\ DOMAIN dispatch'[d].left = DOMAIN dispatch[d].left
           /\ dispatch'[d].left[g] = Tail(dispatch[d].left[g])
           /\ \A h \in DOMAIN dispatch[d].left : h # g => dispatch'[d].left[h] = dispatch[d].left[h]
           /\ dispatch'[d].busy = dispatch[d].busy \ {g}
           /\ \A c \in Dispatches : c # d => dispatch'[c] = dispatch[c]
           /\ FormsAreSound'
<1>0. FormsAreSound
  BY DEF DispatchInv
<1>1. /\ dispatch[d].pc = "running" /\ g \in dispatch[d].busy
      /\ dispatch' = [dispatch EXCEPT ![d].busy = @ \ {g}, ![d].left[g] = Tail(@)]
  BY DEF ExtensionEnds
<1>2. /\ dispatch[d] \in Goings
      /\ dispatch[d].busy \subseteq DOMAIN dispatch[d].left
      /\ DOMAIN dispatch[d].left \subseteq Names
      /\ dispatch[d].left \in [DOMAIN dispatch[d].left -> Seq(Extensions)]
  BY <1>0, <1>1, GoingIsTyped
<1>3. dispatch[d].left[g] # <<>> /\ g \in DOMAIN dispatch[d].left
  BY <1>0, <1>1, <1>2 DEF FormsAreSound, GroupsAreSound
<1> DEFINE l == [dispatch[d].left EXCEPT ![g] = Tail(dispatch[d].left[g])]
           x == [dispatch[d] EXCEPT !.busy = dispatch[d].busy \ {g}, !.left = l]
<1>4. Tail(dispatch[d].left[g]) \in Seq(Extensions)
  BY <1>0, <1>1, <1>3, InHandIsTyped
<1>5. /\ l \in [DOMAIN dispatch[d].left -> Seq(Extensions)] /\ DOMAIN l = DOMAIN dispatch[d].left
      /\ l[g] = Tail(dispatch[d].left[g])
      /\ \A h \in DOMAIN dispatch[d].left : h # g => l[h] = dispatch[d].left[h]
  BY <1>2, <1>3, <1>4
<1>6. dispatch' = [dispatch EXCEPT ![d] = x]
  BY <1>0, <1>1, <1>2, <1>3 DEF FormsAreSound, Goings
<1> HIDE DEF l
<1>7. /\ x.pc = "running" /\ x.matched = dispatch[d].matched /\ x.req = dispatch[d].req
      /\ x.left = l /\ x.busy = dispatch[d].busy \ {g}
  BY <1>2 DEF Goings
<1>8. x \in Goings
  <2>1. l \in UNION {[G -> Seq(Extensions)] : G \in SUBSET Names}
    BY <1>2, <1>5
  <2>2. dispatch[d].busy \ {g} \in SUBSET Names
    BY <1>2 DEF Goings
  <2> QED
    BY <1>2, <2>1, <2>2 DEF Goings
<1> HIDE DEF x
<1>9. dispatch'[d] = x /\ \A c \in Dispatches : c # d => dispatch'[c] = dispatch[c]
  BY <1>0, <1>6 DEF FormsAreSound
<1>10. GroupsAreSound(x)
  <2>1. GroupsAreSound(dispatch[d])
    BY <1>0 DEF FormsAreSound
  <2>2. \A h \in x.busy : h \in dispatch[d].busy /\ h # g
    BY <1>7
  <2> QED
    BY <1>1, <1>2, <1>5, <1>7, <2>1, <2>2 DEF GroupsAreSound
<1>11. FormsAreSound'
  BY <1>0, <1>6, <1>8, <1>9, <1>10 DEF FormsAreSound
<1> QED
  BY <1>1, <1>3, <1>5, <1>7, <1>9, <1>11
LEMMA ApplyReplaceKeeps ==
    ASSUME DispatchInv, NEW d \in Dispatches, NEW g \in Names, ApplyReplace(d, g)
    PROVE  DispatchInv'
<1> DEFINE k == Key(dispatch[d].req, At(d, g))
<1>0. /\ DispatchTypeOK /\ FormsAreSound /\ RunsAreBusy
      /\ BusyRuns \subseteq Dispatches \X Names
  BY DEF DispatchInv, BusyRuns
<1>1. /\ dispatch[d].pc = "running" /\ g \in DOMAIN dispatch[d].left \ dispatch[d].busy
      /\ dispatch[d].left[g] # <<>>
      /\ dispatch'[d].pc = "running" /\ dispatch'[d].matched = dispatch[d].matched
      /\ dispatch'[d].req = dispatch[d].req /\ dispatch'[d].left = dispatch[d].left
      /\ dispatch'[d].busy = dispatch[d].busy \cup {g}
      /\ \A c \in Dispatches : c # d => dispatch'[c] = dispatch[c]
      /\ FormsAreSound'
  BY ReplaceForm
<1>2. /\ cancelled' = cancelled \cup Under(k)
      /\ replaced' = replaced \cup {<<r[1], At(r[1], r[2])>> : r \in {r \in Under(k) : r[1] # d}}
      /\ running' = WithRuns(k, {<<d, g>>})
      /\ UNCHANGED <<found, changes, ran>>
  BY DEF ApplyReplace
<1>3. k \in Actions
  BY <1>0, <1>1, InHandIsTyped
<1>4. Under(k) \subseteq BusyRuns
  BY <1>0 DEF Under, RunsAreBusy
<1> HIDE DEF k
<1>5. ASSUME NEW r \in BusyRuns PROVE (r \in BusyRuns)' /\ KeyOf(r)' = KeyOf(r)
  BY <1>0, <1>1 DEF BusyRuns, KeyOf, At
<1>6. <<d, g>> \in BusyRuns' /\ KeyOf(<<d, g>>)' = k
  BY <1>1 DEF BusyRuns, KeyOf, At, k
<1>7. RunsAreBusy'
  <2>1. ASSUME NEW j \in DOMAIN running' PROVE running'[j] \subseteq {r \in BusyRuns' : KeyOf(r)' = j}
    <3>1. CASE j = k
      BY <1>2, <1>6, <3>1 DEF WithRuns
    <3>2. CASE j # k
      <4>1. j \in DOMAIN running /\ running'[j] = running[j]
        BY <1>2, <3>2 DEF WithRuns
      <4>2. running[j] \subseteq {r \in BusyRuns : KeyOf(r) = j}
        BY <1>0, <4>1 DEF RunsAreBusy
      <4> QED
        BY <1>5, <4>1, <4>2
    <3> QED
      BY <3>1, <3>2
  <2>2. cancelled' \subseteq BusyRuns'
    BY <1>0, <1>2, <1>4, <1>5 DEF RunsAreBusy
  <2> QED
    BY <2>1, <2>2 DEF RunsAreBusy
<1>8. DispatchTypeOK'
  <2>1. \A r \in BusyRuns : <<r[1], At(r[1], r[2])>> \in Dispatches \X Extensions
    <3> SUFFICES ASSUME NEW r \in BusyRuns PROVE <<r[1], At(r[1], r[2])>> \in Dispatches \X Extensions
      OBVIOUS
    <3>1. r[1] \in Dispatches /\ dispatch[r[1]].pc = "running" /\ r[2] \in dispatch[r[1]].busy
      BY DEF BusyRuns
    <3>2. r[2] \in DOMAIN dispatch[r[1]].left /\ dispatch[r[1]].left[r[2]] # <<>>
      BY <1>0, <3>1 DEF FormsAreSound, GroupsAreSound
    <3>3. At(r[1], r[2]) \in Extensions
      BY <1>0, <3>1, <3>2, InHandIsTyped
    <3> QED
      BY <3>1, <3>3
  <2>2. replaced' \subseteq Dispatches \X Extensions
    BY <1>0, <1>2, <1>4, <2>1 DEF DispatchTypeOK
  <2>3. DOMAIN running' \subseteq Actions
    BY <1>0, <1>2, <1>3 DEF WithRuns, DispatchTypeOK
  <2>4. \A c \in Dispatches : dispatch'[c].pc \in {"idle", "running", "over"}
    BY <1>0, <1>1 DEF DispatchTypeOK
  <2> QED
    BY <1>0, <1>2, <2>2, <2>3, <2>4 DEF DispatchTypeOK
<1> QED
  BY <1>1, <1>7, <1>8 DEF DispatchInv

LEMMA ExtensionEndsKeeps ==
    ASSUME DispatchInv, NEW d \in Dispatches, NEW g \in Names, ExtensionEnds(d, g)
    PROVE  DispatchInv'
<1> DEFINE k == Key(dispatch[d].req, At(d, g))
<1>0. /\ DispatchTypeOK /\ FormsAreSound /\ RunsAreBusy
      /\ BusyRuns \subseteq Dispatches \X Names
  BY DEF DispatchInv, BusyRuns
<1>1. /\ dispatch[d].pc = "running" /\ g \in dispatch[d].busy
      /\ g \in DOMAIN dispatch[d].left /\ dispatch[d].left[g] # <<>>
      /\ dispatch'[d].pc = "running" /\ dispatch'[d].matched = dispatch[d].matched
      /\ dispatch'[d].req = dispatch[d].req
      /\ \A h \in DOMAIN dispatch[d].left : h # g => dispatch'[d].left[h] = dispatch[d].left[h]
      /\ dispatch'[d].busy = dispatch[d].busy \ {g}
      /\ \A c \in Dispatches : c # d => dispatch'[c] = dispatch[c]
      /\ FormsAreSound'
  BY EndForm
<1>2. /\ running' = IF k \in DOMAIN running THEN WithRuns(k, Under(k) \ {<<d, g>>}) ELSE running
      /\ ran' = IF <<d, g>> \in cancelled THEN ran ELSE ran \cup {<<d, At(d, g)>>}
      /\ cancelled' = cancelled \ {<<d, g>>}
      /\ UNCHANGED <<found, changes, replaced>>
  BY DEF ExtensionEnds
<1>3. k \in Actions /\ At(d, g) \in Extensions
  BY <1>0, <1>1, InHandIsTyped
<1>4. KeyOf(<<d, g>>) = k
  BY DEF KeyOf
<1> HIDE DEF k
<1>5. ASSUME NEW r \in BusyRuns, r # <<d, g>> PROVE (r \in BusyRuns)' /\ KeyOf(r)' = KeyOf(r)
  <2>1. CASE r[1] # d
    BY <1>0, <1>1, <2>1 DEF BusyRuns, KeyOf, At
  <2>2. CASE r[1] = d
    <3>1. r[2] # g /\ r[2] \in dispatch[d].busy /\ r \in Dispatches \X Names
      BY <1>0, <1>5, <2>2 DEF BusyRuns
    <3>2. r[2] \in DOMAIN dispatch[d].left
      BY <1>0, <1>1, <3>1, GoingIsTyped
    <3> QED
      BY <1>1, <2>2, <3>1, <3>2 DEF BusyRuns, KeyOf, At
  <2> QED
    BY <2>1, <2>2
<1>6. ASSUME NEW j \in DOMAIN running'
      PROVE  running'[j] \subseteq {r \in BusyRuns' : KeyOf(r)' = j}
  <2>1. j \in DOMAIN running /\ running'[j] \subseteq running[j]
    <3>1. CASE k \in DOMAIN running
      BY <1>2, <3>1 DEF WithRuns, Under
    <3>2. CASE k \notin DOMAIN running
      BY <1>2, <3>2
    <3> QED
      BY <3>1, <3>2
  <2>2. running[j] \subseteq {r \in BusyRuns : KeyOf(r) = j}
    BY <1>0, <2>1 DEF RunsAreBusy
  <2>3. <<d, g>> \notin running'[j]
    <3>1. CASE j = k
      BY <1>2, <2>1, <3>1 DEF WithRuns
    <3>2. CASE j # k
      BY <1>4, <2>1, <2>2, <3>2
    <3> QED
      BY <3>1, <3>2
  <2> QED
    BY <1>5, <2>1, <2>2, <2>3
<1>7. cancelled' \subseteq BusyRuns'
  BY <1>0, <1>2, <1>5 DEF RunsAreBusy
<1>8. DispatchTypeOK'
  <2>1. ran' \subseteq Dispatches \X Extensions
    BY <1>0, <1>2, <1>3 DEF DispatchTypeOK
  <2>2. DOMAIN running' \subseteq Actions
    <3>1. CASE k \in DOMAIN running
      BY <1>0, <1>2, <1>3, <3>1 DEF WithRuns, DispatchTypeOK
    <3>2. CASE k \notin DOMAIN running
      BY <1>0, <1>2, <3>2 DEF DispatchTypeOK
    <3> QED
      BY <3>1, <3>2
  <2>3. \A c \in Dispatches : dispatch'[c].pc \in {"idle", "running", "over"}
    BY <1>0, <1>1 DEF DispatchTypeOK
  <2> QED
    BY <1>0, <1>2, <2>1, <2>2, <2>3 DEF DispatchTypeOK
<1>9. RunsAreBusy'
  BY <1>6, <1>7 DEF RunsAreBusy
<1> QED
  BY <1>1, <1>8, <1>9 DEF DispatchInv

LEMMA RediscoverKeeps ==
    ASSUME DispatchInv, Rediscover
    PROVE  DispatchInv'
<1>1. /\ found' \in [Extensions -> Kinds] /\ changes' \in 0..MaxChanges
      /\ UNCHANGED <<cancelled, dispatch, ran, replaced>>
  BY DispatchAssumption DEF Rediscover, DispatchInv, DispatchTypeOK
<1>2. DOMAIN running' \subseteq DOMAIN running /\ \A k \in DOMAIN running' : running'[k] = running[k]
  BY DEF Rediscover
<1>3. BusyRuns' = BusyRuns /\ \A r \in BusyRuns : KeyOf(r)' = KeyOf(r)
  BY <1>1 DEF BusyRuns, KeyOf, At
<1>4. DispatchTypeOK'
  BY <1>1, <1>2 DEF DispatchInv, DispatchTypeOK
<1>5. RunsAreBusy'
  BY <1>1, <1>2, <1>3 DEF DispatchInv, RunsAreBusy
<1> QED
  BY <1>1, <1>4, <1>5 DEF DispatchInv, FormsAreSound

LEMMA DispatchKept == DispatchInv /\ DispatchNext => DispatchInv'
<1> SUFFICES ASSUME DispatchInv, DispatchNext PROVE DispatchInv'
  OBVIOUS
<1>1. ASSUME NEW d \in Dispatches, Begin(d) PROVE DispatchInv'
  BY <1>1, BeginForms, NoRunChanges DEF Waiting
<1>2. ASSUME NEW d \in Dispatches, Over(d) PROVE DispatchInv'
  BY <1>2, OverForm, NoRunChanges
<1>3. ASSUME NEW d \in Dispatches, NEW g \in Names, ApplyReplace(d, g) PROVE DispatchInv'
  BY <1>3, ApplyReplaceKeeps
<1>4. ASSUME NEW d \in Dispatches, NEW g \in Names, ExtensionEnds(d, g) PROVE DispatchInv'
  BY <1>4, ExtensionEndsKeeps
<1> QED
  BY <1>1, <1>2, <1>3, <1>4, RediscoverKeeps DEF DispatchNext, Names
-----------------------------------------------------------------------------
(* Dispatches: nothing that matched is lost. *)

\* Nothing is lost of a dispatch that stays as it was, of whose runs none is cancelled.
LEMMA LostStays ==
    ASSUME NEW d \in Dispatches, NoneIsLost(d), dispatch'[d] = dispatch[d],
           \A g : <<d, g>> \in cancelled' => <<d, g>> \in cancelled,
           ran \cup replaced \subseteq ran' \cup replaced'
    PROVE  NoneIsLost(d)'
BY DEF NoneIsLost, Ahead

\* A run that is cancelled leaves its extension to the run that cancels it: of another
\* dispatch, which is written down, or of another group of its own, which has the
\* extension in hand.
LEMMA ApplyReplaceLosesNone ==
    ASSUME DispatchInv, \A d \in Dispatches : NoneIsLost(d),
           NEW d \in Dispatches, NEW g \in Names, ApplyReplace(d, g), NEW c \in Dispatches
    PROVE  NoneIsLost(c)'
<1> DEFINE k == Key(dispatch[d].req, At(d, g))
<1>0. /\ FormsAreSound /\ RunsAreBusy
      /\ BusyRuns \subseteq Dispatches \X Names
  BY DEF DispatchInv, BusyRuns
<1>1. /\ dispatch[d].pc = "running" /\ g \in DOMAIN dispatch[d].left \ dispatch[d].busy
      /\ dispatch[d].left[g] # <<>>
      /\ dispatch'[d].pc = "running" /\ dispatch'[d].matched = dispatch[d].matched
      /\ dispatch'[d].left = dispatch[d].left
      /\ \A x \in Dispatches : x # d => dispatch'[x] = dispatch[x]
  BY ReplaceForm
<1>2. /\ cancelled' = cancelled \cup Under(k)
      /\ replaced' = replaced \cup {<<r[1], At(r[1], r[2])>> : r \in {r \in Under(k) : r[1] # d}}
      /\ UNCHANGED ran
  BY DEF ApplyReplace
<1>3. Under(k) \subseteq {r \in BusyRuns : KeyOf(r) = k}
  BY <1>0 DEF Under, RunsAreBusy
<1>4. /\ dispatch'[c].pc = dispatch[c].pc /\ dispatch'[c].matched = dispatch[c].matched
      /\ dispatch[c].pc = "running" => dispatch'[c].left = dispatch[c].left
  BY <1>1
<1>5. NoneIsLost(c) /\ ran \cup replaced \subseteq ran' \cup replaced'
  BY <1>2
<1>6. CASE dispatch[c].pc # "running"
  BY <1>4, <1>5, <1>6 DEF NoneIsLost
<1>7. CASE dispatch[c].pc = "running"
  <2> SUFFICES ASSUME NEW e \in dispatch[c].matched, <<c, e>> \notin ran' \cup replaced'
               PROVE  Ahead(c, e)'
    BY <1>4, <1>7 DEF NoneIsLost
  <2>1. Ahead(c, e)
    BY <1>5, <1>7 DEF NoneIsLost
  <2>11. PICK h \in DOMAIN dispatch[c].left : \E i \in 1..Len(dispatch[c].left[h]) :
          dispatch[c].left[h][i] = e /\ ~(i = 1 /\ <<c, h>> \in cancelled)
    BY <2>1 DEF Ahead
  <2>2. PICK i \in 1..Len(dispatch[c].left[h]) :
          dispatch[c].left[h][i] = e /\ ~(i = 1 /\ <<c, h>> \in cancelled)
    BY <2>11
  <2>3. CASE i # 1 \/ <<c, h>> \notin Under(k)
    <3>1. ~(i = 1 /\ <<c, h>> \in cancelled')
      BY <1>2, <2>2, <2>3
    <3> QED
      BY <1>4, <1>7, <2>2, <3>1 DEF Ahead
  <2>4. CASE i = 1 /\ <<c, h>> \in Under(k)
    <3>1. <<c, h>> \in BusyRuns /\ KeyOf(<<c, h>>) = k
      BY <1>3, <2>4
    <3>2. h \in dispatch[c].busy
      BY <3>1 DEF BusyRuns
    <3>3. At(c, h) = e /\ At(c, h) \in Extensions
      <4>1. dispatch[c].left[h] # <<>>
        BY <1>0, <1>7, <3>2 DEF FormsAreSound, GroupsAreSound
      <4> QED
        BY <1>0, <1>7, <2>2, <2>4, <4>1, InHandIsTyped
    <3>4. c = d
      <4> SUFFICES ASSUME c # d PROVE FALSE
        OBVIOUS
      <4>1. <<c, At(c, h)>> \in replaced'
        BY <1>2, <2>4
      <4> QED
        BY <3>3, <4>1
    <3>5. h # g
      BY <1>1, <3>2, <3>4
    <3>6. dispatch[d].req \in Requests /\ dispatch[d].req.event # "service"
      <4>1. dispatch[d].req \in Requests
        BY <1>0, <1>1, GoingIsTyped
      <4>2. dispatch[d].req.event # "service"
        BY <1>0, <1>1, <2>2, <3>4, <3>5 DEF FormsAreSound, GroupsAreSound
      <4> QED
        BY <4>1, <4>2
    <3>7. At(d, g) \in Extensions /\ At(d, g) = dispatch[d].left[g][1]
          /\ Len(dispatch[d].left[g]) \in Nat \ {0}
      BY <1>0, <1>1, InHandIsTyped
    <3>8. At(d, g) = e
      BY <3>1, <3>3, <3>4, <3>6, <3>7, KeyTellsApart DEF KeyOf
    <3>9. <<d, g>> \notin cancelled'
      BY <1>0, <1>1, <1>2, <1>3 DEF RunsAreBusy, BusyRuns
    <3>10. 1 \in 1..Len(dispatch[d].left[g])
      BY <3>7
    <3> QED
      BY <1>1, <3>4, <3>7, <3>8, <3>9, <3>10 DEF Ahead
  <2> QED
    BY <2>3, <2>4
<1> QED
  BY <1>6, <1>7

LEMMA ExtensionEndsLosesNone ==
    ASSUME DispatchInv, \A d \in Dispatches : NoneIsLost(d),
           NEW d \in Dispatches, NEW g \in Names, ExtensionEnds(d, g), NEW c \in Dispatches
    PROVE  NoneIsLost(c)'
<1>0. FormsAreSound
  BY DEF DispatchInv
<1>1. /\ dispatch[d].pc = "running" /\ g \in dispatch[d].busy
      /\ g \in DOMAIN dispatch[d].left /\ dispatch[d].left[g] # <<>>
      /\ dispatch'[d].pc = "running" /\ dispatch'[d].matched = dispatch[d].matched
      /\ DOMAIN dispatch'[d].left = DOMAIN dispatch[d].left
      /\ dispatch'[d].left[g] = Tail(dispatch[d].left[g])
      /\ \A h \in DOMAIN dispatch[d].left : h # g => dispatch'[d].left[h] = dispatch[d].left[h]
      /\ \A x \in Dispatches : x # d => dispatch'[x] = dispatch[x]
  BY EndForm
<1>2. /\ ran' = IF <<d, g>> \in cancelled THEN ran ELSE ran \cup {<<d, At(d, g)>>}
      /\ cancelled' = cancelled \ {<<d, g>>}
      /\ UNCHANGED replaced
  BY DEF ExtensionEnds
<1>3. ran \cup replaced \subseteq ran' \cup replaced'
  BY <1>2
<1>4. CASE c # d
  BY <1>1, <1>2, <1>3, <1>4, LostStays
<1>5. CASE c = d
  <2> SUFFICES ASSUME NEW e \in dispatch[d].matched, <<d, e>> \notin ran' \cup replaced'
               PROVE  Ahead(d, e)'
    BY <1>1, <1>5 DEF NoneIsLost
  <2>1. Ahead(d, e)
    BY <1>1, <1>3 DEF NoneIsLost
  <2>11. PICK h \in DOMAIN dispatch[d].left : \E i \in 1..Len(dispatch[d].left[h]) :
          dispatch[d].left[h][i] = e /\ ~(i = 1 /\ <<d, h>> \in cancelled)
    BY <2>1 DEF Ahead
  <2>2. PICK i \in 1..Len(dispatch[d].left[h]) :
          dispatch[d].left[h][i] = e /\ ~(i = 1 /\ <<d, h>> \in cancelled)
    BY <2>11
  <2>3. CASE h # g
    <3>1. ~(i = 1 /\ <<d, h>> \in cancelled')
      BY <1>2, <2>2
    <3> QED
      BY <1>1, <2>2, <2>3, <3>1 DEF Ahead
  <2>4. CASE h = g
    <3>1. /\ At(d, g) = dispatch[d].left[g][1] /\ dispatch[d].left[g] \in Seq(Extensions)
          /\ Len(dispatch[d].left[g]) \in Nat \ {0}
      BY <1>0, <1>1, InHandIsTyped, GoingIsTyped
    <3>2. i # 1
      <4> SUFFICES ASSUME i = 1 PROVE FALSE
        OBVIOUS
      <4>1. <<d, g>> \notin cancelled /\ At(d, g) = e
        BY <2>2, <2>4, <3>1
      <4> QED
        BY <1>2, <4>1
    <3>3. /\ i - 1 \in 1..Len(Tail(dispatch[d].left[g]))
          /\ Tail(dispatch[d].left[g])[i - 1] = dispatch[d].left[g][i]
      BY <2>2, <2>4, <3>1, <3>2
    <3>4. <<d, g>> \notin cancelled'
      BY <1>2
    <3> QED
      BY <1>1, <2>2, <2>4, <3>3, <3>4 DEF Ahead
  <2> QED
    BY <2>3, <2>4
<1> QED
  BY <1>4, <1>5

LEMMA DispatchLosesNone ==
    ASSUME Globals <= 2, DispatchInv, \A d \in Dispatches : NoneIsLost(d), DispatchNext
    PROVE  (\A d \in Dispatches : NoneIsLost(d))'
<1> SUFFICES ASSUME NEW c \in Dispatches PROVE NoneIsLost(c)'
  OBVIOUS
<1>1. ASSUME NEW d \in Dispatches, Begin(d) PROVE NoneIsLost(c)'
  <2>1. PICK x \in Overs \cup Goings :
          /\ dispatch' = [dispatch EXCEPT ![d] = x]
          /\ x.pc = "over" => x.matched = {}
          /\ x.pc = "running" => x.busy = {}
          /\ x.pc = "running" =>
                \A e \in x.matched : \E g \in DOMAIN x.left : \E i \in 1..Len(x.left[g]) :
                   x.left[g][i] = e
    BY <1>1, BeginForms
  <2>2. dispatch[d] = Waiting /\ UNCHANGED <<running, cancelled, ran, replaced>>
    BY <1>1, BeginForms
  <2>3. dispatch'[d] = x /\ \A y \in Dispatches : y # d => dispatch'[y] = dispatch[y]
    BY <2>1 DEF DispatchInv, FormsAreSound
  <2>4. \A g : <<d, g>> \notin cancelled
    BY <2>2 DEF DispatchInv, RunsAreBusy, BusyRuns, Waiting
  <2>5. CASE c = d
    BY <2>1, <2>2, <2>3, <2>4, <2>5 DEF NoneIsLost, Ahead
  <2>6. CASE c # d
    BY <2>2, <2>3, <2>6, LostStays
  <2> QED
    BY <2>5, <2>6
<1>2. ASSUME NEW d \in Dispatches, Over(d) PROVE NoneIsLost(c)'
  <2>1. PICK x \in Overs : /\ dispatch' = [dispatch EXCEPT ![d] = x]
                           /\ x.pc = "over" /\ x.matched = dispatch[d].matched
    BY <1>2, OverForm
  <2>2. /\ dispatch[d].pc = "running"
        /\ \A g \in DOMAIN dispatch[d].left : dispatch[d].left[g] = <<>>
        /\ UNCHANGED <<running, cancelled, ran, replaced>>
    BY <1>2, OverForm
  <2>3. dispatch'[d] = x /\ \A y \in Dispatches : y # d => dispatch'[y] = dispatch[y]
    BY <2>1 DEF DispatchInv, FormsAreSound
  <2>4. \A e : ~Ahead(d, e)
    <3>1. \A g \in DOMAIN dispatch[d].left : 1..Len(dispatch[d].left[g]) = {}
      <4>1. Len(<<>>) = 0 /\ 1..0 = {}
        OBVIOUS
      <4> QED
        BY <2>2, <4>1
    <3> QED
      BY <3>1 DEF Ahead
  <2>5. CASE c = d
    BY <2>1, <2>2, <2>3, <2>4, <2>5 DEF NoneIsLost
  <2>6. CASE c # d
    BY <2>2, <2>3, <2>6, LostStays
  <2> QED
    BY <2>5, <2>6
<1>3. ASSUME NEW d \in Dispatches, NEW g \in Names, ApplyReplace(d, g) PROVE NoneIsLost(c)'
  BY <1>3, ApplyReplaceLosesNone
<1>4. ASSUME NEW d \in Dispatches, NEW g \in Names, ExtensionEnds(d, g) PROVE NoneIsLost(c)'
  BY <1>4, ExtensionEndsLosesNone
<1>5. CASE Rediscover
  BY <1>5, LostStays DEF Rediscover
<1> QED
  BY <1>1, <1>2, <1>3, <1>4, <1>5 DEF DispatchNext, Names

-----------------------------------------------------------------------------
(* The theorems. *)

IInv == trigger \in Trigger /\ CronInv /\ DispatchInv /\ HistoryInv

LEMMA InvNext == IInv /\ [Next]_vars => IInv'
<1> SUFFICES ASSUME IInv, [Next]_vars PROVE IInv'
  OBVIOUS
<1>1. CASE UNCHANGED vars
  BY <1>1, CronStays, DispatchStays, HistoryStays DEF IInv, vars
<1>2. CASE trigger = "on_schedule" /\ CronNext /\ UNCHANGED <<trigger, dispatchVars,
                                                              historyVars>>
  BY <1>2, CronKept, DispatchStays, HistoryStays DEF IInv
<1>3. CASE trigger = "lifecycle" /\ DispatchNext /\ UNCHANGED <<trigger, cronVars, historyVars>>
  BY <1>3, CronStays, DispatchKept, HistoryStays DEF IInv
<1>4. CASE trigger = "on_demand" /\ HistoryNext /\ UNCHANGED <<trigger, cronVars, dispatchVars>>
  BY <1>4, CronStays, DispatchStays, HistoryKept DEF IInv
<1> QED
  BY <1>1, <1>2, <1>3, <1>4 DEF Next

\* The inductive invariant holds of every reachable state; the theorems below rest on it.
THEOREM SpecIInv == Spec => []IInv
<1>1. Init => IInv
  BY CronBegins, DispatchBegins, HistoryBegins DEF Init, IInv
<1>2. IInv /\ [Next]_vars => IInv'
  BY InvNext
<1> QED
  BY <1>1, <1>2, PTL DEF Spec

\* Every variable of the schedule, of the dispatches and of the history keeps its type,
\* whatever matched and however the groups were built.
THEOREM TypeCorrect == Spec => []TypeOK
<1>1. IInv => TypeOK
  BY DEF IInv, TypeOK, CronInv, DispatchInv, HistoryInv
<1> QED
  BY <1>1, SpecIInv, PTL

\* CronTrigger and CronScheduler.Stop: since the last reload an action has been granted no
\* more than max_retries for each of its runs, though they share one count and any of them
\* may clear it; and no scheduled run outlives a shutdown that could wait for it.
THEOREM RetriesAreBounded == Spec => []ScheduleIsBounded
<1>1. IInv => ScheduleIsBounded
  BY CronIsBounded DEF IInv
<1> QED
  BY <1>1, SpecIInv, PTL

\* Dispatch: if there are no more than two global extensions, so that append leaves no
\* room behind them in which the groups would write over each other, each extension that
\* matched has been run to its end when the dispatch is over, or has been left to another
\* dispatch, however many groups cancel the runs of each other. (With three it is not so,
\* which a run shows.)
THEOREM MatchesRun == ASSUME Globals <= 2 PROVE Spec => []EveryMatchRuns
<1> DEFINE Kept == IInv /\ \A d \in Dispatches : NoneIsLost(d)
<1>1. Init => Kept
  BY CronBegins, DispatchBegins, HistoryBegins DEF Init, IInv
<1>2. Kept /\ [Next]_vars => Kept'
  <2> SUFFICES ASSUME Kept, [Next]_vars PROVE Kept'
    OBVIOUS
  <2>1. IInv'
    BY InvNext
  <2>2. CASE UNCHANGED dispatchVars
    BY <2>1, <2>2, DispatchStays
  <2>3. CASE DispatchNext
    BY <2>1, <2>3, DispatchLosesNone DEF IInv
  <2> QED
    BY <2>2, <2>3 DEF Next, vars
<1>3. Kept => EveryMatchRuns
  BY DEF NoneIsLost, EveryMatchRuns
<1> QED
  BY <1>1, <1>2, <1>3, PTL DEF Spec

\* TaskHistory: what the history says of a run is so, whoever cleared, cleaned or
\* cancelled it in between.
THEOREM HistoryTellsTheTruth == Spec => []HistoryIsTrue
<1>1. IInv => HistoryIsTrue
  BY ToldIsTrue DEF IInv
<1> QED
  BY <1>1, SpecIInv, PTL
=============================================================================
