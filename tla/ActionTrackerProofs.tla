------------------------- MODULE ActionTrackerProofs -------------------------
(***************************************************************************)
(* What TLAPS proves of the concurrency policies: for any number of        *)
(* triggers, any capacity of the queue, and however often the extension is *)
(* removed and its tracker made anew.                                      *)
(***************************************************************************)
EXTENDS ActionTracker, ExtensionRun, TLAPS, SequenceTheorems, FiniteSetTheorems

-----------------------------------------------------------------------------
(* The inductive invariant. *)

Active == {"started", "executing", "finished"}

\* A trigger has a tracker from its first step on, one that has been made.
Given(t) ==
    /\ stage[t] = "idle" <=> tracker[t] = NoTracker
    /\ tracker[t] \in 0..made

\* Who is in a queue waits, there and once; a queue is behind a run, which is why the
\* end of a run is enough to serve it.
QueueIsSound(k) ==
    /\ \A i \in 1..Len(pending[k]) : /\ stage[pending[k][i]] = "pending"
                                     /\ tracker[pending[k][i]] = k
    /\ \A i, j \in 1..Len(pending[k]) : pending[k][i] = pending[k][j] => i = j
    /\ pending[k] # <<>> => policy = "serialize" /\ running[k] # {}

\* Who is behind the timer waits, for it.
TimerIsSound(k) ==
    debounced[k] # NoTrigger => /\ policy = "debounce"
                                /\ stage[debounced[k]] = "pending"
                                /\ tracker[debounced[k]] = k

\* runningRuns holds runs of its tracker that are not over, under all policies but
\* parallel one at the most.
RunsAreSound(k) ==
    /\ \A t \in running[k] : tracker[t] = k /\ stage[t] \in Active
    /\ policy # "parallel" => \A t, u \in running[k] : t = u

\* And it holds them all, but for those that were cancelled to make room.
RunIsKnown(t) ==
    stage[t] \in Active =>
        \/ t \in running[tracker[t]]
        \/ policy \in {"replace", "debounce"} /\ t \in cancelled

Counted(t) ==
    executions[t] = IF stage[t] \in {"executing", "finished", "ran"} THEN 1 ELSE 0

IInv ==
    /\ TypeOK
    /\ mapped => made # NoTracker
    /\ \A t \in Triggers : Given(t)
    /\ \A k \in Trackers : QueueIsSound(k)
    /\ \A k \in Trackers : TimerIsSound(k)
    /\ \A k \in Trackers : RunsAreSound(k)
    /\ \A t \in Triggers : RunIsKnown(t)
    /\ \A t \in Triggers : Counted(t)

-----------------------------------------------------------------------------
(* The steps, one by one. *)

\* A trigger that has come has a tracker.
LEMMA HasTracker ==
    ASSUME IInv, NEW t \in Triggers, stage[t] # "idle"
    PROVE  tracker[t] \in Trackers
BY DEF IInv, TypeOK, Given

LEMMA MadeIsTracker == IInv /\ mapped => made \in Trackers
BY DEF IInv, TypeOK, Trackers, NoTracker

\* The tracker of a trigger that calls Apply, and where the trigger is not.
LEMMA Tracked ==
    ASSUME IInv, NEW t \in Triggers, stage[t] = "tracked"
    PROVE  /\ tracker[t] \in Trackers /\ executions[t] = 0
           /\ \A k \in Trackers : /\ t \notin running[k] /\ t # debounced[k]
                                  /\ \A i \in 1..Len(pending[k]) : pending[k][i] # t
<1>1. tracker[t] \in Trackers
  BY HasTracker
<1>2. executions[t] = 0
  BY DEF IInv, Counted
<1>3. ASSUME NEW k \in Trackers
      PROVE  /\ t \notin running[k] /\ t # debounced[k]
             /\ \A i \in 1..Len(pending[k]) : pending[k][i] # t
  <2>1. t \notin running[k]
    BY DEF IInv, RunsAreSound, Active
  <2>2. t # debounced[k]
    BY DEF IInv, TimerIsSound, Triggers, NoTrigger
  <2>3. \A i \in 1..Len(pending[k]) : pending[k][i] # t
    BY DEF IInv, QueueIsSound
  <2> QED
    BY <2>1, <2>2, <2>3
<1> QED
  BY <1>1, <1>2, <1>3

LEMMA Arrives ==
    ASSUME IInv, NEW t \in Triggers, GetTracker(t)
    PROVE  IInv'
<1>1. /\ stage[t] = "idle" /\ made' \in Trackers
      /\ mapped' = TRUE /\ made' >= made /\ made' <= MaxTrackers /\ made' \in Nat
      /\ tracker' = [tracker EXCEPT ![t] = made'] /\ stage' = [stage EXCEPT ![t] = "tracked"]
      /\ UNCHANGED <<policy, running, pending, debounced, armed, firing, cancelled, executions>>
  <2>1. t \in t..MaxTriggers
    BY BoundsAssumption DEF Triggers
  <2>2. stage[t] = "idle"
    BY <2>1 DEF GetTracker, InStage
  <2>3. made \in Nat /\ MaxTrackers \in Nat /\ (mapped => made # 0)
    BY BoundsAssumption DEF IInv, TypeOK, NoTracker
  <2> QED
    BY <2>2, <2>3 DEF GetTracker, Trackers
<1>2. TypeOK'
  BY <1>1 DEF IInv, TypeOK, Stage
<1>3. ASSUME NEW u \in Triggers, u # t PROVE stage'[u] = stage[u] /\ tracker'[u] = tracker[u]
  BY <1>1, <1>3 DEF IInv, TypeOK
<1>4. stage'[t] = "tracked" /\ tracker'[t] = made'
  BY <1>1 DEF IInv, TypeOK
<1>5. ASSUME NEW k \in Trackers
      PROVE  /\ \A u \in running[k] : u # t
             /\ \A i \in 1..Len(pending[k]) : pending[k][i] \in Triggers \ {t}
             /\ debounced[k] # t
  <2>1. \A u \in running[k] : u # t
    BY <1>1 DEF IInv, RunsAreSound, Active
  <2>2. \A i \in 1..Len(pending[k]) : pending[k][i] \in Triggers \ {t}
    BY <1>1 DEF IInv, TypeOK, QueueIsSound
  <2>3. debounced[k] # t
    BY <1>1 DEF IInv, TimerIsSound, Triggers, NoTrigger
  <2> QED
    BY <2>1, <2>2, <2>3
<1>6. (\A u \in Triggers : Given(u))'
  BY <1>1, <1>3, <1>4 DEF IInv, TypeOK, Given, Trackers, NoTracker
<1>7. (\A k \in Trackers : QueueIsSound(k))'
  <2>1. Trackers' = Trackers
    BY DEF Trackers
  <2> SUFFICES ASSUME NEW k \in Trackers PROVE QueueIsSound(k)'
    BY <2>1
  <2>2. QueueIsSound(k) /\ pending' = pending /\ running' = running /\ policy' = policy
    BY <1>1 DEF IInv
  <2>3. \A i \in 1..Len(pending[k]) : /\ stage'[pending[k][i]] = stage[pending[k][i]]
                                      /\ tracker'[pending[k][i]] = tracker[pending[k][i]]
    BY <1>3, <1>5
  <2> QED
    BY <2>2, <2>3 DEF QueueIsSound
<1>8. (\A k \in Trackers : TimerIsSound(k))'
  BY <1>1, <1>3, <1>5 DEF IInv, TypeOK, TimerIsSound
<1>9. (\A k \in Trackers : RunsAreSound(k))'
  BY <1>1, <1>3, <1>5 DEF IInv, TypeOK, RunsAreSound
<1>10. (\A u \in Triggers : RunIsKnown(u))'
  BY <1>1, <1>3, <1>4 DEF IInv, RunIsKnown, Active
<1>11. (\A u \in Triggers : Counted(u))'
  BY <1>1, <1>3, <1>4 DEF IInv, Counted
<1> QED
  BY <1>1, <1>2, <1>6, <1>7, <1>8, <1>9, <1>10, <1>11 DEF IInv, Trackers, NoTracker

LEMMA Removes ==
    ASSUME IInv, RemoveExtension
    PROVE  IInv'
<1>1. /\ made \in Trackers /\ mapped' = FALSE
      /\ stage' = [t \in Triggers |->
                      IF stage[t] = "pending" /\ tracker[t] = made THEN "canceled" ELSE stage[t]]
      /\ pending' = [pending EXCEPT ![made] = <<>>]
      /\ debounced' = [debounced EXCEPT ![made] = NoTrigger]
      /\ armed' = [armed EXCEPT ![made] = FALSE]
      /\ UNCHANGED <<policy, made, tracker, running, firing, cancelled, executions>>
  BY MadeIsTracker DEF RemoveExtension
<1>2. TypeOK'
  <2>1. stage' \in [Triggers -> Stage]
    BY <1>1 DEF IInv, TypeOK, Stage, Answer
  <2>2. <<>> \in Seq(Triggers) /\ Len(<<>>) = 0 /\ 0 <= MaxQueue
    BY MaxQueueAssumption
  <2>3. /\ pending' \in [Trackers -> Seq(Triggers)]
        /\ \A k \in Trackers : Len(pending'[k]) <= MaxQueue
    BY <1>1, <2>2 DEF IInv, TypeOK
  <2>4. debounced' \in [Trackers -> Triggers \cup {NoTrigger}]
    BY <1>1 DEF IInv, TypeOK
  <2>5. armed' \in [Trackers -> BOOLEAN]
    BY <1>1 DEF IInv, TypeOK
  <2> QED
    BY <1>1, <2>1, <2>3, <2>4, <2>5 DEF IInv, TypeOK
<1>3. \A t \in Triggers : /\ stage[t] \notin {"pending"} => stage'[t] = stage[t]
                          /\ tracker[t] # made => stage'[t] = stage[t]
                          /\ stage'[t] = stage[t] \/ stage'[t] = "canceled"
  BY <1>1
<1>4. (\A t \in Triggers : Given(t))'
  BY <1>1, <1>3 DEF IInv, Given
<1>5. ASSUME NEW k \in Trackers PROVE QueueIsSound(k)'
  <2>1. CASE k = made
    <3>1. pending'[k] = <<>> /\ 1..Len(<<>>) = {}
      BY <1>1, <2>1 DEF IInv, TypeOK
    <3> QED
      BY <3>1 DEF QueueIsSound
  <2>2. CASE k # made
    <3>1. pending'[k] = pending[k] /\ running'[k] = running[k] /\ QueueIsSound(k)
      BY <1>1, <2>2 DEF IInv, TypeOK
    <3>2. \A i \in 1..Len(pending[k]) : pending[k][i] \in Triggers
      BY DEF IInv, TypeOK
    <3> QED
      BY <1>1, <1>3, <2>2, <3>1, <3>2 DEF QueueIsSound
  <2> QED
    BY <2>1, <2>2
<1>6. (\A k \in Trackers : TimerIsSound(k))'
  BY <1>1, <1>3 DEF IInv, TypeOK, TimerIsSound
<1>7. (\A k \in Trackers : RunsAreSound(k))'
  BY <1>1, <1>3 DEF IInv, TypeOK, RunsAreSound, Active
<1>8. (\A t \in Triggers : RunIsKnown(t))'
  BY <1>1, <1>3 DEF IInv, RunIsKnown, Active
<1>9. (\A t \in Triggers : Counted(t))'
  BY <1>1, <1>3 DEF IInv, Counted
<1> QED
  BY <1>1, <1>2, <1>4, <1>5, <1>6, <1>7, <1>8, <1>9 DEF IInv

LEMMA CancelsRun ==
    ASSUME IInv, NEW t \in Triggers, CancelRun(t)
    PROVE  IInv'
<1>1. /\ cancelled' = cancelled \cup {t}
      /\ UNCHANGED <<managerVars, stage, running, pending, debounced, armed, firing,
                     executions>>
  BY DEF CancelRun
<1> QED
  BY <1>1 DEF managerVars, IInv, TypeOK, Given, QueueIsSound, TimerIsSound, RunsAreSound,
     RunIsKnown,
              Counted

\* A trigger that called Apply begins: alone, or beside those that run. Those that run no
\* longer by the tracker's books have been cancelled.
LEMMA Begins ==
    ASSUME IInv, NEW t \in Triggers, stage[t] = "tracked", NEW runs \in SUBSET running[tracker[t]],
           running' = [running EXCEPT ![tracker[t]] = runs \cup {t}],
           policy = "parallel" \/ runs = {},
           stage' = [stage EXCEPT ![t] = "started"],
           cancelled' \in SUBSET Triggers, cancelled \subseteq cancelled',
           \A u \in running[tracker[t]] \ runs : u \in cancelled' /\ policy \in {"replace", "debounce"},
           UNCHANGED <<policy, made, mapped, tracker, pending, debounced, armed, firing,
                       executions>>
    PROVE  IInv'
<1> DEFINE k == tracker[t]
<1>1. /\ k \in Trackers /\ executions[t] = 0
      /\ \A j \in Trackers : /\ t \notin running[j] /\ t # debounced[j]
                             /\ \A i \in 1..Len(pending[j]) : pending[j][i] # t
  BY Tracked
<1>2. /\ stage'[t] = "started" /\ \A u \in Triggers : u # t => stage'[u] = stage[u]
      /\ running'[k] = runs \cup {t} /\ \A j \in Trackers : j # k => running'[j] = running[j]
  BY <1>1 DEF IInv, TypeOK
<1>3. TypeOK'
  BY <1>1 DEF IInv, TypeOK, Stage
<1>4. \A j \in Trackers : /\ \A i \in 1..Len(pending[j]) : pending[j][i] \in Triggers
                          /\ running[j] \subseteq Triggers
  BY DEF IInv, TypeOK
<1>5. (\A u \in Triggers : Given(u))'
  BY <1>2 DEF IInv, Given, Triggers, NoTracker
<1>6. (\A j \in Trackers : QueueIsSound(j))'
  BY <1>1, <1>2, <1>4 DEF IInv, QueueIsSound
<1>7. (\A j \in Trackers : TimerIsSound(j))'
  BY <1>1, <1>2 DEF IInv, TypeOK, TimerIsSound
<1>8. (\A j \in Trackers : RunsAreSound(j))'
  <2> SUFFICES ASSUME NEW j \in Trackers PROVE RunsAreSound(j)'
    OBVIOUS
  <2>1. RunsAreSound(j)
    BY DEF IInv
  <2>2. CASE j = k
    BY <1>1, <1>2, <1>4, <2>1, <2>2 DEF RunsAreSound, Active
  <2>3. CASE j # k
    BY <1>1, <1>2, <1>4, <2>1, <2>3 DEF RunsAreSound, Active
  <2> QED
    BY <2>2, <2>3
<1>9. (\A u \in Triggers : RunIsKnown(u))'
  <2> SUFFICES ASSUME NEW u \in Triggers, stage'[u] \in Active
               PROVE  u \in running'[tracker[u]] \/ (policy \in {"replace", "debounce"} /\ u \in cancelled')
    BY DEF RunIsKnown
  <2>1. CASE u = t
    BY <1>2, <2>1
  <2>2. CASE u # t
    <3>1. tracker[u] \in Trackers /\ RunIsKnown(u) /\ stage[u] = stage'[u]
      BY <1>2, <2>2, HasTracker DEF Active, IInv
    <3> QED
      BY <1>2, <3>1 DEF RunIsKnown
  <2> QED
    BY <2>1, <2>2
<1>10. (\A u \in Triggers : Counted(u))'
  BY <1>1, <1>2 DEF IInv, Counted
<1> QED
  BY <1>3, <1>5, <1>6, <1>7, <1>8, <1>9, <1>10 DEF IInv

\* A trigger that joins the queue.
LEMMA JoinsQueue ==
    ASSUME IInv, NEW t \in Triggers, stage[t] = "tracked", policy = "serialize",
           SerializeEnqueues(tracker[t], t),
           UNCHANGED <<policy, made, mapped, tracker, debounced, armed, cancelled, firing,
                       executions>>
    PROVE  IInv'
<1> DEFINE k == tracker[t]
<1>1. /\ k \in Trackers /\ executions[t] = 0
      /\ \A j \in Trackers : /\ t \notin running[j] /\ t # debounced[j]
                             /\ \A i \in 1..Len(pending[j]) : pending[j][i] # t
  BY Tracked
<1>2. /\ running[k] # {} /\ Len(pending[k]) < MaxQueue
      /\ pending' = [pending EXCEPT ![k] = Append(@, t)]
      /\ stage' = [stage EXCEPT ![t] = "pending"] /\ UNCHANGED running
  BY DEF SerializeEnqueues
<1>3. /\ stage'[t] = "pending" /\ \A u \in Triggers : u # t => stage'[u] = stage[u]
      /\ pending'[k] = Append(pending[k], t)
      /\ \A j \in Trackers : j # k => pending'[j] = pending[j]
  BY <1>1, <1>2 DEF IInv, TypeOK
<1>4. \A j \in Trackers : /\ pending[j] \in Seq(Triggers) /\ Len(pending[j]) \in Nat
                          /\ Len(pending[j]) <= MaxQueue
                          /\ \A i \in 1..Len(pending[j]) : pending[j][i] \in Triggers
                          /\ running[j] \subseteq Triggers
  BY DEF IInv, TypeOK
<1>5. /\ pending'[k] \in Seq(Triggers) /\ Len(pending'[k]) = Len(pending[k]) + 1
      /\ \A i \in 1..Len(pending[k]) : pending'[k][i] = pending[k][i]
      /\ pending'[k][Len(pending[k]) + 1] = t
  BY <1>1, <1>3, <1>4
<1>6. TypeOK'
  <2>1. stage' \in [Triggers -> Stage]
    BY <1>2 DEF IInv, TypeOK, Stage
  <2>2. pending' \in [Trackers -> Seq(Triggers)]
    BY <1>2, <1>3, <1>5 DEF IInv, TypeOK
  <2>3. ASSUME NEW j \in Trackers PROVE Len(pending'[j]) <= MaxQueue
    BY <1>1, <1>2, <1>3, <1>4, <1>5, MaxQueueAssumption
  <2> QED
    BY <1>2, <2>1, <2>2, <2>3 DEF IInv, TypeOK
<1>7. (\A u \in Triggers : Given(u))'
  BY <1>3 DEF IInv, Given, Triggers, NoTracker
<1>8. ASSUME NEW j \in Trackers PROVE QueueIsSound(j)'
  <2>1. QueueIsSound(j)
    BY DEF IInv
  <2>2. CASE j # k
    BY <1>1, <1>2, <1>3, <1>4, <2>1, <2>2 DEF QueueIsSound
  <2>3. CASE j = k
    <3>1. \A i \in 1..Len(pending'[k]) : i \in 1..Len(pending[k]) \/ i = Len(pending[k]) + 1
      BY <1>1, <1>4, <1>5
    <3>2. \A i \in 1..Len(pending'[k]) : stage'[pending'[k][i]] = "pending" /\ tracker[pending'[k][i]] = k
      BY <1>1, <1>3, <1>4, <1>5, <2>1, <2>3, <3>1 DEF QueueIsSound
    <3>3. ASSUME NEW i \in 1..Len(pending'[k]), NEW h \in 1..Len(pending'[k]),
                 pending'[k][i] = pending'[k][h]
          PROVE  i = h
      <4>1. CASE i \in 1..Len(pending[k]) /\ h \in 1..Len(pending[k])
        BY <1>5, <2>1, <2>3, <3>3, <4>1 DEF QueueIsSound
      <4>2. CASE i \in 1..Len(pending[k]) /\ h = Len(pending[k]) + 1
        BY <1>1, <1>5, <3>3, <4>2
      <4>3. CASE h \in 1..Len(pending[k]) /\ i = Len(pending[k]) + 1
        BY <1>1, <1>5, <3>3, <4>3
      <4> QED
        BY <3>1, <4>1, <4>2, <4>3
    <3> QED
      BY <1>2, <2>3, <3>2, <3>3 DEF QueueIsSound
  <2> QED
    BY <2>2, <2>3
<1>9. (\A j \in Trackers : TimerIsSound(j))'
  BY <1>1, <1>3 DEF IInv, TypeOK, TimerIsSound
<1>10. (\A j \in Trackers : RunsAreSound(j))'
  BY <1>1, <1>2, <1>3, <1>4 DEF IInv, RunsAreSound
<1>11. (\A u \in Triggers : RunIsKnown(u))'
  BY <1>2, <1>3 DEF IInv, RunIsKnown, Active
<1>12. (\A u \in Triggers : Counted(u))'
  BY <1>1, <1>3 DEF IInv, Counted
<1> QED
  BY <1>6, <1>7, <1>8, <1>9, <1>10, <1>11, <1>12 DEF IInv

LEMMA IsRefused ==
    ASSUME IInv, NEW t \in Triggers, stage[t] = "tracked", SerializeRefuses(tracker[t], t),
           UNCHANGED <<policy, made, mapped, tracker, debounced, armed, cancelled, firing,
                       executions>>
    PROVE  IInv'
<1>1. stage' = [stage EXCEPT ![t] = "full"] /\ UNCHANGED <<pending, running>>
  BY DEF SerializeRefuses
<1>2. stage'[t] = "full" /\ \A u \in Triggers : u # t => stage'[u] = stage[u]
  BY <1>1 DEF IInv, TypeOK
<1>3. ASSUME NEW k \in Trackers
      PROVE  /\ running[k] \subseteq Triggers /\ t \notin running[k] /\ t # debounced[k]
             /\ \A i \in 1..Len(pending[k]) : pending[k][i] \in Triggers \ {t}
  BY Tracked DEF IInv, TypeOK
<1>4. TypeOK'
  BY <1>1 DEF IInv, TypeOK, Stage, Answer
<1>5. (\A u \in Triggers : Given(u))'
  BY <1>2 DEF IInv, Given
<1>6. (\A k \in Trackers : QueueIsSound(k))'
  BY <1>1, <1>2, <1>3 DEF IInv, QueueIsSound
<1>7. (\A k \in Trackers : TimerIsSound(k))'
  BY <1>2, <1>3 DEF IInv, TypeOK, TimerIsSound
<1>8. (\A k \in Trackers : RunsAreSound(k))'
  BY <1>1, <1>2, <1>3 DEF IInv, RunsAreSound
<1>9. (\A u \in Triggers : RunIsKnown(u))'
  BY <1>1, <1>2 DEF IInv, RunIsKnown, Active
<1>10. (\A u \in Triggers : Counted(u))'
  BY <1>2 DEF IInv, Counted
<1> QED
  BY <1>4, <1>5, <1>6, <1>7, <1>8, <1>9, <1>10 DEF IInv

\* A trigger takes its place behind the timer.
LEMMA TakesTheTimer ==
    ASSUME IInv, NEW t \in Triggers, stage[t] = "tracked", ApplyDebounce(tracker[t], t),
           UNCHANGED <<policy, made, mapped, tracker, firing, executions>>
    PROVE  IInv'
<1> DEFINE k == tracker[t]
           d == debounced[k]
<1>1. /\ k \in Trackers /\ executions[t] = 0
      /\ \A j \in Trackers : /\ t \notin running[j] /\ t # debounced[j]
                             /\ \A i \in 1..Len(pending[j]) : pending[j][i] # t
  BY Tracked
<1>2. /\ policy = "debounce"
      /\ debounced' = [debounced EXCEPT ![k] = t]
      /\ armed' = [armed EXCEPT ![k] = TRUE]
      /\ stage' = [u \in Triggers |-> CASE u = t -> "pending"
                                        [] u = d -> "canceled"
                                        [] OTHER -> stage[u]]
      /\ UNCHANGED <<running, pending, cancelled>>
  BY DEF ApplyDebounce
<1>3. /\ stage'[t] = "pending"
      /\ \A u \in Triggers : u # t /\ u # d => stage'[u] = stage[u]
      /\ d \in Triggers => stage[d] = "pending" /\ stage'[d] = "canceled" /\ tracker[d] = k /\ d # t
      /\ debounced'[k] = t
      /\ \A j \in Trackers : j # k => debounced'[j] = debounced[j]
  <2>1. d = NoTrigger \/ (d \in Triggers /\ stage[d] = "pending" /\ tracker[d] = k /\ d # t)
    BY <1>1 DEF IInv, TypeOK, TimerIsSound
  <2>2. NoTrigger \notin Triggers
    BY DEF NoTrigger, Triggers
  <2> QED
    BY <1>1, <1>2, <2>1, <2>2 DEF IInv, TypeOK
<1>4. TypeOK'
  <2>1. stage' \in [Triggers -> Stage]
    BY <1>2 DEF IInv, TypeOK, Stage, Answer
  <2> QED
    BY <1>1, <1>2, <2>1 DEF IInv, TypeOK
<1> HIDE DEF d
<1>5. (\A u \in Triggers : Given(u))'
  BY <1>3 DEF IInv, Given
<1>6. (\A j \in Trackers : QueueIsSound(j))'
  <2> SUFFICES ASSUME NEW j \in Trackers PROVE pending[j] = <<>>
    BY <1>2 DEF QueueIsSound
  <2> QED
    BY <1>2 DEF IInv, QueueIsSound
<1>7. (\A j \in Trackers : TimerIsSound(j))'
  <2> SUFFICES ASSUME NEW j \in Trackers PROVE TimerIsSound(j)'
    OBVIOUS
  <2>1. CASE j = k
    BY <1>1, <1>2, <1>3, <2>1 DEF TimerIsSound
  <2>2. CASE j # k
    <3>1. TimerIsSound(j) /\ debounced[j] \in Triggers \cup {NoTrigger}
      BY DEF IInv, TypeOK
    <3> QED
      BY <1>1, <1>2, <1>3, <2>2, <3>1 DEF TimerIsSound
  <2> QED
    BY <2>1, <2>2
<1>8. (\A j \in Trackers : RunsAreSound(j))'
  <2> SUFFICES ASSUME NEW j \in Trackers PROVE RunsAreSound(j)'
    OBVIOUS
  <2>1. RunsAreSound(j) /\ running[j] \subseteq Triggers
    BY DEF IInv, TypeOK
  <2>2. \A u \in running[j] : u # t /\ u # d
    BY <1>1, <1>3, <2>1 DEF RunsAreSound, Active
  <2> QED
    BY <1>2, <1>3, <2>1, <2>2 DEF RunsAreSound
<1>9. (\A u \in Triggers : RunIsKnown(u))'
  BY <1>2, <1>3 DEF IInv, RunIsKnown, Active
<1>10. (\A u \in Triggers : Counted(u))'
  BY <1>1, <1>3 DEF IInv, Counted
<1> QED
  BY <1>4, <1>5, <1>6, <1>7, <1>8, <1>9, <1>10 DEF IInv

LEMMA Expires ==
    ASSUME IInv, NEW k \in Trackers, TimerExpires(k)
    PROVE  IInv'
<1>1. /\ firing' = [firing EXCEPT ![k] = @ + 1] /\ armed' = [armed EXCEPT ![k] = FALSE]
      /\ UNCHANGED <<managerVars, stage, running, pending, debounced, cancelled, executions>>
  BY DEF TimerExpires
<1>2. TypeOK'
  BY <1>1 DEF IInv, TypeOK, managerVars
<1> QED
  BY <1>1, <1>2 DEF managerVars, IInv, Given, QueueIsSound, TimerIsSound, RunsAreSound,
     RunIsKnown,
                    Counted

\* The callback of the timer begins the trigger it finds.
LEMMA FiresAndBegins ==
    ASSUME IInv, NEW k \in Trackers, ExecuteDebouncePending(k), debounced[k] # NoTrigger
    PROVE  IInv'
<1> DEFINE t == debounced[k]
<1>1. /\ firing[k] > 0 /\ firing' = [firing EXCEPT ![k] = @ - 1]
      /\ debounced' = [debounced EXCEPT ![k] = NoTrigger]
      /\ cancelled' = cancelled \cup running[k]
      /\ running' = [running EXCEPT ![k] = {t}]
      /\ stage' = [stage EXCEPT ![t] = "started"]
      /\ UNCHANGED <<policy, made, mapped, tracker, pending, armed, executions>>
  BY DEF ExecuteDebouncePending, managerVars
<1>2. t \in Triggers /\ policy = "debounce" /\ stage[t] = "pending" /\ tracker[t] = k
  BY DEF IInv, TypeOK, TimerIsSound
<1>3. /\ stage'[t] = "started" /\ \A u \in Triggers : u # t => stage'[u] = stage[u]
      /\ running'[k] = {t} /\ \A j \in Trackers : j # k => running'[j] = running[j]
      /\ debounced'[k] = NoTrigger /\ \A j \in Trackers : j # k => debounced'[j] = debounced[j]
  BY <1>1, <1>2 DEF IInv, TypeOK
<1>4. TypeOK'
  <2>1. firing' \in [Trackers -> Nat]
    BY <1>1 DEF IInv, TypeOK
  <2> QED
    BY <1>1, <1>2, <2>1 DEF IInv, TypeOK, Stage
<1> HIDE DEF t
<1>5. (\A u \in Triggers : Given(u))'
  BY <1>1, <1>2, <1>3 DEF IInv, Given
<1>6. (\A j \in Trackers : QueueIsSound(j))'
  <2> SUFFICES ASSUME NEW j \in Trackers PROVE pending[j] = <<>>
    BY <1>1 DEF QueueIsSound
  <2> QED
    BY <1>2 DEF IInv, QueueIsSound
<1>7. (\A j \in Trackers : TimerIsSound(j))'
  <2> SUFFICES ASSUME NEW j \in Trackers, j # k PROVE TimerIsSound(j)'
    BY <1>3 DEF TimerIsSound
  <2>1. TimerIsSound(j) /\ debounced[j] \in Triggers \cup {NoTrigger}
    BY DEF IInv, TypeOK
  <2> QED
    BY <1>1, <1>2, <1>3, <2>1 DEF TimerIsSound
<1>8. (\A j \in Trackers : RunsAreSound(j))'
  <2> SUFFICES ASSUME NEW j \in Trackers PROVE RunsAreSound(j)'
    OBVIOUS
  <2>1. RunsAreSound(j) /\ running[j] \subseteq Triggers
    BY DEF IInv, TypeOK
  <2>2. CASE j = k
    BY <1>1, <1>2, <1>3, <2>2 DEF RunsAreSound, Active
  <2>3. CASE j # k
    BY <1>1, <1>2, <1>3, <2>1, <2>3 DEF RunsAreSound
  <2> QED
    BY <2>2, <2>3
<1>9. (\A u \in Triggers : RunIsKnown(u))'
  <2> SUFFICES ASSUME NEW u \in Triggers, stage'[u] \in Active
               PROVE  u \in running'[tracker[u]] \/ u \in cancelled'
    BY <1>1, <1>2 DEF RunIsKnown
  <2>1. CASE u = t
    BY <1>2, <1>3, <2>1
  <2>2. CASE u # t
    <3>1. tracker[u] \in Trackers /\ RunIsKnown(u) /\ stage[u] = stage'[u]
      BY <1>3, <2>2, HasTracker DEF Active, IInv
    <3> QED
      BY <1>1, <1>3, <3>1 DEF RunIsKnown
  <2> QED
    BY <2>1, <2>2
<1>10. (\A u \in Triggers : Counted(u))'
  BY <1>1, <1>2, <1>3 DEF IInv, Counted
<1> QED
  BY <1>1, <1>4, <1>5, <1>6, <1>7, <1>8, <1>9, <1>10 DEF IInv

LEMMA Fires ==
    ASSUME IInv, NEW k \in Trackers, ExecuteDebouncePending(k)
    PROVE  IInv'
<1>1. CASE debounced[k] = NoTrigger
  <2>1. /\ firing[k] > 0 /\ firing' = [firing EXCEPT ![k] = @ - 1]
        /\ UNCHANGED <<managerVars, stage, running, pending, debounced, armed, cancelled,
                       executions>>
    BY <1>1 DEF ExecuteDebouncePending
  <2>2. TypeOK'
    BY <2>1 DEF IInv, TypeOK, managerVars
  <2> QED
    BY <2>1, <2>2 DEF managerVars, IInv, Given, QueueIsSound, TimerIsSound, RunsAreSound,
                      RunIsKnown, Counted
<1> QED
  BY <1>1, FiresAndBegins

\* The task begins, or returns: the trigger stays in the books it is in.
LEMMA Progresses ==
    ASSUME IInv, NEW t \in Triggers, Execute(t) \/ Finish(t)
    PROVE  IInv'
<1> DEFINE n == IF stage[t] = "started" THEN 1 ELSE 0
<1>1. /\ stage[t] \in {"started", "executing"}
      /\ stage' = [stage EXCEPT ![t] = IF stage[t] = "started" THEN "executing" ELSE "finished"]
      /\ executions' = [executions EXCEPT ![t] = @ + n]
      /\ UNCHANGED <<managerVars, running, pending, debounced, armed, firing, cancelled>>
  <2>1. executions[t] + 0 = executions[t] /\ executions \in [Triggers -> Nat]
    BY DEF IInv, TypeOK
  <2>2. CASE Execute(t)
    BY <2>2 DEF Execute
  <2>3. CASE Finish(t)
    BY <2>1, <2>3 DEF Finish
  <2> QED
    BY <2>2, <2>3
<1>2. /\ stage'[t] \in {"executing", "finished"} /\ \A u \in Triggers : u # t => stage'[u] = stage[u]
      /\ executions'[t] = 1 /\ \A u \in Triggers : u # t => executions'[u] = executions[u]
  <2>1. /\ stage'[t] = (IF stage[t] = "started" THEN "executing" ELSE "finished")
        /\ \A u \in Triggers : u # t => stage'[u] = stage[u]
    BY <1>1 DEF IInv, TypeOK
  <2>2. /\ executions'[t] = executions[t] + n
        /\ \A u \in Triggers : u # t => executions'[u] = executions[u]
    BY <1>1 DEF IInv, TypeOK
  <2>3. executions[t] = IF stage[t] = "started" THEN 0 ELSE 1
    BY <1>1 DEF IInv, Counted
  <2> QED
    BY <2>1, <2>2, <2>3
<1>3. TypeOK'
  <2>1. executions' \in [Triggers -> Nat]
    BY <1>1 DEF IInv, TypeOK
  <2> QED
    BY <1>1, <2>1 DEF IInv, TypeOK, Stage, managerVars
<1>4. ASSUME NEW k \in Trackers
      PROVE  /\ running[k] \subseteq Triggers /\ t # debounced[k]
             /\ \A i \in 1..Len(pending[k]) : pending[k][i] \in Triggers \ {t}
  <2>1. running[k] \subseteq Triggers
    BY DEF IInv, TypeOK
  <2>2. t # debounced[k]
    BY <1>1 DEF IInv, TimerIsSound, NoTrigger, Triggers
  <2>3. \A i \in 1..Len(pending[k]) : pending[k][i] \in Triggers \ {t}
    BY <1>1 DEF IInv, TypeOK, QueueIsSound
  <2> QED
    BY <2>1, <2>2, <2>3
<1>5. (\A u \in Triggers : Given(u))'
  BY <1>1, <1>2 DEF IInv, Given, managerVars
<1>6. (\A k \in Trackers : QueueIsSound(k))'
  BY <1>1, <1>2, <1>4 DEF IInv, QueueIsSound, managerVars
<1>7. (\A k \in Trackers : TimerIsSound(k))'
  BY <1>1, <1>2, <1>4 DEF IInv, TypeOK, TimerIsSound, managerVars
<1>8. (\A k \in Trackers : RunsAreSound(k))'
  BY <1>1, <1>2, <1>4 DEF IInv, RunsAreSound, Active, managerVars
<1>9. (\A u \in Triggers : RunIsKnown(u))'
  BY <1>1, <1>2 DEF IInv, RunIsKnown, Active, managerVars
<1>10. (\A u \in Triggers : Counted(u))'
  BY <1>2 DEF IInv, Counted
<1> QED
  BY <1>1, <1>3, <1>5, <1>6, <1>7, <1>8, <1>9, <1>10 DEF IInv, managerVars

\* What is true of a sequence that loses its first element or another one.
LEMMA TailIs ==
    ASSUME NEW S, NEW q \in Seq(S), q # <<>>
    PROVE  /\ Tail(q) \in Seq(S) /\ Len(q) \in Nat /\ Len(q) >= 1 /\ Len(Tail(q)) = Len(q) - 1
           /\ \A i \in 1..Len(Tail(q)) : i + 1 \in 1..Len(q) /\ Tail(q)[i] = q[i + 1]
           /\ Head(q) = q[1] /\ Head(q) \in S
<1>1. Len(q) \in Nat /\ Len(q) # 0 /\ Tail(q) \in Seq(S) /\ Len(Tail(q)) = Len(q) - 1
  BY HeadTailProperties, EmptySeq
<1>2. \A i \in 1..Len(Tail(q)) : Tail(q)[i] = q[i + 1]
  BY HeadTailProperties
<1>3. Head(q) = q[1] /\ Head(q) \in S
  BY HeadTailProperties
<1> QED
  BY <1>1, <1>2, <1>3

LEMMA RemoveAtIs ==
    ASSUME NEW S, NEW q \in Seq(S), NEW n \in 1..Len(q)
    PROVE  /\ RemoveAt(q, n) \in Seq(S) /\ Len(q) \in Nat /\ Len(RemoveAt(q, n)) = Len(q) - 1
           /\ \A i \in 1..Len(q) - 1 : RemoveAt(q, n)[i] = IF i < n THEN q[i] ELSE q[i + 1]
<1> DEFINE a == SubSeq(q, 1, n - 1)
           b == SubSeq(q, n + 1, Len(q))
<1>1. Len(q) \in Nat /\ n \in Int /\ 1 <= n /\ n <= Len(q)
  OBVIOUS
<1>2. a \in Seq(S) /\ Len(a) = n - 1 /\ \A i \in 1..n - 1 : a[i] = q[i]
  BY <1>1
<1>3. b \in Seq(S) /\ Len(b) = Len(q) - n /\ \A i \in 1..Len(q) - n : b[i] = q[n + i]
  BY <1>1
<1>4. RemoveAt(q, n) = a \o b
  BY DEF RemoveAt
<1> HIDE DEF a, b
<1>5. a \o b \in Seq(S) /\ Len(a \o b) = Len(q) - 1
  <2>1. a \o b \in Seq(S) /\ Len(a \o b) = Len(a) + Len(b)
    BY <1>2, <1>3, ConcatProperties
  <2>2. \A x, y \in Int : (x - 1) + (y - x) = y - 1
    OBVIOUS
  <2> QED
    BY <1>1, <1>2, <1>3, <2>1, <2>2
<1>6. ASSUME NEW i \in 1..Len(q) - 1
      PROVE  (a \o b)[i] = IF i < n THEN q[i] ELSE q[i + 1]
  <2>1. CASE i < n
    BY <1>1, <1>2, <1>3, <2>1
  <2>2. CASE i >= n
    <3>1. (a \o b)[i] = b[i - (n - 1)]
      BY <1>1, <1>2, <1>3, <2>2
    <3>2. i - (n - 1) \in 1..Len(q) - n /\ n + (i - (n - 1)) = i + 1
      BY <1>1, <2>2
    <3> QED
      BY <1>1, <1>3, <2>2, <3>1, <3>2
  <2>3. i < n \/ i >= n
    BY <1>1
  <2> QED
    BY <2>1, <2>2, <2>3
<1> QED
  BY <1>1, <1>4, <1>5, <1>6

\* A run leaves the books, and nobody is to be started.
LEMMA Leaves ==
    ASSUME IInv, NEW t \in Triggers, stage[t] = "finished",
           running' = [running EXCEPT ![tracker[t]] = @ \ {t}],
           policy = "serialize" /\ pending[tracker[t]] # <<>> => running[tracker[t]] \ {t} # {},
           stage' = [stage EXCEPT ![t] = "ran"], cancelled' = cancelled \ {t},
           UNCHANGED <<managerVars, pending, debounced, armed, firing, executions>>
    PROVE  IInv'
<1> DEFINE k == tracker[t]
<1>1. k \in Trackers
  BY HasTracker
<1>2. /\ stage'[t] = "ran" /\ \A u \in Triggers : u # t => stage'[u] = stage[u]
      /\ running'[k] = running[k] \ {t} /\ \A j \in Trackers : j # k => running'[j] = running[j]
  BY <1>1 DEF IInv, TypeOK
<1>3. TypeOK'
  BY <1>1 DEF IInv, TypeOK, Stage, Answer, managerVars
<1>4. ASSUME NEW j \in Trackers
      PROVE  /\ running[j] \subseteq Triggers /\ t # debounced[j] /\ (t \in running[j] => j = k)
             /\ \A i \in 1..Len(pending[j]) : pending[j][i] \in Triggers \ {t}
  <2>1. running[j] \subseteq Triggers /\ t # debounced[j] /\ (t \in running[j] => j = k)
    BY DEF IInv, TypeOK, TimerIsSound, RunsAreSound, NoTrigger, Triggers
  <2>2. \A i \in 1..Len(pending[j]) : pending[j][i] \in Triggers \ {t}
    BY SMTT(30) DEF IInv, TypeOK, QueueIsSound
  <2> QED
    BY <2>1, <2>2
<1>5. (\A u \in Triggers : Given(u))'
  BY <1>2 DEF IInv, Given, managerVars
<1>6. (\A j \in Trackers : QueueIsSound(j))'
  BY <1>2, <1>4 DEF IInv, QueueIsSound, managerVars
<1>7. (\A j \in Trackers : TimerIsSound(j))'
  BY <1>2, <1>4 DEF IInv, TypeOK, TimerIsSound, managerVars
<1>8. (\A j \in Trackers : RunsAreSound(j))'
  <2> SUFFICES ASSUME NEW j \in Trackers PROVE RunsAreSound(j)'
    OBVIOUS
  <2>1. RunsAreSound(j) /\ \A u \in running'[j] : u \in running[j] /\ u # t
    BY <1>2, <1>4 DEF IInv
  <2> QED
    BY <1>2, <1>4, <2>1 DEF RunsAreSound, managerVars
<1>9. (\A u \in Triggers : RunIsKnown(u))'
  <2> SUFFICES ASSUME NEW u \in Triggers, stage'[u] \in Active PROVE RunIsKnown(u)'
    BY DEF RunIsKnown
  <2>1. u # t /\ stage[u] = stage'[u]
    BY <1>2 DEF Active
  <2>2. tracker[u] \in Trackers /\ RunIsKnown(u)
    BY <2>1, HasTracker DEF Active, IInv
  <2> QED
    BY <1>2, <2>1, <2>2 DEF RunIsKnown, managerVars
<1>10. (\A u \in Triggers : Counted(u))'
  BY <1>2 DEF IInv, Counted
<1> QED
  BY <1>3, <1>5, <1>6, <1>7, <1>8, <1>9, <1>10 DEF IInv, managerVars

\* A run leaves the books, and the first of the queue is started.
LEMMA HandsOver ==
    ASSUME IInv, NEW t \in Triggers, stage[t] = "finished", policy = "serialize",
           pending[tracker[t]] # <<>>, running[tracker[t]] \ {t} = {},
           pending' = [pending EXCEPT ![tracker[t]] = Tail(@)],
           running' = [running EXCEPT ![tracker[t]] = {Head(pending[tracker[t]])}],
           stage' = [stage EXCEPT ![t] = "ran", ![Head(pending[tracker[t]])] = "started"],
           cancelled' = cancelled \ {t},
           UNCHANGED <<managerVars, debounced, armed, firing, executions>>
    PROVE  IInv'
<1> DEFINE k == tracker[t]
           h == Head(pending[k])
<1>1. k \in Trackers
  BY HasTracker
<1>2. \A j \in Trackers : /\ pending[j] \in Seq(Triggers) /\ Len(pending[j]) \in Nat
                          /\ Len(pending[j]) <= MaxQueue
                          /\ \A i \in 1..Len(pending[j]) : pending[j][i] \in Triggers
                          /\ running[j] \subseteq Triggers
  BY DEF IInv, TypeOK
<1>3. /\ Tail(pending[k]) \in Seq(Triggers) /\ Len(Tail(pending[k])) = Len(pending[k]) - 1
      /\ \A i \in 1..Len(Tail(pending[k])) : /\ i + 1 \in 1..Len(pending[k])
                                             /\ Tail(pending[k])[i] = pending[k][i + 1]
      /\ h = pending[k][1] /\ h \in Triggers /\ 1 \in 1..Len(pending[k])
  BY <1>1, <1>2, TailIs
<1>4. stage[h] = "pending" /\ tracker[h] = k /\ h # t
  BY <1>1, <1>3 DEF IInv, QueueIsSound
<1>5. /\ pending'[k] = Tail(pending[k]) /\ \A j \in Trackers : j # k => pending'[j] = pending[j]
      /\ running'[k] = {h} /\ \A j \in Trackers : j # k => running'[j] = running[j]
  BY <1>1 DEF IInv, TypeOK
<1>6. /\ stage'[t] = "ran" /\ stage'[h] = "started"
      /\ \A u \in Triggers : u # t /\ u # h => stage'[u] = stage[u]
  BY <1>3, <1>4 DEF IInv, TypeOK
<1> HIDE DEF h
<1>7. TypeOK'
  <2>1. stage' \in [Triggers -> Stage]
    BY DEF IInv, TypeOK, Stage, Answer
  <2>2. pending' \in [Trackers -> Seq(Triggers)]
    BY <1>3 DEF IInv, TypeOK
  <2>3. ASSUME NEW j \in Trackers PROVE Len(pending'[j]) <= MaxQueue
    BY <1>1, <1>2, <1>3, <1>5, MaxQueueAssumption
  <2>4. running' \in [Trackers -> SUBSET Triggers]
    BY <1>3 DEF IInv, TypeOK, h
  <2> QED
    BY <2>1, <2>2, <2>3, <2>4 DEF IInv, TypeOK, managerVars
<1>8. ASSUME NEW j \in Trackers
      PROVE  /\ t # debounced[j] /\ h # debounced[j]
             /\ j # k => t \notin running[j] /\ h \notin running[j]
             /\ \A i \in 1..Len(pending[j]) : pending[j][i] # t
  <2>1. debounced[j] = NoTrigger /\ NoTrigger \notin Triggers
    BY DEF IInv, TimerIsSound, NoTrigger, Triggers
  <2>2. j # k => t \notin running[j] /\ h \notin running[j]
    BY <1>4 DEF IInv, RunsAreSound, Active
  <2>3. \A i \in 1..Len(pending[j]) : pending[j][i] # t
    BY DEF IInv, QueueIsSound
  <2> QED
    BY <1>3, <2>1, <2>2, <2>3
<1>9. (\A u \in Triggers : Given(u))'
  BY <1>4, <1>6 DEF IInv, Given, managerVars
<1>10. ASSUME NEW j \in Trackers PROVE QueueIsSound(j)'
  <2>1. QueueIsSound(j)
    BY DEF IInv
  <2>2. CASE j = k
    <3>1. \A i \in 1..Len(pending'[k]) : /\ i + 1 \in 1..Len(pending[k]) /\ i + 1 # 1
                                         /\ pending'[k][i] = pending[k][i + 1]
      <4>1. \A i \in 1..Len(Tail(pending[k])) : i + 1 # 1
        OBVIOUS
      <4> QED
        BY <1>3, <1>5, <4>1
    <3>2. \A i \in 1..Len(pending'[k]) : pending'[k][i] # h
      BY <1>3, <2>1, <2>2, <3>1 DEF QueueIsSound
    <3>3. ASSUME NEW i \in 1..Len(pending'[k])
          PROVE  stage'[pending'[k][i]] = "pending" /\ tracker[pending'[k][i]] = k
      <4>1. PICK g \in 1..Len(pending[k]) : pending'[k][i] = pending[k][g]
        BY <3>1
      <4>2. pending[k][g] \in Triggers \ {t, h} /\ stage[pending[k][g]] = "pending" /\ tracker[pending[k][g]] = k
        BY <1>1, <1>2, <1>8, <2>1, <2>2, <3>2, <4>1 DEF QueueIsSound
      <4> QED
        BY <1>6, <4>1, <4>2
    <3>4. ASSUME NEW i \in 1..Len(pending'[k]), NEW g \in 1..Len(pending'[k]),
                 pending'[k][i] = pending'[k][g]
          PROVE  i = g
      <4>0. \A u, v \in 1..Len(pending[k]) : pending[k][u] = pending[k][v] => u = v
        BY <2>1, <2>2 DEF QueueIsSound
      <4>1. i + 1 = g + 1
        <5>1. /\ i + 1 \in 1..Len(pending[k]) /\ g + 1 \in 1..Len(pending[k])
              /\ pending[k][i + 1] = pending[k][g + 1]
          BY <3>1, <3>4
        <5> QED
          BY <4>0, <5>1
      <4> QED
        BY <4>1
    <3>5. tracker' = tracker /\ policy' = policy /\ running'[k] # {}
      BY <1>5 DEF managerVars
    <3>6. \A i \in 1..Len(pending'[j]) : stage'[pending'[j][i]] = "pending" /\ tracker'[pending'[j][i]] = j
      BY <2>2, <3>3, <3>5
    <3>7. \A i, g \in 1..Len(pending'[j]) : pending'[j][i] = pending'[j][g] => i = g
      BY <2>2, <3>4
    <3>8. pending'[j] # <<>> => policy' = "serialize" /\ running'[j] # {}
      BY <2>2, <3>5
    <3> QED
      BY <3>6, <3>7, <3>8 DEF QueueIsSound
  <2>3. CASE j # k
    <3>1. \A i \in 1..Len(pending[j]) : pending[j][i] # h
      BY <1>4, <2>1, <2>3 DEF QueueIsSound
    <3>2. /\ tracker' = tracker /\ policy' = policy
          /\ pending'[j] = pending[j] /\ running'[j] = running[j]
      BY <1>5, <2>3 DEF managerVars
    <3>3. \A i \in 1..Len(pending[j]) : stage'[pending[j][i]] = stage[pending[j][i]]
      BY <1>2, <1>6, <1>8, <3>1
    <3>4. \A i \in 1..Len(pending'[j]) : stage'[pending'[j][i]] = "pending" /\ tracker'[pending'[j][i]] = j
      BY <2>1, <3>2, <3>3 DEF QueueIsSound
    <3>5. \A i, g \in 1..Len(pending'[j]) : pending'[j][i] = pending'[j][g] => i = g
      BY <2>1, <3>2 DEF QueueIsSound
    <3>6. pending'[j] # <<>> => policy' = "serialize" /\ running'[j] # {}
      BY <2>1, <3>2 DEF QueueIsSound
    <3> QED
      BY <3>4, <3>5, <3>6 DEF QueueIsSound
  <2> QED
    BY <2>2, <2>3
<1>11. (\A j \in Trackers : TimerIsSound(j))'
  BY <1>6, <1>8 DEF IInv, TypeOK, TimerIsSound, managerVars
<1>12. ASSUME NEW j \in Trackers PROVE RunsAreSound(j)'
  <2>1. RunsAreSound(j)
    BY DEF IInv
  <2>2. CASE j = k
    BY <1>4, <1>5, <1>6, <2>2 DEF RunsAreSound, Active, managerVars
  <2>3. CASE j # k
    <3>1. running'[j] = running[j] /\ tracker' = tracker /\ policy' = policy
      BY <1>5, <2>3 DEF managerVars
    <3>2. \A u \in running[j] : stage'[u] = stage[u]
      BY <1>2, <1>6, <1>8, <2>3
    <3> QED
      BY <2>1, <3>1, <3>2 DEF RunsAreSound
  <2> QED
    BY <2>2, <2>3
<1>13. (\A u \in Triggers : RunIsKnown(u))'
  <2> SUFFICES ASSUME NEW u \in Triggers, stage'[u] \in Active
               PROVE  u \in running'[tracker[u]]
    BY DEF RunIsKnown, managerVars
  <2>1. CASE u = h
    BY <1>4, <1>5, <2>1
  <2>2. CASE u # h
    <3>1. u # t /\ stage[u] = stage'[u]
      BY <1>6, <2>2 DEF Active
    <3>2. tracker[u] \in Trackers /\ u \in running[tracker[u]]
      BY <3>1, HasTracker DEF Active, IInv, RunIsKnown
    <3> QED
      BY <1>5, <3>1, <3>2
  <2> QED
    BY <2>1, <2>2
<1>14. (\A u \in Triggers : Counted(u))'
  BY <1>4, <1>6 DEF IInv, Counted
<1> QED
  BY <1>7, <1>9, <1>10, <1>11, <1>12, <1>13, <1>14 DEF IInv, managerVars

LEMMA CleansUp ==
    ASSUME IInv, NEW t \in Triggers, Cleanup(t)
    PROVE  IInv'
<1> DEFINE k == tracker[t]
<1>1. CASE policy = "serialize" /\ pending[k] # <<>> /\ running[k] \ {t} = {}
  BY <1>1, HandsOver DEF Cleanup, StartPending
<1>2. CASE ~(policy = "serialize" /\ pending[k] # <<>> /\ running[k] \ {t} = {})
  BY <1>2, Leaves DEF Cleanup, StartPending, managerVars
<1> QED
  BY <1>1, <1>2

\* Who waits in the queue gives up.
LEMMA GivesUp ==
    ASSUME IInv, NEW t \in Triggers, CancelPending(t)
    PROVE  IInv'
<1> DEFINE k == tracker[t]
<1>1. /\ policy = "serialize" /\ stage[t] = "pending"
      /\ stage' = [stage EXCEPT ![t] = "canceled"]
      /\ UNCHANGED <<managerVars, running, debounced, armed, firing, cancelled, executions>>
  BY DEF CancelPending
<1>2. PICK n \in DOMAIN pending[k] : /\ pending[k][n] = t
                                     /\ pending' = [pending EXCEPT ![k] = RemoveAt(@, n)]
  BY DEF CancelPending
<1>3. k \in Trackers
  BY <1>1, HasTracker
<1>4. \A j \in Trackers : /\ pending[j] \in Seq(Triggers) /\ Len(pending[j]) \in Nat
                          /\ Len(pending[j]) <= MaxQueue
                          /\ \A i \in 1..Len(pending[j]) : pending[j][i] \in Triggers
                          /\ running[j] \subseteq Triggers
  BY DEF IInv, TypeOK
<1> DEFINE q == RemoveAt(pending[k], n)
<1>5. /\ n \in 1..Len(pending[k]) /\ q \in Seq(Triggers) /\ Len(q) = Len(pending[k]) - 1
      /\ \A i \in 1..Len(pending[k]) - 1 : q[i] = IF i < n THEN pending[k][i] ELSE pending[k][i + 1]
  <2>1. n \in 1..Len(pending[k]) /\ pending[k] \in Seq(Triggers)
    BY <1>2, <1>3, <1>4
  <2> QED
    BY <2>1, RemoveAtIs
<1>6. pending'[k] = q /\ \A j \in Trackers : j # k => pending'[j] = pending[j]
  BY <1>2, <1>3 DEF IInv, TypeOK
<1> HIDE DEF q
<1>7. stage'[t] = "canceled" /\ \A u \in Triggers : u # t => stage'[u] = stage[u]
  BY <1>1 DEF IInv, TypeOK
<1>8. TypeOK'
  <2>1. stage' \in [Triggers -> Stage]
    BY <1>1 DEF IInv, TypeOK, Stage, Answer
  <2>2. pending' \in [Trackers -> Seq(Triggers)]
    BY <1>2, <1>5 DEF IInv, TypeOK, q
  <2>3. ASSUME NEW j \in Trackers PROVE Len(pending'[j]) <= MaxQueue
    BY <1>3, <1>4, <1>5, <1>6, MaxQueueAssumption
  <2> QED
    BY <1>1, <2>1, <2>2, <2>3 DEF IInv, TypeOK, managerVars
<1>9. ASSUME NEW j \in Trackers
      PROVE  t # debounced[j] /\ t \notin running[j]
  BY <1>1 DEF IInv, TimerIsSound, RunsAreSound, Active, NoTrigger, Triggers
<1>10. (\A u \in Triggers : Given(u))'
  BY <1>1, <1>7 DEF IInv, Given, managerVars
<1>11. ASSUME NEW j \in Trackers PROVE QueueIsSound(j)'
  <2>1. QueueIsSound(j)
    BY DEF IInv
  <2>2. tracker' = tracker /\ policy' = policy /\ running' = running
    BY <1>1 DEF managerVars
  <2>3. CASE j = k
    <3>1. \A i \in 1..Len(q) : /\ (IF i < n THEN i ELSE i + 1) \in 1..Len(pending[k])
                               /\ (IF i < n THEN i ELSE i + 1) # n
                               /\ q[i] = pending[k][IF i < n THEN i ELSE i + 1]
      <4>1. Len(pending[k]) \in Nat /\ n \in 1..Len(pending[k]) /\ Len(q) = Len(pending[k]) - 1
        BY <1>3, <1>4, <1>5
      <4>2. \A l \in Nat : \A m \in 1..l : \A i \in 1..l - 1 :
              /\ (IF i < m THEN i ELSE i + 1) \in 1..l
              /\ (IF i < m THEN i ELSE i + 1) # m
        OBVIOUS
      <4>3. \A i \in 1..Len(q) : q[i] = pending[k][IF i < n THEN i ELSE i + 1]
        BY <1>5
      <4> QED
        BY <4>1, <4>2, <4>3
    <3>2. ASSUME NEW i \in 1..Len(q) PROVE stage'[q[i]] = "pending" /\ tracker[q[i]] = k
      <4>1. PICK g \in 1..Len(pending[k]) : g # n /\ q[i] = pending[k][g]
        BY <3>1
      <4>2. /\ pending[k][g] \in Triggers \ {t} /\ stage[pending[k][g]] = "pending"
            /\ tracker[pending[k][g]] = k
        BY <1>2, <1>3, <1>4, <1>5, <2>1, <2>3, <4>1 DEF QueueIsSound
      <4> QED
        BY <1>7, <4>1, <4>2
    <3>3. ASSUME NEW i \in 1..Len(q), NEW g \in 1..Len(q), q[i] = q[g] PROVE i = g
      <4> DEFINE from(x) == IF x < n THEN x ELSE x + 1
      <4>1. /\ from(i) \in 1..Len(pending[k]) /\ q[i] = pending[k][from(i)]
            /\ from(g) \in 1..Len(pending[k]) /\ q[g] = pending[k][from(g)]
        BY <3>1
      <4>2. i \in Int /\ g \in Int /\ n \in Int
        BY <1>5
      <4>3. from(i) = from(g) => i = g
        BY <4>2
      <4> HIDE DEF from
      <4> QED
        BY <2>1, <2>3, <3>3, <4>1, <4>3 DEF QueueIsSound
    <3>4. q # <<>> => policy = "serialize" /\ running[k] # {}
      <4>1. pending[k] # <<>>
        BY <1>5
      <4> QED
        BY <2>1, <2>3, <4>1 DEF QueueIsSound
    <3>5. pending'[j] = q /\ tracker'= tracker
      BY <1>6, <2>2, <2>3
    <3>6. \A i \in 1..Len(pending'[j]) : stage'[pending'[j][i]] = "pending" /\ tracker'[pending'[j][i]] = j
      BY <2>3, <3>2, <3>5
    <3>7. \A i, g \in 1..Len(pending'[j]) : pending'[j][i] = pending'[j][g] => i = g
      BY <3>3, <3>5
    <3>8. pending'[j] # <<>> => policy' = "serialize" /\ running'[j] # {}
      BY <2>2, <2>3, <3>4, <3>5
    <3> QED
      BY <3>6, <3>7, <3>8 DEF QueueIsSound
  <2>4. CASE j # k
    <3>1. pending'[j] = pending[j]
      BY <1>6, <2>4
    <3>2. \A i \in 1..Len(pending[j]) : pending[j][i] # t
      BY <2>1, <2>4 DEF QueueIsSound
    <3>3. \A i \in 1..Len(pending'[j]) : stage'[pending'[j][i]] = "pending" /\ tracker'[pending'[j][i]] = j
      BY <1>4, <1>7, <2>1, <2>2, <3>1, <3>2 DEF QueueIsSound
    <3>4. \A i, g \in 1..Len(pending'[j]) : pending'[j][i] = pending'[j][g] => i = g
      BY <2>1, <3>1 DEF QueueIsSound
    <3>5. pending'[j] # <<>> => policy' = "serialize" /\ running'[j] # {}
      BY <2>1, <2>2, <3>1 DEF QueueIsSound
    <3> QED
      BY <3>3, <3>4, <3>5 DEF QueueIsSound
  <2> QED
    BY <2>3, <2>4
<1>12. (\A j \in Trackers : TimerIsSound(j))'
  BY <1>1, <1>7, <1>9 DEF IInv, TypeOK, TimerIsSound, managerVars
<1>13. ASSUME NEW j \in Trackers PROVE RunsAreSound(j)'
  <2>1. RunsAreSound(j) /\ running'[j] = running[j] /\ tracker' = tracker /\ policy' = policy
    BY <1>1 DEF IInv, managerVars
  <2>2. \A u \in running[j] : stage'[u] = stage[u]
    BY <1>4, <1>7, <1>9
  <2> QED
    BY <2>1, <2>2 DEF RunsAreSound
<1>14. (\A u \in Triggers : RunIsKnown(u))'
  BY <1>1, <1>7 DEF IInv, RunIsKnown, Active, managerVars
<1>15. (\A u \in Triggers : Counted(u))'
  BY <1>1, <1>7 DEF IInv, Counted
<1> QED
  BY <1>1, <1>8, <1>10, <1>11, <1>12, <1>13, <1>14, <1>15 DEF IInv, managerVars

-----------------------------------------------------------------------------
(* Every step together. *)

LEMMA Applies ==
    ASSUME IInv, NEW t \in Triggers, Apply(t)
    PROVE  IInv'
<1> DEFINE k == tracker[t]
<1>1. /\ stage[t] = "tracked"
      /\ ApplyReplace(k, t) \/ ApplySerialize(k, t) \/ ApplyParallel(k, t) \/ ApplyDebounce(k, t)
      /\ UNCHANGED <<policy, made, mapped, tracker, firing, executions>>
  BY DEF Apply, managerVars
<1>2. k \in Trackers /\ running[k] \subseteq Triggers /\ {} \in SUBSET running[k]
      /\ {} \cup {t} = {t} /\ cancelled \subseteq Triggers
  BY <1>1, HasTracker DEF IInv, TypeOK
<1>3. CASE ApplyReplace(k, t)
  <2>1. /\ cancelled' = cancelled \cup running[k] /\ running' = [running EXCEPT ![k] = {} \cup {t}]
        /\ stage' = [stage EXCEPT ![t] = "started"] /\ policy = "replace"
        /\ UNCHANGED <<pending, debounced, armed>>
    BY <1>2, <1>3 DEF ApplyReplace
  <2> QED
    BY <1>1, <1>2, <2>1, Begins
<1>4. CASE ApplyParallel(k, t)
  <2>1. /\ running' = [running EXCEPT ![k] = running[k] \cup {t}] /\ policy = "parallel"
        /\ stage' = [stage EXCEPT ![t] = "started"]
        /\ UNCHANGED <<pending, debounced, armed, cancelled>>
    BY <1>4 DEF ApplyParallel
  <2>2. running[k] \in SUBSET running[k] /\ cancelled' \in SUBSET Triggers /\ cancelled \subseteq cancelled'
    BY <1>2, <2>1
  <2> QED
    BY <1>1, <2>1, <2>2, Begins
<1>5. CASE ApplySerialize(k, t)
  <2>1. /\ policy = "serialize" /\ UNCHANGED <<debounced, armed, cancelled>>
        /\ SerializeStarts(k, t) \/ SerializeEnqueues(k, t) \/ SerializeRefuses(k, t)
    BY <1>5 DEF ApplySerialize
  <2>2. CASE SerializeStarts(k, t)
    <3>1. /\ running[k] = {} /\ running' = [running EXCEPT ![k] = {} \cup {t}]
          /\ stage' = [stage EXCEPT ![t] = "started"] /\ UNCHANGED pending
      BY <1>2, <2>2 DEF SerializeStarts
    <3>2. cancelled' \in SUBSET Triggers /\ cancelled \subseteq cancelled'
      BY <1>2, <2>1
    <3> QED
      BY <1>1, <1>2, <2>1, <3>1, <3>2, Begins
  <2>3. CASE SerializeEnqueues(k, t)
    BY <1>1, <2>1, <2>3, JoinsQueue
  <2>4. CASE SerializeRefuses(k, t)
    BY <1>1, <2>1, <2>4, IsRefused
  <2> QED
    BY <2>1, <2>2, <2>3, <2>4
<1>6. CASE ApplyDebounce(k, t)
  BY <1>1, <1>6, TakesTheTimer
<1> QED
  BY <1>1, <1>3, <1>4, <1>5, <1>6

LEMMA InvInit == Init => IInv
<1> SUFFICES ASSUME Init PROVE IInv
  OBVIOUS
<1>1. TypeOK
  <2>1. <<>> \in Seq(Triggers) /\ Len(<<>>) = 0 /\ 0 <= MaxQueue
    BY MaxQueueAssumption
  <2>2. /\ pending \in [Trackers -> Seq(Triggers)]
        /\ \A k \in Trackers : Len(pending[k]) <= MaxQueue
    BY <2>1 DEF Init
  <2>3. made \in 0..MaxTrackers
    BY BoundsAssumption DEF Init
  <2> QED
    BY <2>2, <2>3 DEF Init, TypeOK, Stage
<1>2. 1..Len(<<>>) = {}
  OBVIOUS
<1> QED
  BY <1>1, <1>2 DEF Init, IInv, Given, QueueIsSound, TimerIsSound, RunsAreSound, RunIsKnown,
     Counted,
                    Active, NoTracker, NoTrigger

LEMMA InvNext == IInv /\ [Next]_<<vars, executions>> => IInv'
<1> SUFFICES ASSUME IInv, [Next]_<<vars, executions>> PROVE IInv'
  OBVIOUS
<1>1. ASSUME NEW t \in Triggers, GetTracker(t) PROVE IInv'
  BY <1>1, Arrives
<1>2. ASSUME NEW t \in Triggers, Apply(t) PROVE IInv'
  BY <1>2, Applies
<1>3. ASSUME NEW t \in Triggers, CancelRun(t) PROVE IInv'
  BY <1>3, CancelsRun
<1>4. ASSUME NEW t \in Triggers, Execute(t) \/ Finish(t) PROVE IInv'
  BY <1>4, Progresses
<1>5. ASSUME NEW t \in Triggers, Cleanup(t) PROVE IInv'
  BY <1>5, CleansUp
<1>6. ASSUME NEW t \in Triggers, CancelPending(t) PROVE IInv'
  BY <1>6, GivesUp
<1>7. ASSUME NEW k \in Trackers, TimerExpires(k) PROVE IInv'
  BY <1>7, Expires
<1>8. ASSUME NEW k \in Trackers, ExecuteDebouncePending(k) PROVE IInv'
  BY <1>8, Fires
<1>9. CASE RemoveExtension
  BY <1>9, Removes
<1>10. CASE UNCHANGED <<vars, executions>>
  BY <1>10 DEF vars, managerVars, IInv, TypeOK, Given, QueueIsSound, TimerIsSound, RunsAreSound,
               RunIsKnown, Counted
<1> QED
  BY <1>1, <1>2, <1>3, <1>4, <1>5, <1>6, <1>7, <1>8, <1>9, <1>10 DEF Next

LEMMA SpecIInv == Spec => []IInv
  BY InvInit, InvNext, PTL DEF Spec

\* The type invariant, for every number of triggers and every capacity of the queue.
THEOREM TypeCorrect == Spec => []TypeOK
<1>1. IInv => TypeOK
  BY DEF IInv
<1> QED
  BY <1>1, SpecIInv, PTL

\* One run under serialize, one that is not cancelled under replace and debounce, none
\* that CancelRun does not find: the books of the trackers hold every run that is not
\* over and not cancelled, and no policy but parallel lets them hold two.
THEOREM RunsStayInHand == Spec => []RunsAreInHand
<1> SUFFICES ASSUME IInv PROVE RunsAreInHand
  BY SpecIInv, PTL
<1>1. ASSUME NEW k \in Trackers, NEW t \in InProgress(k) \ cancelled
      PROVE  t \in running[k] /\ t \in Triggers
  BY DEF IInv, InProgress, RunIsKnown, Active
<1>2. ASSUME NEW k \in Trackers, NEW t \in InProgress(k), policy = "serialize"
      PROVE  t \in running[k] /\ t \in Triggers
  BY <1>2 DEF IInv, InProgress, RunIsKnown, Active
<1>3. Serialized
  BY <1>2 DEF IInv, RunsAreSound, Serialized
<1>4. LatestWins
  BY <1>1 DEF IInv, RunsAreSound, LatestWins
<1>5. RunsAreReachable
  BY <1>1 DEF RunsAreReachable
<1> QED
  BY <1>3, <1>4, <1>5 DEF RunsAreInHand

\* The task of a trigger is begun once if its answer is its result, else never: no timer,
\* queue or removal begins it a second time or after its answer.
THEOREM AnswersAreTrue == Spec => []ExecutedAsAnswered
<1>1. IInv => ExecutedAsAnswered
  BY DEF IInv, Counted, ExecutedAsAnswered
<1> QED
  BY <1>1, SpecIInv, PTL

-----------------------------------------------------------------------------
(* serialize implements the lines of SerialLines. *)

\* A set of one, or of none, as a sequence.
LEMMA SetToSeqOfOne ==
    SetToSeq({}) = <<>> /\ \A x : SetToSeq({x}) = <<x>>
<1>1. SetToSeq({}) = <<>>
  <2>1. Cardinality({}) = 0 /\ 1..0 = {}
    BY FS_EmptySet
  <2>2. \A f \in [1..0 -> {}] : f = <<>>
    BY <2>1
  <2>3. <<>> \in [1..0 -> {}] /\ IsInjective(<<>>)
    BY <2>1 DEF IsInjective
  <2> QED
    BY <2>1, <2>2, <2>3 DEF SetToSeq
<1>2. ASSUME NEW x PROVE SetToSeq({x}) = <<x>>
  <2>1. Cardinality({x}) = 1 /\ 1..1 = {1}
    BY FS_Singleton
  <2>2. \A f \in [1..1 -> {x}] : f = <<x>>
    BY <2>1
  <2>3. <<x>> \in [1..1 -> {x}] /\ IsInjective(<<x>>)
    BY <2>1 DEF IsInjective
  <2> QED
    BY <2>1, <2>2, <2>3 DEF SetToSeq
<1> QED
  BY <1>1, <1>2

\* What a step does to a line, of its head and of those behind the head.
LEMMA HeadOfLine ==
    ASSUME NEW S, NEW x \in S, NEW q \in Seq(S)
    PROVE  /\ <<x>> \o q \in Seq(S) /\ Len(<<x>> \o q) = 1 + Len(q) /\ Len(q) \in Nat
           /\ <<x>> \o q # <<>> /\ Head(<<x>> \o q) = x /\ Tail(<<x>> \o q) = q
           /\ (<<x>> \o q)[1] = x
           /\ \A i \in 1..Len(q) : (<<x>> \o q)[i + 1] = q[i]
           /\ <<x>> \o <<>> = <<x>>
<1>1. <<x>> \in Seq(S) /\ Len(<<x>>) = 1 /\ <<x>>[1] = x
  OBVIOUS
<1>2. <<x>> \o q \in Seq(S) /\ Len(<<x>> \o q) = 1 + Len(q) /\ Len(q) \in Nat
  BY <1>1, ConcatProperties
<1>3. (<<x>> \o q)[1] = x /\ \A i \in 1..Len(q) : (<<x>> \o q)[i + 1] = q[i]
  BY <1>1, <1>2
<1>4. <<x>> \o q # <<>>
  BY <1>2
<1>5. Head(<<x>> \o q) = x
  BY <1>2, <1>3, <1>4
<1>6. Tail(<<x>> \o q) = q
  <2>1. Tail(<<x>> \o q) \in Seq(S) /\ Len(Tail(<<x>> \o q)) = Len(q)
    BY <1>2, <1>4, TailIs
  <2>2. \A i \in 1..Len(q) : Tail(<<x>> \o q)[i] = q[i]
    BY <1>2, <1>3, <1>4, <2>1, TailIs
  <2> QED
    BY <2>1, <2>2, SeqEqual
<1>7. <<x>> \o <<>> = <<x>>
  BY <1>1, ConcatEmptySeq
<1> QED
  BY <1>2, <1>3, <1>4, <1>5, <1>6, <1>7

\* Whoever joins joins behind the last, whoever gives up leaves a gap that closes.
LEMMA JoinsBehind ==
    ASSUME NEW S, NEW x \in S, NEW q \in Seq(S), NEW t \in S
    PROVE  Append(<<x>> \o q, t) = <<x>> \o Append(q, t)
<1> DEFINE p == <<x>> \o q
<1>0. /\ p \in Seq(S) /\ Len(p) = 1 + Len(q) /\ Len(q) \in Nat /\ p[1] = x
      /\ \A i \in 1..Len(q) : p[i + 1] = q[i]
  BY HeadOfLine
<1>1. /\ Append(q, t) \in Seq(S) /\ Len(Append(q, t)) = Len(q) + 1
      /\ Append(p, t) \in Seq(S) /\ Len(Append(p, t)) = Len(q) + 2
      /\ Append(p, t)[Len(q) + 2] = t /\ Append(q, t)[Len(q) + 1] = t
      /\ \A i \in 1..Len(q) : Append(q, t)[i] = q[i]
      /\ \A i \in 1..1 + Len(q) : Append(p, t)[i] = p[i]
  BY <1>0 DEF p
<1> DEFINE r == Append(q, t)
           s == <<x>> \o r
<1> HIDE DEF r, s, p
<1>2. /\ s \in Seq(S) /\ Len(s) = Len(q) + 2 /\ s[1] = x
      /\ \A i \in 1..Len(q) + 1 : s[i + 1] = r[i]
  BY <1>0, <1>1, HeadOfLine DEF s, r
<1>3. ASSUME NEW i \in 1..Len(q) + 2 PROVE Append(p, t)[i] = s[i]
  <2>1. CASE i = 1
    BY <1>0, <1>1, <1>2, <2>1
  <2>2. CASE i = Len(q) + 2
    BY <1>0, <1>1, <1>2, <2>2 DEF r
  <2>3. CASE i \in 2..Len(q) + 1
    <3>1. i - 1 \in 1..Len(q) /\ (i - 1) + 1 = i /\ i - 1 \in 1..Len(q) + 1 /\ i \in 1..1 + Len(q)
      BY <1>0, <2>3
    <3>2. s[i] = r[i - 1] /\ r[i - 1] = q[i - 1] /\ p[i] = q[i - 1] /\ Append(p, t)[i] = p[i]
      BY <1>0, <1>1, <1>2, <3>1 DEF r
    <3> QED
      BY <3>2
  <2> QED
    BY <1>0, <2>1, <2>2, <2>3
<1>4. Append(p, t) \in Seq(S) /\ s \in Seq(S) /\ Len(Append(p, t)) = Len(s)
  BY <1>1, <1>2
<1>5. Append(p, t) = s
  BY <1>1, <1>3, <1>4, SeqEqual
<1> QED
  BY <1>5 DEF s, r, p

LEMMA LeavesBehind ==
    ASSUME NEW S, NEW x \in S, NEW q \in Seq(S), NEW n \in 1..Len(q)
    PROVE  RemoveAt(<<x>> \o q, n + 1) = <<x>> \o RemoveAt(q, n)
<1> DEFINE p == <<x>> \o q
<1>0. /\ p \in Seq(S) /\ Len(p) = 1 + Len(q) /\ Len(q) \in Nat /\ p[1] = x
      /\ \A i \in 1..Len(q) : p[i + 1] = q[i]
  BY HeadOfLine
<1> DEFINE r == RemoveAt(q, n)
           s == <<x>> \o r
           u == RemoveAt(p, n + 1)
<1>1. /\ r \in Seq(S) /\ Len(r) = Len(q) - 1
      /\ \A i \in 1..Len(q) - 1 : r[i] = IF i < n THEN q[i] ELSE q[i + 1]
  BY RemoveAtIs
<1>2. n + 1 \in 1..Len(p) /\ Len(p) - 1 = Len(q)
  BY <1>0
<1>3. /\ u \in Seq(S) /\ Len(u) = Len(q)
      /\ \A i \in 1..Len(q) : u[i] = IF i < n + 1 THEN p[i] ELSE p[i + 1]
  <2>1. /\ u \in Seq(S) /\ Len(u) = Len(p) - 1
        /\ \A i \in 1..Len(p) - 1 : u[i] = IF i < n + 1 THEN p[i] ELSE p[i + 1]
    <3> HIDE DEF p
    <3> QED
      BY <1>0, <1>2, RemoveAtIs
  <2> QED
    BY <1>2, <2>1
<1> HIDE DEF u, r, s, p
<1>4. /\ s \in Seq(S) /\ Len(s) = Len(q) /\ s[1] = x
      /\ \A i \in 1..Len(q) - 1 : s[i + 1] = r[i]
  <2>1. 1 + Len(r) = Len(q)
    BY <1>0, <1>1
  <2> QED
    BY <1>1, <2>1, HeadOfLine DEF s
<1>5. ASSUME NEW i \in 1..Len(q) PROVE u[i] = s[i]
  <2>1. n \in Int /\ n >= 1 /\ i \in Int /\ i >= 1 /\ i <= Len(q)
    BY <1>0
  <2>2. CASE i = 1
    BY <1>0, <1>3, <1>4, <2>1, <2>2
  <2>3. CASE i # 1
    <3>1. i - 1 \in 1..Len(q) - 1 /\ (i - 1) + 1 = i /\ (i - 1 < n <=> i < n + 1) /\ i - 1 \in 1..Len(q)
      BY <1>0, <2>1, <2>3
    <3>2. s[i] = r[i - 1] /\ r[i - 1] = IF i < n + 1 THEN q[i - 1] ELSE q[i]
      BY <1>1, <1>4, <3>1
    <3>3. p[i] = q[i - 1] /\ p[i + 1] = q[i]
      BY <1>0, <3>1
    <3> QED
      BY <1>3, <3>2, <3>3
  <2> QED
    BY <2>2, <2>3
<1>6. u = s
  <2>1. Len(u) = Len(s) /\ \A i \in 1..Len(u) : u[i] = s[i]
    BY <1>3, <1>4, <1>5
  <2> QED
    BY <1>3, <1>4, <2>1, SeqEqual
<1> QED
  BY <1>6 DEF u, s, r, p

LEMMA HeadAndTail ==
    ASSUME NEW S, NEW q \in Seq(S), q # <<>>
    PROVE  <<Head(q)>> \o Tail(q) = q
<1> DEFINE p == <<Head(q)>> \o Tail(q)
<1>1. /\ Tail(q) \in Seq(S) /\ Len(q) \in Nat /\ Len(q) >= 1 /\ Len(Tail(q)) = Len(q) - 1
      /\ \A i \in 1..Len(Tail(q)) : Tail(q)[i] = q[i + 1]
      /\ Head(q) = q[1] /\ Head(q) \in S
  BY TailIs
<1>2. /\ p \in Seq(S) /\ Len(p) = 1 + Len(Tail(q)) /\ p[1] = Head(q)
      /\ \A i \in 1..Len(Tail(q)) : p[i + 1] = Tail(q)[i]
  BY <1>1, HeadOfLine
<1> HIDE DEF p
<1>3. Len(p) = Len(q)
  BY <1>1, <1>2
<1>4. ASSUME NEW i \in 1..Len(p) PROVE p[i] = q[i]
  <2>1. CASE i = 1
    BY <1>1, <1>2, <2>1
  <2>2. CASE i # 1
    <3>1. i - 1 \in 1..Len(Tail(q)) /\ (i - 1) + 1 = i
      BY <1>1, <1>3, <2>2
    <3> QED
      BY <1>1, <1>2, <3>1
  <2> QED
    BY <2>1, <2>2
<1>5. p = q
  BY <1>2, <1>3, <1>4, SeqEqual
<1> QED
  BY <1>5 DEF p

\* What the line of a tracker is under serialize: nobody, or the run and the queue.
LEMMA LineIs ==
    ASSUME IInv, policy = "serialize", NEW k \in Trackers
    PROVE  /\ LineOf(k) = SetToSeq(running[k]) \o pending[k]
           /\ \/ running[k] = {} /\ pending[k] = <<>> /\ LineOf(k) = <<>>
              \/ \E x \in Triggers : running[k] = {x} /\ LineOf(k) = <<x>> \o pending[k]
           /\ LineOf(k) \in Seq(Triggers) /\ pending[k] \in Seq(Triggers)
           /\ \A i \in 1..Len(LineOf(k)) :
                 \/ LineOf(k)[i] \in running[k]
                 \/ \E j \in 1..Len(pending[k]) : LineOf(k)[i] = pending[k][j]
<1>1. LineOf(k) = SetToSeq(running[k]) \o pending[k]
  BY DEF LineOf
<1>2. running[k] \subseteq Triggers /\ pending[k] \in Seq(Triggers) /\ Len(pending[k]) \in Nat
  BY DEF IInv, TypeOK
<1>3. CASE running[k] = {}
  <2>1. pending[k] = <<>> /\ <<>> \o <<>> = <<>> /\ 1..Len(<<>>) = {} /\ <<>> \in Seq(Triggers)
    BY <1>3, ConcatEmptySeq DEF IInv, QueueIsSound
  <2>2. LineOf(k) = <<>>
    BY <1>1, <1>3, <2>1, SetToSeqOfOne
  <2> QED
    BY <1>1, <1>3, <2>1, <2>2
<1>4. CASE running[k] # {}
  <2>1. PICK x \in Triggers : running[k] = {x}
    <3>1. PICK x : x \in running[k]
      BY <1>4
    <3>2. running[k] = {x}
      BY <3>1 DEF IInv, RunsAreSound
    <3> QED
      BY <1>2, <3>1, <3>2
  <2>2. LineOf(k) = <<x>> \o pending[k]
    BY <1>1, <2>1, SetToSeqOfOne
  <2>3. /\ LineOf(k) \in Seq(Triggers) /\ Len(LineOf(k)) = 1 + Len(pending[k]) /\ LineOf(k)[1] = x
        /\ \A i \in 1..Len(pending[k]) : LineOf(k)[i + 1] = pending[k][i]
    BY <1>2, <2>1, <2>2, HeadOfLine
  <2>4. ASSUME NEW i \in 1..Len(LineOf(k)), i # 1
        PROVE  \E j \in 1..Len(pending[k]) : LineOf(k)[i] = pending[k][j]
    <3>1. i - 1 \in 1..Len(pending[k]) /\ (i - 1) + 1 = i
      BY <1>2, <2>3, <2>4
    <3> QED
      BY <2>3, <3>1
  <2> QED
    BY <1>1, <1>2, <2>1, <2>2, <2>3, <2>4
<1> QED
  BY <1>3, <1>4

\* A step that changes neither runs nor queues, and ends nobody's run, is none of the
\* lines' steps; under the other policies no step is one.
LEMMA LinesStutter ==
    ASSUME policy' = policy,
           policy # "serialize" \/ (UNCHANGED <<running, pending>> /\ InStage("ran")' =
                                                InStage("ran"))
    PROVE  UNCHANGED <<[k \in Trackers |-> LineOf(k)],
                       IF policy = "serialize" THEN InStage("ran") ELSE {}>>
BY DEF LineOf

\* A trigger that calls Apply joins the line of its tracker.
LEMMA LinesJoin ==
    ASSUME IInv, policy = "serialize", policy' = policy, NEW t \in Triggers, stage[t] = "tracked",
           NEW k \in Trackers, Len(LineOf(k)) <= MaxQueue, LineOf(k)' = Append(LineOf(k), t),
           \A j \in Trackers : j # k => LineOf(j)' = LineOf(j),
           InStage("ran")' = InStage("ran")
    PROVE  Lines!Next
<1> DEFINE line == [j \in Trackers |-> LineOf(j)]
           served == IF policy = "serialize" THEN InStage("ran") ELSE {}
<1>1. ASSUME NEW j \in Trackers PROVE ~Contains(line[j], t)
  <2>1. \A i \in 1..Len(LineOf(j)) : \/ LineOf(j)[i] \in running[j]
                                     \/ \E h \in 1..Len(pending[j]) : LineOf(j)[i] = pending[j][h]
    BY LineIs
  <2>2. t \notin running[j] /\ \A h \in 1..Len(pending[j]) : pending[j][h] # t
    BY Tracked
  <2> QED
    BY <2>1, <2>2 DEF Contains
<1>2. t \notin served
  BY DEF InStage
<1>3. line' = [line EXCEPT ![k] = Append(@, t)] /\ served' = served /\ Len(line[k]) <= MaxQueue
  OBVIOUS
<1>4. Lines!Join(k, t)
  BY <1>1, <1>2, <1>3 DEF Lines!Join, Lines!Contains, Contains
<1> QED
  BY <1>4 DEF Lines!Next

LEMMA LinesApply ==
    ASSUME IInv, policy = "serialize", NEW t \in Triggers, Apply(t)
    PROVE  [Lines!Next]_<<[k \in Trackers |-> LineOf(k)],
                          IF policy = "serialize" THEN InStage("ran") ELSE {}>>
<1>1. PICK k : k = tracker[t]
  OBVIOUS
<1>2. /\ stage[t] = "tracked" /\ policy' = policy /\ k \in Trackers
      /\ SerializeStarts(k, t) \/ SerializeEnqueues(k, t) \/ SerializeRefuses(k, t)
  BY <1>1, HasTracker DEF Apply, managerVars, ApplyReplace, ApplySerialize, ApplyParallel,
     ApplyDebounce
<1>3. running \in [Trackers -> SUBSET Triggers] /\ pending \in [Trackers -> Seq(Triggers)]
      /\ stage \in [Triggers -> Stage]
  BY DEF IInv, TypeOK
<1>4. \A s \in Stage : s # "ran" /\ stage' = [stage EXCEPT ![t] = s] => InStage("ran")' = InStage("ran")
  BY <1>2, <1>3 DEF InStage
<1>5. "started" \in Stage /\ "pending" \in Stage /\ "full" \in Stage
  BY DEF Stage, Answer
<1>6. CASE SerializeStarts(k, t)
  <2>1. /\ running[k] = {} /\ running' = [running EXCEPT ![k] = {t}]
        /\ stage' = [stage EXCEPT ![t] = "started"] /\ UNCHANGED pending
    BY <1>6 DEF SerializeStarts
  <2>2. LineOf(k) = <<>> /\ pending[k] = <<>>
    BY <1>2, <2>1, LineIs
  <2>3. LineOf(k)' = <<t>> \o pending[k]
    <3>1. running'[k] = {t} /\ pending'[k] = pending[k]
      BY <1>2, <1>3, <2>1
    <3> QED
      BY <1>2, <3>1, SetToSeqOfOne DEF LineOf
  <2>4. <<t>> \o <<>> = <<t>> /\ Append(<<>>, t) = <<t>> /\ Len(<<>>) = 0 /\ 0 <= MaxQueue
    <3>1. <<t>> \o <<>> = <<t>>
      BY HeadOfLine, EmptySeq
    <3> QED
      BY <3>1, MaxQueueAssumption
  <2>5. \A j \in Trackers : j # k => LineOf(j)' = LineOf(j)
    BY <1>2, <1>3, <2>1 DEF LineOf
  <2>6. InStage("ran")' = InStage("ran")
    BY <1>4, <1>5, <2>1
  <2> QED
    BY <1>2, <2>2, <2>3, <2>4, <2>5, <2>6, LinesJoin
<1>7. CASE SerializeEnqueues(k, t)
  <2>1. /\ running[k] # {} /\ Len(pending[k]) < MaxQueue
        /\ pending' = [pending EXCEPT ![k] = Append(@, t)]
        /\ stage' = [stage EXCEPT ![t] = "pending"] /\ UNCHANGED running
    BY <1>7 DEF SerializeEnqueues
  <2>2. PICK x \in Triggers : running[k] = {x} /\ LineOf(k) = <<x>> \o pending[k]
    BY <1>2, <2>1, LineIs
  <2>3. Len(LineOf(k)) <= MaxQueue
    <3>1. Len(<<x>> \o pending[k]) = 1 + Len(pending[k]) /\ Len(pending[k]) \in Nat
      BY <1>2, <1>3, HeadOfLine
    <3> QED
      BY <2>1, <2>2, <3>1, MaxQueueAssumption
  <2>4. LineOf(k)' = Append(LineOf(k), t)
    <3>1. running'[k] = {x} /\ pending'[k] = Append(pending[k], t)
      BY <1>2, <1>3, <2>1, <2>2
    <3>2. LineOf(k)' = <<x>> \o Append(pending[k], t)
      BY <1>2, <3>1, SetToSeqOfOne DEF LineOf
    <3>3. pending[k] \in Seq(Triggers)
      BY <1>2, <1>3
    <3>4. Append(<<x>> \o pending[k], t) = <<x>> \o Append(pending[k], t)
      BY <3>3, JoinsBehind
    <3> QED
      BY <2>2, <3>2, <3>4
  <2>5. \A j \in Trackers : j # k => LineOf(j)' = LineOf(j)
    BY <1>2, <1>3, <2>1 DEF LineOf
  <2>6. InStage("ran")' = InStage("ran")
    BY <1>4, <1>5, <2>1
  <2> QED
    BY <1>2, <2>3, <2>4, <2>5, <2>6, LinesJoin
<1>8. CASE SerializeRefuses(k, t)
  <2>1. stage' = [stage EXCEPT ![t] = "full"] /\ UNCHANGED <<running, pending>>
    BY <1>8 DEF SerializeRefuses
  <2>2. InStage("ran")' = InStage("ran")
    BY <1>4, <1>5, <2>1
  <2> QED
    BY <1>2, <2>1, <2>2, LinesStutter
<1> QED
  BY <1>2, <1>6, <1>7, <1>8

LEMMA LinesCleanup ==
    ASSUME IInv, policy = "serialize", NEW t \in Triggers, Cleanup(t)
    PROVE  Lines!Next
<1> DEFINE line == [j \in Trackers |-> LineOf(j)]
           served == IF policy = "serialize" THEN InStage("ran") ELSE {}
<1>1. PICK k : k = tracker[t]
  OBVIOUS
<1>2. /\ stage[t] = "finished" /\ policy' = policy /\ k \in Trackers
      /\ StartPending(k, running[k] \ {t}, t)
  BY <1>1, HasTracker DEF Cleanup, managerVars
<1>3. running \in [Trackers -> SUBSET Triggers] /\ pending \in [Trackers -> Seq(Triggers)]
      /\ stage \in [Triggers -> Stage]
  BY DEF IInv, TypeOK
<1>4. running[k] = {t} /\ LineOf(k) = <<t>> \o pending[k]
  <2>1. t \in running[k]
    BY <1>1, <1>2 DEF IInv, RunIsKnown, Active
  <2> QED
    BY <1>2, <2>1, LineIs
<1>5. /\ LineOf(k) # <<>> /\ Head(LineOf(k)) = t /\ Tail(LineOf(k)) = pending[k]
  BY <1>2, <1>3, <1>4, HeadOfLine
<1>6. LineOf(k)' = pending[k] /\ (\A j \in Trackers : j # k => LineOf(j)' = LineOf(j))
      /\ InStage("ran")' = InStage("ran") \cup {t}
  <2>1. CASE pending[k] # <<>>
    <3> DEFINE h == Head(pending[k])
    <3>1. /\ pending' = [pending EXCEPT ![k] = Tail(@)] /\ running' = [running EXCEPT ![k] = {h}]
          /\ stage' = [stage EXCEPT ![t] = "ran", ![h] = "started"]
      BY <1>2, <1>4, <2>1 DEF StartPending
    <3>2. /\ h = pending[k][1] /\ h \in Triggers /\ 1 \in 1..Len(pending[k])
      BY <1>2, <1>3, <2>1, TailIs
    <3>3. stage[h] = "pending" /\ h # t
      BY <1>2, <3>2 DEF IInv, QueueIsSound
    <3>4. running'[k] = {h} /\ pending'[k] = Tail(pending[k])
      BY <1>2, <1>3, <3>1
    <3>5. LineOf(k)' = <<h>> \o Tail(pending[k])
      BY <1>2, <3>4, SetToSeqOfOne DEF LineOf
    <3>6. <<h>> \o Tail(pending[k]) = pending[k]
      BY <1>2, <1>3, <2>1, HeadAndTail
    <3>7. \A j \in Trackers : j # k => LineOf(j)' = LineOf(j)
      BY <1>2, <1>3, <3>1 DEF LineOf
    <3> HIDE DEF h
    <3>8. InStage("ran")' = InStage("ran") \cup {t}
      BY <1>2, <1>3, <3>1, <3>2, <3>3 DEF InStage
    <3> QED
      BY <3>5, <3>6, <3>7, <3>8
  <2>2. CASE pending[k] = <<>>
    <3>1. /\ running' = [running EXCEPT ![k] = {}] /\ stage' = [stage EXCEPT ![t] = "ran"]
          /\ UNCHANGED pending
      BY <1>2, <1>4, <2>2 DEF StartPending
    <3>2. running'[k] = {} /\ pending'[k] = <<>> /\ <<>> \o <<>> = <<>>
      BY <1>2, <1>3, <2>2, <3>1, ConcatEmptySeq
    <3>3. LineOf(k)' = <<>>
      BY <1>2, <3>2, SetToSeqOfOne DEF LineOf
    <3>4. \A j \in Trackers : j # k => LineOf(j)' = LineOf(j)
      BY <1>2, <1>3, <3>1 DEF LineOf
    <3>5. InStage("ran")' = InStage("ran") \cup {t}
      BY <1>2, <1>3, <3>1 DEF InStage
    <3> QED
      BY <2>2, <3>3, <3>4, <3>5
  <2> QED
    BY <2>1, <2>2
<1>7. /\ line[k] # <<>> /\ served' = served \cup {Head(line[k])}
      /\ line' = [line EXCEPT ![k] = Tail(@)]
  BY <1>2, <1>5, <1>6
<1>8. Lines!HeadEnds(k)
  BY <1>7 DEF Lines!HeadEnds
<1> QED
  BY <1>2, <1>8 DEF Lines!Next

LEMMA LinesGiveUp ==
    ASSUME IInv, policy = "serialize", NEW t \in Triggers, CancelPending(t)
    PROVE  Lines!Next
<1> DEFINE line == [j \in Trackers |-> LineOf(j)]
           served == IF policy = "serialize" THEN InStage("ran") ELSE {}
<1>1. PICK k : k = tracker[t]
  OBVIOUS
<1>2. /\ stage[t] = "pending" /\ policy' = policy /\ running' = running /\ k \in Trackers
      /\ stage' = [stage EXCEPT ![t] = "canceled"]
  BY <1>1, HasTracker DEF CancelPending, managerVars
<1>3. PICK n \in DOMAIN pending[k] : pending' = [pending EXCEPT ![k] = RemoveAt(@, n)]
  BY <1>1 DEF CancelPending
<1>4. /\ pending \in [Trackers -> Seq(Triggers)] /\ Len(pending[k]) <= MaxQueue
      /\ n \in 1..Len(pending[k]) /\ Len(pending[k]) \in Nat /\ stage \in [Triggers -> Stage]
  BY <1>2, <1>3 DEF IInv, TypeOK
<1>5. PICK x \in Triggers : running[k] = {x} /\ LineOf(k) = <<x>> \o pending[k]
  <2>1. pending[k] # <<>>
    BY <1>2, <1>4
  <2> QED
    BY <1>2, <2>1, LineIs
<1>6. LineOf(k)' = <<x>> \o RemoveAt(pending[k], n)
  <2>1. running'[k] = {x} /\ pending'[k] = RemoveAt(pending[k], n)
    BY <1>2, <1>3, <1>4, <1>5
  <2> QED
    BY <1>2, <2>1, SetToSeqOfOne DEF LineOf
<1>7. RemoveAt(<<x>> \o pending[k], n + 1) = <<x>> \o RemoveAt(pending[k], n)
  <2>1. pending[k] \in Seq(Triggers)
    BY <1>2, <1>4
  <2> QED
    BY <1>4, <2>1, LeavesBehind
<1>8. \A j \in Trackers : j # k => LineOf(j)' = LineOf(j)
  BY <1>2, <1>3, <1>4 DEF LineOf
<1>9. InStage("ran")' = InStage("ran")
  BY <1>2, <1>4 DEF InStage
<1>10. n + 1 \in 2..Len(line[k]) /\ n + 1 \in 1..MaxQueue + 1
  <2>1. Len(LineOf(k)) = 1 + Len(pending[k])
    BY <1>2, <1>4, <1>5, HeadOfLine
  <2> QED
    BY <1>2, <1>4, <2>1, MaxQueueAssumption
<1>11. line' = [line EXCEPT ![k] = RemoveAt(@, n + 1)] /\ served' = served
  BY <1>2, <1>5, <1>6, <1>7, <1>8, <1>9
<1>12. Lines!Leave(k, n + 1)
  BY <1>10, <1>11 DEF Lines!Leave, Lines!RemoveAt, RemoveAt
<1> QED
  BY <1>2, <1>10, <1>12 DEF Lines!Next

LEMMA LinesRemove ==
    ASSUME IInv, policy = "serialize", RemoveExtension
    PROVE  [Lines!Next]_<<[k \in Trackers |-> LineOf(k)],
                          IF policy = "serialize" THEN InStage("ran") ELSE {}>>
<1> DEFINE line == [j \in Trackers |-> LineOf(j)]
           served == IF policy = "serialize" THEN InStage("ran") ELSE {}
<1>1. PICK k : k = made
  OBVIOUS
<1>2. /\ k \in Trackers /\ policy' = policy /\ running' = running
      /\ pending' = [pending EXCEPT ![k] = <<>>]
      /\ stage' = [t \in Triggers |->
                      IF stage[t] = "pending" /\ tracker[t] = k THEN "canceled" ELSE stage[t]]
  BY <1>1, MadeIsTracker DEF RemoveExtension
<1>3. pending \in [Trackers -> Seq(Triggers)] /\ stage \in [Triggers -> Stage]
  BY DEF IInv, TypeOK
<1>4. InStage("ran")' = InStage("ran")
  BY <1>2, <1>3 DEF InStage
<1>5. \A j \in Trackers : j # k => LineOf(j)' = LineOf(j)
  BY <1>2, <1>3 DEF LineOf
<1>6. CASE running[k] = {}
  <2>1. pending[k] = <<>>
    BY <1>2, <1>6, LineIs
  <2>2. pending' = pending
    BY <1>2, <1>3, <2>1
  <2> QED
    BY <1>2, <1>4, <2>2, LinesStutter
<1>7. CASE running[k] # {}
  <2>1. PICK x \in Triggers : running[k] = {x} /\ LineOf(k) = <<x>> \o pending[k]
    BY <1>2, <1>7, LineIs
  <2>2. LineOf(k) # <<>> /\ Head(LineOf(k)) = x /\ <<x>> \o <<>> = <<x>>
    BY <1>2, <1>3, <2>1, HeadOfLine
  <2>3. LineOf(k)' = <<x>>
    <3>1. running'[k] = {x} /\ pending'[k] = <<>>
      BY <1>2, <1>3, <2>1
    <3> QED
      BY <1>2, <2>2, <3>1, SetToSeqOfOne DEF LineOf
  <2>4. line[k] # <<>> /\ line' = [line EXCEPT ![k] = <<Head(@)>>] /\ served' = served
    BY <1>2, <1>4, <1>5, <2>2, <2>3
  <2>5. Lines!Dismiss(k)
    BY <2>4 DEF Lines!Dismiss
  <2> QED
    BY <1>2, <2>5 DEF Lines!Next
<1> QED
  BY <1>6, <1>7

LEMMA LinesNext ==
    ASSUME IInv, [Next]_<<vars, executions>>
    PROVE  [Lines!Next]_<<[k \in Trackers |-> LineOf(k)],
                          IF policy = "serialize" THEN InStage("ran") ELSE {}>>
<1>1. policy' = policy
  BY DEF Next, GetTracker, Apply, CancelRun, Execute, Finish, Cleanup, CancelPending,
     TimerExpires,
         ExecuteDebouncePending, RemoveExtension, vars, managerVars
<1>2. CASE policy # "serialize"
  BY <1>1, <1>2, LinesStutter
<1>3. CASE policy = "serialize"
  <2> USE <1>3
  <2>1. stage \in [Triggers -> Stage] /\ "ran" \notin {"idle", "tracked", "executing", "finished"}
    BY DEF IInv, TypeOK
  <2>2. ASSUME NEW t \in Triggers, GetTracker(t) \/ Execute(t) \/ Finish(t)
        PROVE  UNCHANGED <<running, pending>> /\ InStage("ran")' = InStage("ran")
    <3>1. t \in t..MaxTriggers
      BY BoundsAssumption DEF Triggers
    <3>2. PICK s \in {"tracked", "executing", "finished"} :
            stage[t] # "ran" /\ stage' = [stage EXCEPT ![t] = s] /\ UNCHANGED <<running,
                                                                                pending>>
      BY <2>2, <3>1 DEF GetTracker, Execute, Finish, InStage
    <3> QED
      BY <2>1, <3>2 DEF InStage
  <2>3. ASSUME NEW t \in Triggers, CancelRun(t)
        PROVE  UNCHANGED <<running, pending>> /\ InStage("ran")' = InStage("ran")
    BY <2>3 DEF CancelRun, InStage
  <2>4. ASSUME NEW k \in Trackers, TimerExpires(k) \/ ExecuteDebouncePending(k)
        PROVE  UNCHANGED <<running, pending>> /\ InStage("ran")' = InStage("ran")
    <3>1. debounced[k] = NoTrigger
      BY DEF IInv, TimerIsSound
    <3> QED
      BY <2>4, <3>1 DEF TimerExpires, ExecuteDebouncePending, InStage
  <2>5. CASE UNCHANGED <<vars, executions>>
    BY <1>1, <2>5, LinesStutter DEF vars, managerVars, InStage
  <2> QED
    BY <1>1, <2>2, <2>3, <2>4, <2>5, LinesStutter, LinesApply, LinesCleanup, LinesGiveUp,
       LinesRemove
       DEF Next
<1> QED
  BY <1>2, <1>3

\* Under serialize the triggers given one tracker form a line that is served from its head:
\* every step of the tracker is a step of that line, or none.
THEOREM ServesInLine == Spec => ServedInLine
<1>1. Init => Lines!Init
  <2> SUFFICES ASSUME Init PROVE Lines!Init
    OBVIOUS
  <2>1. ASSUME NEW k \in Trackers PROVE LineOf(k) = <<>>
    <3>1. running[k] = {} /\ pending[k] = <<>> /\ <<>> \o <<>> = <<>>
      BY ConcatEmptySeq, EmptySeq DEF Init
    <3> QED
      BY <3>1, SetToSeqOfOne DEF LineOf
  <2>2. InStage("ran") = {}
    BY DEF Init, InStage
  <2> QED
    BY <2>1, <2>2 DEF Lines!Init
<1>2. IInv /\ [Next]_<<vars, executions>> =>
        [Lines!Next]_<<[k \in Trackers |-> LineOf(k)],
                       IF policy = "serialize" THEN InStage("ran") ELSE {}>>
  BY LinesNext
<1> QED
  BY <1>1, <1>2, SpecIInv, PTL DEF Spec, ServedInLine, Lines!Spec

-----------------------------------------------------------------------------
(***************************************************************************)
(* One run of an extension (ExtensionRun), a specification of its own: for *)
(* any capacity of the channel, any number of lines printed, and any order *)
(* in which the user, the guard, the process and the two goroutines take   *)
(* their steps.                                                            *)
(***************************************************************************)

(* The inductive invariant. *)

\* cmd.Wait returns only for a process that has ended.
ReapedIsDead == reaped => proc # "alive"

\* What the guard has decided it has also said: Execute, which reads guard.timedOut and
\* never asks what ended the process, cannot miss it. And what the guard said of a process
\* that still lived is a decision, its own or one taken before.
GuardHasSaid ==
    /\ cause = "timeout" => timedOut
    /\ timedOut => cause # "none" \/ proc # "alive"

\* While Execute waits, its place says what was decided: nothing but a timeout in the
\* select, a cancellation in its own branch (or nothing, if the process was gone before).
PlaceSaysCause ==
    /\ exec = "select" => result = "running" /\ cause # "cancel"
    /\ exec = "timedOut" => result = "timeout" /\ cause # "cancel"
    /\ exec \in {"cancelled", "cancelGrace", "killed"} =>
          /\ result = "running"
          /\ cause = "cancel" \/ (cause = "none" /\ proc # "alive")

\* Once the process is gone, the verdict that is set follows the cause, and the one that
\* is still open belongs to a process nobody ended.
ResultSaysCause ==
    exec \in {"drain", "ended"} =>
        /\ proc # "alive"
        /\ cause = "timeout" => result = "timeout"
        /\ cause = "cancel" => result \in {"canceled", "killed"}
        /\ result \in {"running", "success", "failed"} =>
              cause = "none" /\ proc \in {"zero", "code"}

RunIInv == RunTypeOK /\ ReapedIsDead /\ GuardHasSaid /\ PlaceSaysCause /\ ResultSaysCause

-----------------------------------------------------------------------------
(* Type correctness. *)

LEMMA RunTypeBegins == RunInit => RunTypeOK
<1> SUFFICES ASSUME RunInit PROVE RunTypeOK
  OBVIOUS
<1>1. /\ written \in 0..MaxLines /\ read \in 0..written /\ chan \in 0..ChanCap
      /\ lastLine \in Status \cup {"none"} /\ chanLast \in Status \cup {"none"}
  BY ChanCapAssumption, MaxLinesAssumption DEF RunInit
<1> QED
  BY <1>1 DEF RunInit, RunTypeOK

LEMMA RunTypeNext == RunTypeOK /\ [RunNext]_runVars => RunTypeOK'
<1> SUFFICES ASSUME RunTypeOK, [RunNext]_runVars PROVE RunTypeOK'
  OBVIOUS
<1> USE ChanCapAssumption, MaxLinesAssumption DEF RunTypeOK, Send, Decide, Status
<1>1. ASSUME NEW status \in Status, PrintResult(status) PROVE RunTypeOK'
  BY <1>1 DEF PrintResult, readerVars, guardVars
<1>2. ASSUME NEW exit \in Exit, EndBySelf(exit) PROVE RunTypeOK'
  BY <1>2 DEF EndBySelf, readerVars, guardVars
<1>3. CASE ObeySignal
  BY <1>3 DEF ObeySignal, Exit, readerVars, guardVars
<1>4. CASE Reap
  BY <1>4 DEF Reap, procVars, readerVars, guardVars
<1>5. CASE ReadLine
  BY <1>5 DEF ReadLine, procVars, guardVars
<1>6. CASE SendUpdate
  BY <1>6 DEF SendUpdate, procVars, guardVars
<1>7. CASE ReaderDone
  BY <1>7 DEF ReaderDone, procVars, guardVars
<1>8. CASE GuardTimesOut
  BY <1>8 DEF GuardTimesOut, readerVars
<1>9. CASE GuardKills
  BY <1>9 DEF GuardKills, readerVars
<1>10. CASE GuardReturns
  BY <1>10 DEF GuardReturns, procVars, readerVars
<1>11. CASE Cancel
  BY <1>11 DEF Cancel, procVars, readerVars, guardVars
<1>12. CASE ExecCancelled
  BY <1>12 DEF ExecCancelled, procVars, readerVars, Verdict
<1>13. CASE ExecTerminates
  BY <1>13 DEF ExecTerminates, readerVars, guardVars
<1>14. CASE ExecKills
  BY <1>14 DEF ExecKills, readerVars, guardVars
<1>15. CASE ExecExited
  BY <1>15 DEF ExecExited, procVars, readerVars, Verdict
<1>16. CASE ExecEnds
  BY <1>16 DEF ExecEnds, FinalState, procVars, readerVars, guardVars, Verdict
<1>17. CASE UNCHANGED runVars
  BY <1>17 DEF runVars, procVars, readerVars, guardVars
<1> QED
  BY <1>1, <1>2, <1>3, <1>4, <1>5, <1>6, <1>7, <1>8, <1>9, <1>10, <1>11, <1>12, <1>13, <1>14,
     <1>15, <1>16, <1>17 DEF RunNext, ReaderStep, GuardStep, ExecStep

-----------------------------------------------------------------------------
(* The verdict. *)

LEMMA RunInvBegins == RunInit => RunIInv
BY RunTypeBegins DEF RunInit, RunIInv, ReapedIsDead, GuardHasSaid, PlaceSaysCause, ResultSaysCause

\* The reader and the copy of what it reads do not touch what the invariant is about.
LEMMA RunInvUntouched ==
    ASSUME RunIInv, RunTypeOK', UNCHANGED <<proc, reaped, cause, timedOut, exec, result>>
    PROVE  RunIInv'
BY DEF RunIInv, ReapedIsDead, GuardHasSaid, PlaceSaysCause, ResultSaysCause

LEMMA RunInvNext == RunIInv /\ [RunNext]_runVars => RunIInv'
<1> SUFFICES ASSUME RunIInv, [RunNext]_runVars PROVE RunIInv'
  OBVIOUS
<1>0. RunTypeOK /\ RunTypeOK'
  BY RunTypeNext DEF RunIInv
<1> DEFINE Rest == ReapedIsDead /\ GuardHasSaid /\ PlaceSaysCause /\ ResultSaysCause
<1>p. ASSUME Rest' PROVE RunIInv'
  BY <1>p, <1>0 DEF RunIInv
<1>1. ASSUME NEW status \in Status, PrintResult(status) PROVE RunIInv'
  BY <1>0, <1>1, RunInvUntouched DEF PrintResult, guardVars
<1>2. ASSUME NEW exit \in Exit, EndBySelf(exit) PROVE Rest'
  BY <1>2 DEF EndBySelf, guardVars, Exit, RunIInv, ReapedIsDead, GuardHasSaid, PlaceSaysCause,
              ResultSaysCause
<1>3. CASE ObeySignal
  <2>1. Rest'
    BY <1>3 DEF ObeySignal, guardVars, RunIInv, ReapedIsDead, GuardHasSaid, PlaceSaysCause,
                ResultSaysCause
  <2> QED
    BY <2>1, <1>p
<1>4. CASE Reap
  <2>1. Rest'
    BY <1>4 DEF Reap, procVars, guardVars, RunIInv, ReapedIsDead, GuardHasSaid, PlaceSaysCause,
                ResultSaysCause
  <2> QED
    BY <2>1, <1>p
<1>5. CASE ReaderStep
  BY <1>0, <1>5, RunInvUntouched
  DEF ReaderStep, ReadLine, SendUpdate, ReaderDone, procVars, guardVars
<1>6. CASE GuardTimesOut \/ GuardKills
  \* The guard decides only of a living process: what Execute has ended it cannot disturb.
  <2>1. /\ timedOut' = TRUE
        /\ Decide("timeout")
        /\ UNCHANGED <<proc, reaped, exec, result>>
    BY <1>6 DEF GuardTimesOut, GuardKills
  <2>2. ReapedIsDead' /\ GuardHasSaid'
    BY <1>0, <2>1 DEF Decide, RunIInv, ReapedIsDead, GuardHasSaid, RunTypeOK
  <2>3. PlaceSaysCause'
    BY <2>1 DEF Decide, RunIInv, PlaceSaysCause
  <2>4. ResultSaysCause'
    BY <2>1 DEF Decide, RunIInv, ResultSaysCause
  <2> QED
    BY <2>2, <2>3, <2>4, <1>p
<1>7. CASE GuardReturns
  BY <1>0, <1>7, RunInvUntouched DEF GuardReturns, procVars
<1>8. CASE Cancel
  BY <1>0, <1>8, RunInvUntouched DEF Cancel, procVars, guardVars
<1>9. CASE ExecCancelled
  <2>1. exec = "select" /\ UNCHANGED <<proc, reaped, timedOut>>
    BY <1>9 DEF ExecCancelled, procVars
  <2>2. CASE timedOut
    \* The guard came first: Execute leaves the process to it.
    <3>1. exec' = "timedOut" /\ result' = "timeout" /\ UNCHANGED cause
      BY <1>9, <2>2 DEF ExecCancelled
    <3>2. Rest'
      BY <2>1, <3>1 DEF RunIInv, ReapedIsDead, GuardHasSaid, PlaceSaysCause, ResultSaysCause
    <3> QED
      BY <3>2, <1>p
  <2>3. CASE ~timedOut
    <3>1. exec' = "cancelled" /\ Decide("cancel") /\ UNCHANGED result
      BY <1>9, <2>3 DEF ExecCancelled
    <3>2. cause = "none"
      BY <1>0, <2>1, <2>3 DEF RunIInv, GuardHasSaid, PlaceSaysCause, RunTypeOK
    <3>3. Rest'
      BY <2>1, <2>3, <3>1, <3>2
      DEF Decide, RunIInv, ReapedIsDead, GuardHasSaid, PlaceSaysCause, ResultSaysCause
    <3> QED
      BY <3>3, <1>p
  <2> QED
    BY <2>2, <2>3
<1>10. CASE ExecTerminates \/ ExecKills
  <2>1. Rest'
    BY <1>10 DEF ExecTerminates, ExecKills, guardVars, RunIInv, ReapedIsDead, GuardHasSaid,
                 PlaceSaysCause, ResultSaysCause
  <2> QED
    BY <2>1, <1>p
<1>11. CASE ExecExited
  <2>1. /\ exec \in {"select", "timedOut", "cancelGrace", "killed"} /\ exec' = "drain"
        /\ proc \in Exit
        /\ UNCHANGED <<proc, reaped, timedOut, cause>>
    BY <1>0, <1>11 DEF ExecExited, procVars, RunIInv, ReapedIsDead, RunTypeOK
  <2>2. ReapedIsDead' /\ GuardHasSaid' /\ PlaceSaysCause'
    BY <2>1 DEF RunIInv, ReapedIsDead, GuardHasSaid, PlaceSaysCause
  <2>3. CASE exec = "select" /\ ~timedOut
    <3>1. cause = "none"
      BY <1>0, <2>3 DEF RunIInv, GuardHasSaid, PlaceSaysCause, RunTypeOK
    <3>2. result' \in {"killed", "canceled"} \/ (result' = "running" /\ proc \in {"zero", "code"})
      BY <1>11, <2>1, <2>3 DEF ExecExited, Exit, RunIInv, PlaceSaysCause
    <3>3. ResultSaysCause'
      BY <2>1, <3>1, <3>2 DEF ResultSaysCause, Exit
    <3> QED
      BY <2>2, <3>3, <1>p
  <2>4. CASE (exec = "select" /\ timedOut) \/ exec = "timedOut"
    <3>1. result' = "timeout" /\ cause # "cancel"
      BY <1>11, <2>1, <2>4 DEF ExecExited, RunIInv, PlaceSaysCause
    <3>2. ResultSaysCause'
      BY <2>1, <3>1 DEF ResultSaysCause, Exit
    <3> QED
      BY <2>2, <3>2, <1>p
  <2>5. CASE exec \in {"cancelGrace", "killed"}
    <3>1. result' \in {"canceled", "killed"} /\ cause # "timeout"
      BY <1>11, <2>1, <2>5 DEF ExecExited, RunIInv, PlaceSaysCause
    <3>2. ResultSaysCause'
      BY <2>1, <3>1 DEF ResultSaysCause, Exit
    <3> QED
      BY <2>2, <3>2, <1>p
  <2> QED
    BY <1>0, <2>1, <2>3, <2>4, <2>5 DEF RunTypeOK
<1>12. CASE ExecEnds
  \* The protocol and the exit code fill in only a verdict that nothing has set.
  <2>1. /\ exec = "drain" /\ exec' = "ended"
        /\ UNCHANGED <<proc, reaped, timedOut, cause>>
        /\ result # "running" => result' = result
        /\ result = "running" => result' \in {"success", "failed"}
    BY <1>12 DEF ExecEnds, FinalState, procVars, guardVars
  <2>2. ReapedIsDead' /\ GuardHasSaid' /\ PlaceSaysCause'
    BY <2>1 DEF RunIInv, ReapedIsDead, GuardHasSaid, PlaceSaysCause
  <2>3. ResultSaysCause'
    BY <2>1 DEF RunIInv, ResultSaysCause
  <2> QED
    BY <2>2, <2>3, <1>p
<1>13. CASE UNCHANGED runVars
  BY <1>0, <1>13, RunInvUntouched DEF runVars, procVars, guardVars
<1>14. ASSUME NEW exit \in Exit, EndBySelf(exit) PROVE RunIInv'
  BY <1>2, <1>14, <1>p
<1> QED
  BY <1>1, <1>14, <1>3, <1>4, <1>5, <1>6, <1>7, <1>8, <1>9, <1>10, <1>11, <1>12, <1>13
  DEF RunNext, GuardStep, ExecStep

-----------------------------------------------------------------------------
(* The theorems. *)

\* Every variable of a run keeps its type; protocolCh never holds more than it can.
THEOREM RunTypeCorrect == RunSpec => []RunTypeOK
<1>1. RunInit => RunTypeOK
  BY RunTypeBegins
<1>2. RunTypeOK /\ [RunNext]_runVars => RunTypeOK'
  BY RunTypeNext
<1> QED
  BY <1>1, <1>2, PTL DEF RunSpec

\* The inductive invariant holds of every reachable state; the theorems below rest on it.
THEOREM RunSpecIInv == RunSpec => []RunIInv
<1>1. RunInit => RunIInv
  BY RunInvBegins
<1>2. RunIInv /\ [RunNext]_runVars => RunIInv'
  BY RunInvNext
<1> QED
  BY <1>1, <1>2, PTL DEF RunSpec

\* The verdict of Execute goes by what first decided that the process had to end, in every
\* order of the guard's timer, the cancellation, the exit and the two goroutines.
THEOREM VerdictIsTheCauses == RunSpec => []VerdictFollowsCause
<1>1. RunIInv => VerdictFollowsCause
  BY DEF RunIInv, ResultSaysCause, VerdictFollowsCause
<1> QED
  BY <1>1, RunSpecIInv, PTL
=============================================================================
