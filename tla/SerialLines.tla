----------------------------- MODULE SerialLines -----------------------------
(***************************************************************************)
(* What the policy serialize promises: "every trigger joins a FIFO queue   *)
(* in the order of its arrival, none is merged or overwritten, the next    *)
(* task is run when the one before it has ended, the queue holds a fixed   *)
(* number of waiting tasks".  Whoever is at the head of a line is being    *)
(* run; nobody is run who was never there.                                 *)
(***************************************************************************)
EXTENDS Integers, Sequences, SequencesExt

CONSTANTS
    Triggers,       \* the calls that may join a line
    Lines,          \* the lines: one per action of an extension
    MaxQueue        \* how many may wait behind the head of a line

VARIABLES
    line,           \* who is in each line
    served          \* whose task has been run to its end

Init ==
    /\ line = [l \in Lines |-> <<>>]
    /\ served = {}

Join(l, t) ==
    /\ Len(line[l]) <= MaxQueue
    /\ \A other \in Lines : ~Contains(line[other], t)
    /\ t \notin served
    /\ line' = [line EXCEPT ![l] = Append(@, t)]
    /\ UNCHANGED served

HeadEnds(l) ==
    /\ line[l] # <<>>
    /\ served' = served \cup {Head(line[l])}
    /\ line' = [line EXCEPT ![l] = Tail(@)]

\* One who waits gives up.
Leave(l, i) ==
    /\ i \in 2..Len(line[l])
    /\ line' = [line EXCEPT ![l] = RemoveAt(@, i)]
    /\ UNCHANGED served

\* The extension is removed: all who wait are sent away, the head is not disturbed.
Dismiss(l) ==
    /\ line[l] # <<>>
    /\ line' = [line EXCEPT ![l] = <<Head(@)>>]
    /\ UNCHANGED served

Next ==
    \E l \in Lines :
        \/ \E t \in Triggers : Join(l, t)
        \/ HeadEnds(l)
        \/ \E i \in 1..MaxQueue + 1 : Leave(l, i)
        \/ Dismiss(l)

Spec == Init /\ [][Next]_<<line, served>>
=============================================================================
