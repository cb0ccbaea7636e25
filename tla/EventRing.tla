------------------------------- MODULE EventRing -------------------------------
(***************************************************************************)
(* The events of supd (api/longpoll.go): goroutines add events to a ring,  *)
(* clients follow it by long polls, each asking for what is newer than the *)
(* next_since of the answer before. An event is known by its time stamp,   *)
(* which Add takes before it has the lock.                                 *)
(***************************************************************************)
EXTENDS Naturals, FiniteSets, Sequences, SequencesExt

CONSTANTS
    Adders,         \* goroutines that publish events
    Readers,        \* clients that follow them, all from one address
    RingCap,        \* EventRingBuffer.cap
    PageLimit,      \* the limit of a request
    PollLimit,      \* PerClientLongPollLimit
    MaxClock        \* bound: readings of the clock

ASSUME RingAssumption ==
    {RingCap, PageLimit, PollLimit} \subseteq Nat \ {0} /\ MaxClock \in Nat

VARIABLES
    clock,          \* the last reading of the clock
    adding,         \* where each Add is: its stamp, and whether it is in the ring
    ring,           \* the stamps in the ring, oldest first
    poll,           \* where the poll of each reader is
    page,           \* what the poll has fetched
    since,          \* the since of the reader's polls
    heard,          \* whether the signal channel the poll holds has been closed
    got,            \* history: what each reader has been sent
    newest,         \* history: the newest event that has ever been in the ring
    overtaken,      \* history: the events that came when a newer one had been in
    raced           \* history: the events that came while an empty answer was under way

ringVars   == <<clock, adding, ring>>
pollVars   == <<poll, page, since, heard>>
eventHist  == <<got, newest, overtaken, raced>>
eventVars  == <<ringVars, pollVars, eventHist>>

NotAdding == [stamp |-> 0, in |-> FALSE]

EventTypeOK ==
    /\ clock \in 0..MaxClock
    /\ adding \in [Adders -> [stamp: 0..MaxClock, in: BOOLEAN]]
    /\ ring \in Seq(1..MaxClock) /\ Len(ring) <= RingCap
    /\ poll \in [Readers -> {"idle", "fetch", "subscribe", "check", "sleep", "refetch", "answer"}]
    /\ page \in [Readers -> Seq(1..MaxClock)] /\ \A r \in Readers : Len(page[r]) <= PageLimit
    /\ since \in [Readers -> 0..MaxClock]
    /\ heard \in [Readers -> BOOLEAN]
    /\ {got, raced} \subseteq [Readers -> SUBSET Nat]

EventInit ==
    /\ clock = 0 /\ adding = [a \in Adders |-> NotAdding] /\ ring = <<>>
    /\ poll = [r \in Readers |-> "idle"] /\ page = [r \in Readers |-> <<>>]
    /\ since = [r \in Readers |-> 0] /\ heard = [r \in Readers |-> FALSE]
    /\ got = [r \in Readers |-> {}] /\ newest = 0 /\ overtaken = {}
    /\ raced = [r \in Readers |-> {}]

-----------------------------------------------------------------------------
\* Add reads the clock.
AddStamps(a) ==
    /\ adding[a] = NotAdding /\ clock < MaxClock
    /\ clock' = clock + 1
    /\ adding' = [adding EXCEPT ![a] = [stamp |-> clock + 1, in |-> FALSE]]
    /\ UNCHANGED <<ring, pollVars, eventHist>>

\* What the history keeps of an event that is put into the ring.
Arrives(e) ==
    /\ newest' = IF e > newest THEN e ELSE newest
    /\ overtaken' = IF e < newest THEN overtaken \cup {e} ELSE overtaken

\* A bug variant: the ring grows by one more.
AddInsertsOneMore(a) ==
    LET e == adding[a].stamp
    IN  /\ e > 0 /\ ~adding[a].in
        /\ ring' = Append(IF Len(ring) > RingCap THEN Tail(ring) ELSE ring, e)
        /\ adding' = [adding EXCEPT ![a].in = TRUE]
        /\ Arrives(e)
        /\ UNCHANGED <<clock, pollVars, got, raced>>

\* It has the lock: the event goes behind the others, the oldest of a full ring goes.
AddInserts(a) ==
    LET e == adding[a].stamp
    IN  /\ e > 0 /\ ~adding[a].in
        /\ ring' = Append(IF Len(ring) = RingCap THEN Tail(ring) ELSE ring, e)
        /\ adding' = [adding EXCEPT ![a].in = TRUE]
        /\ Arrives(e)
        /\ UNCHANGED <<clock, pollVars, got, raced>>

\* The signal channel is closed and replaced.
AddSignals(a) ==
    /\ adding[a].in
    /\ adding' = [adding EXCEPT ![a] = NotAdding]
    /\ heard' = [r \in Readers |-> TRUE]
    /\ UNCHANGED <<clock, ring, poll, page, since, eventHist>>

\* The loop of EventRingBuffer.Since: after k events of s, those newer than n.
Newer(s, n) ==
    LET all[k \in 0..Len(s)] ==
            IF k = 0 THEN <<>>
            ELSE IF s[k] > n THEN Append(all[k - 1], s[k]) ELSE all[k - 1]
    IN  all

\* The oldest of what is newer, in the order of the ring.
Since(n) ==
    LET newer == Newer(ring, n)[Len(ring)]
    IN  SubSeq(newer, 1, IF Len(newer) < PageLimit THEN Len(newer) ELSE PageLimit)

Polling == {r \in Readers : poll[r] # "idle"}

\* A request, if LongPollLimiter has a slot left for the client.
PollBegins(r) ==
    /\ poll[r] = "idle" /\ Cardinality(Polling) < PollLimit
    /\ poll' = [poll EXCEPT ![r] = "fetch"]
    /\ UNCHANGED <<ringVars, page, since, heard, eventHist>>

\* The fetcher is called, before the wait and after it.
PollFetches(r) ==
    /\ poll[r] \in {"fetch", "refetch"}
    /\ page' = [page EXCEPT ![r] = Since(since[r])]
    /\ poll' = [poll EXCEPT ![r] = IF page'[r] # <<>> \/ poll[r] = "refetch" THEN "answer"
                                   ELSE "subscribe"]
    /\ UNCHANGED <<ringVars, since, heard, eventHist>>

\* WaitForEvent takes the signal channel first, then looks at the newest event.
PollSubscribes(r) ==
    /\ poll[r] = "subscribe"
    /\ poll' = [poll EXCEPT ![r] = "check"] /\ heard' = [heard EXCEPT ![r] = FALSE]
    /\ UNCHANGED <<ringVars, page, since, eventHist>>

PollChecks(r) ==
    /\ poll[r] = "check"
    /\ poll' = [poll EXCEPT ![r] = IF ring # <<>> /\ Last(ring) > since[r] THEN "refetch"
                                   ELSE "sleep"]
    /\ UNCHANGED <<ringVars, page, since, heard, eventHist>>

PollWakes(r) ==
    /\ poll[r] = "sleep" /\ heard[r]
    /\ poll' = [poll EXCEPT ![r] = "subscribe"]
    /\ UNCHANGED <<ringVars, page, since, heard, eventHist>>

PollTimesOut(r) ==
    /\ poll[r] \in {"subscribe", "check", "sleep"}
    /\ poll' = [poll EXCEPT ![r] = "refetch"]
    /\ UNCHANGED <<ringVars, page, since, heard, eventHist>>

Answered(r, next) ==
    /\ poll' = [poll EXCEPT ![r] = "idle"] /\ page' = [page EXCEPT ![r] = <<>>]
    /\ since' = [since EXCEPT ![r] = next]
    /\ got' = [got EXCEPT ![r] = @ \cup ToSet(page[r])]
    /\ UNCHANGED <<adding, ring, heard, newest, overtaken>>

\* A bug variant: next_since is the stamp of the newest event there is.
PollAnswersWithNewest(r) ==
    /\ poll[r] = "answer" /\ page[r] # <<>>
    /\ Answered(r, Last(ring))
    /\ UNCHANGED <<clock, raced>>

\* next_since is the stamp of the last event of the page.
PollAnswers(r) ==
    /\ poll[r] = "answer" /\ page[r] # <<>>
    /\ Answered(r, Last(page[r]))
    /\ UNCHANGED <<clock, raced>>

\* With an empty page it is the time of the answer.
PollAnswersEmpty(r) ==
    /\ poll[r] = "answer" /\ page[r] = <<>> /\ clock < MaxClock
    /\ clock' = clock + 1
    /\ Answered(r, clock + 1)
    /\ raced' = [raced EXCEPT ![r] = @ \cup {n \in ToSet(ring) : n > since[r]}
                                      \cup {adding[a].stamp : a \in Adders}]

EventNext ==
    \/ \E a \in Adders : AddStamps(a) \/ AddInserts(a) \/ AddSignals(a)
    \/ \E r \in Readers :
          \/ PollBegins(r) \/ PollFetches(r) \/ PollSubscribes(r) \/ PollChecks(r)
          \/ PollWakes(r) \/ PollTimesOut(r) \/ PollAnswers(r) \/ PollAnswersEmpty(r)

-----------------------------------------------------------------------------
\* HandleLongPoll, Since and Add: a client that follows next_since is sent every event
\* that is still in the ring when it asks for newer ones. There are two exceptions: an
\* event that Add stamped before another one and put in after it, and one that came
\* between the last look at the ring and an empty answer.
NothingIsSkipped ==
    \A r \in Readers : \A n \in ToSet(ring) :
        n <= since[r] => n \in got[r] \cup overtaken \cup raced[r]
=============================================================================
