--------------------------- MODULE NotificationStore ---------------------------
(***************************************************************************)
(* The notification centre: output readers hand notifications to the       *)
(* router (notification/router.go), which offers them to the bounded queue *)
(* of the store's writer (store/writer.go); requests and the retention are *)
(* submitted to the same queue and wait for their result; the writer runs  *)
(* one command after the other (store/commands.go, store/retention.go) and *)
(* wakes the client that waits for changes (api/notification_handler.go),  *)
(* which lists the topics again (web/src/hooks/useNotificationChanges.ts). *)
(* supd may stop or crash at any point and be started again.               *)
(***************************************************************************)
EXTENDS Naturals, FiniteSets, Sequences, SequencesExt

CONSTANTS
    QueueCap,       \* writerQueueCapacity
    TopicCap,       \* maxNotificationsPerTopic
    Bounds          \* bounds: how much of what a behaviour has

\* The notifications printed, the commands submitted, the transactions that fail and
\* the times supd is started.
ASSUME StoreAssumption ==
    /\ {QueueCap, TopicCap} \subseteq Nat \ {0}
    /\ Bounds \subseteq [notes: Nat, requests: Nat, fails: Nat, starts: Nat]

\* An operation's run prints to the topic of its execution, a service to its default
\* topic.
Producers == {"operation", "service"}
Requesters == {"user", "runner", "retention"}

VARIABLES
    topics,         \* notification_topic and notification: the rows of each topic
    queue,          \* writer.queue
    writing,        \* how far the writer is with the command it has taken
    life,           \* the store: up, closed set, done closed, or supd is not running
    seq,            \* Store.seq
    epoch,          \* Store.epoch
    reader,         \* the output reader of each producer, with its notification
    request,        \* the command each requester waits to have queued
    client,         \* the poll for changes of the web interface
    view,           \* the topics it shows
    left,           \* what is left of the bounds; notifications are numbered by it
    accepted,       \* history: the notifications for which TryEnqueue answered true
    executed        \* history: the notifications the writer has been at

rows      == <<topics, seq>>
work      == <<queue, writing>>
sides     == <<reader, request>>
browser   == <<client, view>>
noteHist  == <<accepted, executed>>
storeVars == <<rows, work, life, epoch, sides, browser, left, noteHist>>

Shown == {"open", "closed"}
NoCommand == [op |-> "none"]
Idle == [pc |-> "idle", note |-> 0, topic |-> 0]
Unstarted == [pc |-> "ask", epoch |-> 0, since |-> 0, heard |-> FALSE]

StoreTypeOK ==
    /\ \A t \in DOMAIN topics :
          /\ topics[t].source \in Producers
          /\ topics[t].status \in Shown \cup {"deleted", "purged"}
          /\ topics[t].read <= topics[t].last
          /\ Len(topics[t].rows) <= TopicCap
    /\ Len(queue) <= QueueCap
    /\ writing \in {"idle", "bump", "signal", "exited"}
    /\ life \in {"up", "closing", "stopping", "down"}
    /\ seq \in Nat /\ epoch \in Nat
    /\ \A p \in Producers : reader[p].pc \in {"idle", "enqueue", "recheck"}
    /\ DOMAIN request = Requesters
    /\ client.pc \in {"list", "ask", "subscribe", "check", "sleep", "answer"}
    /\ accepted \cup executed \subseteq Nat \ {0}

NewTopic(source) == [source |-> source, status |-> "open", last |-> 0, read |-> 0, rows |-> <<>>]

\* The execution's topic is there from its beginning; default topics come later.
StoreInit ==
    /\ topics = <<NewTopic("operation")>>
    /\ queue = <<>> /\ writing = "exited"
    /\ life = "down" /\ seq = 0 /\ epoch = 0
    /\ reader = [p \in Producers |-> Idle] /\ request = [x \in Requesters |-> NoCommand]
    /\ client = [Unstarted EXCEPT !.pc = "list"] /\ view = {}
    /\ left \in Bounds
    /\ accepted = {} /\ executed = {}

-----------------------------------------------------------------------------
(* The commands, as what they do to the topics. *)

\* appendInTx and pruneTopicNotifications.
AppendInTx(ts, t, n) ==
    LET all == Append(ts[t].rows, n)
    IN  [ts EXCEPT ![t].last = @ + 1,
                   ![t].rows = IF Len(all) > TopicCap THEN Tail(all) ELSE all]

\* ensureDefaultTopic: the one of the source that is not deleted, or a new one.
Default(ts, source) ==
    {t \in DOMAIN ts : ts[t].source = source /\ ts[t].status \in Shown}

\* What happens to every topic of a set.
Each(ts, set, what(_)) == [t \in DOMAIN ts |-> IF t \in set THEN what(ts[t]) ELSE ts[t]]

Alive(ts) == {t \in DOMAIN ts : ts[t].status \in Shown}
Deleted(topic) == [topic EXCEPT !.status = "deleted"]
ReadToLast(topic) == [topic EXCEPT !.read = topic.last]

\* Each command gives the topics it leaves and whether it succeeds: to append or to
\* read a topic that is deleted is an error, to delete one is not.
AppendNotification(ts, t, n) ==
    IF t \in Alive(ts) THEN <<AppendInTx(ts, t, n), TRUE>> ELSE <<ts, FALSE>>

AppendToDefaultTopic(ts, n) ==
    LET d == Default(ts, "service")
        all == IF d = {} THEN Append(ts, NewTopic("service")) ELSE ts
    IN  <<AppendInTx(all, IF d = {} THEN Len(all) ELSE CHOOSE t \in d : TRUE, n), TRUE>>

CloseTopic(ts, t) ==
    <<IF ts[t].status = "open" THEN [ts EXCEPT ![t].status = "closed"] ELSE ts, TRUE>>

MarkReadToLast(ts, t) ==
    IF t \in Alive(ts) THEN <<Each(ts, {t}, ReadToLast), TRUE>> ELSE <<ts, FALSE>>

MarkAllRead(ts) == <<Each(ts, Alive(ts), ReadToLast), TRUE>>
DeleteTopic(ts, t) == <<Each(ts, {t} \cap Alive(ts), Deleted), TRUE>>
DeleteAllTopics(ts) == <<Each(ts, Alive(ts), Deleted), TRUE>>

\* RunRetention: what has been closed or deleted long enough goes, with its rows.
RunRetention(ts, old) ==
    LET Purged(topic) == [topic EXCEPT !.status = "purged", !.rows = <<>>]
    IN  <<Each(ts, {t \in old : ts[t].status \in {"closed", "deleted"}}, Purged), TRUE>>

Run(cmd, ts) ==
    CASE cmd.op = "append"        -> AppendNotification(ts, cmd.topic, cmd.note)
      [] cmd.op = "appendDefault" -> AppendToDefaultTopic(ts, cmd.note)
      [] cmd.op = "close"         -> CloseTopic(ts, 1)
      [] cmd.op = "read"          -> MarkReadToLast(ts, cmd.topic)
      [] cmd.op = "readAll"       -> MarkAllRead(ts)
      [] cmd.op = "delete"        -> DeleteTopic(ts, cmd.topic)
      [] cmd.op = "deleteAll"     -> DeleteAllTopics(ts)
      [] cmd.op = "retain"        -> RunRetention(ts, cmd.old)

-----------------------------------------------------------------------------
(* Notifications. *)

\* A reader has parsed a notification. The router looks up the topic of the execution
\* and drops what comes after its end; a default topic is not looked up.
Route(p) ==
    /\ life # "down" /\ reader[p].pc = "idle" /\ left.notes > 0
    /\ left' = [left EXCEPT !.notes = @ - 1]
    /\ reader' = [reader EXCEPT ![p] =
                    IF p = "service" THEN [pc |-> "enqueue", note |-> left.notes, topic |-> 0]
                    ELSE IF topics[1].status = "open"
                    THEN [pc |-> "enqueue", note |-> left.notes, topic |-> 1]
                    ELSE Idle]
    /\ UNCHANGED <<rows, work, life, epoch, request, browser, noteHist>>

AppendCommand(r) ==
    IF r.topic = 0 THEN [op |-> "appendDefault", note |-> r.note]
    ELSE [op |-> "append", note |-> r.note, topic |-> r.topic]

\* tryEnqueue: a closed store or a full queue refuses.
EnqueueRefused(p) ==
    /\ reader[p].pc = "enqueue"
    /\ life # "up" \/ Len(queue) = QueueCap
    /\ reader' = [reader EXCEPT ![p] = Idle]
    /\ UNCHANGED <<rows, work, life, epoch, request, browser, left, noteHist>>

\* A send that has seen closed unset may come when it is set.
Enqueue(p) ==
    /\ reader[p].pc = "enqueue" /\ Len(queue) < QueueCap /\ life # "down"
    /\ queue' = Append(queue, AppendCommand(reader[p]))
    /\ reader' = [reader EXCEPT ![p].pc = "recheck"]
    /\ UNCHANGED <<rows, writing, life, epoch, request, browser, left, noteHist>>

\* A bug variant: the answer is true whatever has happened since.
EnqueueAnswersTrue(p) ==
    /\ reader[p].pc = "recheck"
    /\ reader' = [reader EXCEPT ![p] = Idle]
    /\ accepted' = accepted \cup {reader[p].note}
    /\ UNCHANGED <<rows, work, life, epoch, request, browser, left, executed>>

\* The answer is true if the store is still not closed.
EnqueueAnswers(p) ==
    /\ reader[p].pc = "recheck"
    /\ reader' = [reader EXCEPT ![p] = Idle]
    /\ accepted' = IF life = "up" THEN accepted \cup {reader[p].note} ELSE accepted
    /\ UNCHANGED <<rows, work, life, epoch, request, browser, left, executed>>

-----------------------------------------------------------------------------
(* Submitted commands. *)

\* What each requester submits. A user deletes a topic that GetTopic has found, or all
\* there are when the command is run; any may be old enough for the retention.
Commands(x) ==
    CASE x = "user" -> {[op |-> "read", topic |-> t] : t \in DOMAIN topics}
                       \cup {[op |-> "delete", topic |-> t] :
                                t \in {t \in DOMAIN topics : topics[t].status \in Shown}}
                       \cup {[op |-> "readAll"], [op |-> "deleteAll"]}
      [] x = "runner" -> {[op |-> "close"]}
      [] x = "retention" -> {[op |-> "retain", old |-> s] : s \in SUBSET (DOMAIN topics)}

\* submit sees that the store is not closed.
Submit(x) ==
    /\ life = "up" /\ request[x] = NoCommand /\ left.requests > 0
    /\ left' = [left EXCEPT !.requests = @ - 1]
    /\ \E cmd \in Commands(x) : request' = [request EXCEPT ![x] = cmd]
    /\ UNCHANGED <<rows, work, life, epoch, reader, browser, noteHist>>

\* It waits for room in the queue, as long as it takes. The caller may stop waiting for
\* the result, and is free when it does; the command stays queued.
SubmitEnqueues(x) ==
    /\ request[x] # NoCommand /\ Len(queue) < QueueCap /\ life # "down"
    /\ queue' = Append(queue, request[x])
    /\ request' = [request EXCEPT ![x] = NoCommand]
    /\ UNCHANGED <<rows, writing, life, epoch, reader, browser, left, noteHist>>

\* Its context ends before, or the store does.
SubmitGivesUp(x) ==
    /\ request[x] # NoCommand
    /\ request' = [request EXCEPT ![x] = NoCommand]
    /\ UNCHANGED <<rows, work, life, epoch, reader, browser, left, noteHist>>

-----------------------------------------------------------------------------
(* The writer. *)

\* execute: the transaction, which may fail. What the retention does is no change that
\* clients are told of.
Execute ==
    /\ life # "down" /\ writing = "idle" /\ queue # <<>>
    /\ queue' = Tail(queue)
    /\ LET cmd == Head(queue)
           result == Run(cmd, topics)
       IN  /\ \/ /\ topics' = result[1]
                 /\ writing' = IF result[2] /\ cmd.op # "retain" THEN "bump" ELSE "idle"
                 /\ UNCHANGED left
              \/ /\ left.fails > 0 /\ left' = [left EXCEPT !.fails = @ - 1]
                 /\ UNCHANGED <<topics, writing>>
           /\ executed' = IF "note" \in DOMAIN cmd THEN executed \cup {cmd.note} ELSE executed
    /\ UNCHANGED <<seq, life, epoch, sides, browser, accepted>>

Bump ==
    /\ writing = "bump"
    /\ seq' = seq + 1 /\ writing' = "signal"
    /\ UNCHANGED <<topics, queue, life, epoch, sides, browser, left, noteHist>>

\* signalChange: whoever has taken the channel hears it.
SignalChange ==
    /\ writing = "signal"
    /\ writing' = "idle" /\ client' = [client EXCEPT !.heard = TRUE]
    /\ UNCHANGED <<rows, queue, life, epoch, sides, view, left, noteHist>>

\* With done closed the writer ends when the queue is empty.
WriterExits ==
    /\ life = "stopping" /\ writing = "idle" /\ queue = <<>>
    /\ writing' = "exited"
    /\ UNCHANGED <<rows, queue, life, epoch, sides, browser, left, noteHist>>

-----------------------------------------------------------------------------
(* The store opens and closes. *)

Open ==
    /\ life = "down" /\ left.starts > 0
    /\ left' = [left EXCEPT !.starts = @ - 1]
    /\ life' = "up" /\ epoch' = epoch + 1 /\ seq' = 0 /\ writing' = "idle"
    /\ UNCHANGED <<topics, queue, sides, browser, noteHist>>

\* Close sets closed, and then closes done.
CloseBegins ==
    /\ life = "up" /\ life' = "closing"
    /\ UNCHANGED <<rows, work, epoch, sides, browser, left, noteHist>>

CloseStops ==
    /\ life = "closing" /\ life' = "stopping"
    /\ UNCHANGED <<rows, work, epoch, sides, browser, left, noteHist>>

\* supd is gone, with the writer through or not: Close has a deadline, and supd may
\* crash; nobody is told any more what is not carried out. Polls break off and the
\* browser asks again.
Down ==
    /\ life # "down" /\ life' = "down"
    /\ queue' = <<>> /\ writing' = "exited"
    /\ reader' = [p \in Producers |-> Idle]
    /\ request' = [x \in Requesters |-> NoCommand]
    /\ client' = [client EXCEPT !.pc = IF @ = "list" THEN @ ELSE "ask"]
    /\ accepted' = IF writing = "exited" THEN accepted ELSE accepted \cap executed
    /\ UNCHANGED <<rows, epoch, view, left, executed>>

-----------------------------------------------------------------------------
(* The browser. *)

\* ListTopics: the topics that are not deleted.
Listing == {[id |-> t, status |-> topics[t].status, last |-> topics[t].last,
             read |-> topics[t].read] : t \in {t \in DOMAIN topics : topics[t].status \in Shown}}

Goto(pc) == client' = [client EXCEPT !.pc = pc]

ClientLists ==
    /\ life # "down" /\ client.pc = "list"
    /\ view' = Listing /\ Goto("ask")
    /\ UNCHANGED <<rows, work, life, epoch, sides, left, noteHist>>

\* handleChanges: another epoch or something newer is answered at once.
ClientAsks ==
    /\ life # "down" /\ client.pc = "ask"
    /\ Goto(IF (client.epoch # 0 /\ client.epoch # epoch) \/ client.since < seq THEN "answer"
            ELSE "subscribe")
    /\ UNCHANGED <<rows, work, life, epoch, sides, view, left, noteHist>>

\* WaitForGlobalChange takes the channel, then looks at seq once more.
ClientSubscribes ==
    /\ client.pc = "subscribe"
    /\ client' = [client EXCEPT !.pc = "check", !.heard = FALSE]
    /\ UNCHANGED <<rows, work, life, epoch, sides, view, left, noteHist>>

\* A bug variant: the wait does not look at seq again.
ClientChecksNothing ==
    /\ client.pc = "check"
    /\ Goto("sleep")
    /\ UNCHANGED <<rows, work, life, epoch, sides, view, left, noteHist>>

ClientChecks ==
    /\ client.pc = "check"
    /\ Goto(IF seq > client.since THEN "answer" ELSE "sleep")
    /\ UNCHANGED <<rows, work, life, epoch, sides, view, left, noteHist>>

ClientWakes ==
    /\ client.pc = "sleep" /\ client.heard
    /\ Goto("subscribe")
    /\ UNCHANGED <<rows, work, life, epoch, sides, view, left, noteHist>>

ClientTimesOut ==
    /\ client.pc \in {"subscribe", "check", "sleep"}
    /\ Goto("answer")
    /\ UNCHANGED <<rows, work, life, epoch, sides, view, left, noteHist>>

\* The answer has seq as it is now. The browser lists the topics again if it is told to
\* reload or seq is greater than its own.
ClientAnswered ==
    /\ client.pc = "answer"
    /\ client' = [client EXCEPT
                    !.pc = IF (client.epoch # 0 /\ client.epoch # epoch) \/ seq > client.since
                           THEN "list" ELSE "ask",
                    !.epoch = epoch, !.since = seq]
    /\ UNCHANGED <<rows, work, life, epoch, sides, view, left, noteHist>>

-----------------------------------------------------------------------------
WriterStep == Execute \/ Bump \/ SignalChange \/ WriterExits

ClientStep ==
    \/ ClientLists \/ ClientAsks \/ ClientSubscribes \/ ClientChecks \/ ClientWakes
    \/ ClientAnswered

StoreNext ==
    \/ \E p \in Producers : Route(p) \/ EnqueueRefused(p) \/ Enqueue(p) \/ EnqueueAnswers(p)
    \/ \E x \in Requesters : Submit(x) \/ SubmitEnqueues(x) \/ SubmitGivesUp(x)
    \/ WriterStep \/ ClientStep \/ ClientTimesOut
    \/ Open \/ CloseBegins \/ CloseStops \/ Down

-----------------------------------------------------------------------------
\* writer.tryEnqueue and writer.close: every notification the router was told is
\* accepted has been carried out when the writer has ended within its deadline.
AcceptedIsCarriedOut == writing = "exited" => accepted \subseteq executed

\* handleChanges, WaitForGlobalChange and the epoch: when nothing happens any more, a
\* window that stays open shows every topic there is as it is, across restarts of supd
\* and without a poll that times out. (It may still show one the retention removed; and
\* a window whose very first poll a restart has broken off is not told of the restart.)
CatchesUp ==
    \/ <>[](life = "up" => Listing \subseteq view)
    \/ [](client.epoch # 1) /\ <>(epoch > 1)
=============================================================================
