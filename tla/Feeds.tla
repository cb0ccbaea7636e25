-------------------------------- MODULE Feeds --------------------------------
(***************************************************************************)
(* The two feeds clients follow by long polls. They have no state in       *)
(* common, so that what holds of one with the other at rest holds of both  *)
(* together; a behaviour is one of one feed.                               *)
(***************************************************************************)
EXTENDS EventRing, NotificationStore

VARIABLE feed       \* which of the two

vars == <<feed, eventVars, storeVars>>

TypeOK == feed \in {"events", "topics"} /\ EventTypeOK /\ StoreTypeOK

Init == feed \in {"events", "topics"} /\ EventInit /\ StoreInit

Next ==
    \/ feed = "events" /\ EventNext /\ UNCHANGED <<feed, storeVars>>
    \/ feed = "topics" /\ StoreNext /\ UNCHANGED <<feed, eventVars>>

Spec ==
    /\ Init /\ [][Next]_vars
    /\ WF_vars(feed = "topics" /\ WriterStep /\ UNCHANGED <<feed, eventVars>>)
    /\ WF_vars(feed = "topics" /\ ClientStep /\ UNCHANGED <<feed, eventVars>>)
=============================================================================
