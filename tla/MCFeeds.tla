------------------------------- MODULE MCFeeds -------------------------------
(***************************************************************************)
(* Feeds with: two notifications and a failing transaction; two commands;  *)
(* a notification, a command and a restart.                                *)
(***************************************************************************)
EXTENDS Feeds

Some(n, r, f, s) == [notes |-> n, requests |-> r, fails |-> f, starts |-> s]

MCBounds == {Some(2, 0, 1, 1), Some(0, 2, 0, 1), Some(1, 1, 0, 2)}
=============================================================================
