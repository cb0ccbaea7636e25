---------------------------- MODULE ServiceStates ----------------------------
(***************************************************************************)
(* The state machine of one supervised service, core/state_machine.go.     *)
(* Every accepted event of the table validTransitions leads to one state,  *)
(* whatever state it is accepted in, so the table is given as the states   *)
(* that accept an event and the state the event leads to.                  *)
(***************************************************************************)

ServiceState == {"pending", "starting", "up", "ready", "stopping", "down", "failed"}

\* The states in which StartService refuses, StopService has work to do and a
\* supervisor acts on a death.
Running == {"starting", "up", "ready"}

\* The states that accept event e.
TableSources(e) ==
    CASE e = "depends_ready"    -> {"pending"}
      [] e = "process_started"  -> {"starting"}
      [] e = "readiness_passed" -> {"up"}
      [] e \in {"process_exited", "backoff_abort"} -> {"stopping"}
      [] e = "manual_start"     -> {"down", "failed"}
      [] OTHER                  -> Running

(* Bug variants of Sources, for mutation. *)

\* A restart decided earlier is accepted after the service has failed or is down.
SourcesLateRestart(e) ==
    IF e = "restart_allowed" THEN Running \cup {"failed", "down"} ELSE TableSources(e)

Sources(e) == TableSources(e)

\* The state an accepted event e leads to.
Target(e) ==
    CASE e \in {"depends_ready", "restart_allowed", "manual_start"} -> "starting"
      [] e = "process_started"  -> "up"
      [] e = "readiness_passed" -> "ready"
      [] e = "stop_requested"   -> "stopping"
      [] e \in {"max_retries", "readiness_timeout"} -> "failed"
      [] OTHER                  -> "down"

\* A bug variant of Fire: the table's ok is not looked at and the zero value of a
\* missing entry is stored.
FireUnchecked(s, e) == IF s \in Sources(e) THEN Target(e) ELSE ""

\* StateMachine.Transition, one turn of the goroutine that serves the requests:
\* an event the table does not accept leaves the state as it is. All
\* callers but DecideRestart and the readiness checks ignore its Boolean result.
Fire(s, e) == IF s \in Sources(e) THEN Target(e) ELSE s
=============================================================================
