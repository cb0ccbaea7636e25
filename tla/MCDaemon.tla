------------------------------- MODULE MCDaemon -------------------------------
(***************************************************************************)
(* Daemon with three services. The configurations: a chain with a          *)
(* readiness check in its middle; a cycle with a service behind it that is *)
(* itself to be started; two cycles with a service in common; a service    *)
(* that waits for one that does not exist yet and one that does.           *)
(***************************************************************************)
EXTENDS Daemon, TLC

CONSTANTS a, b, c

Conf(deps, auto, readiness, late, r, n) ==
    [deps |-> deps, auto |-> auto, readiness |-> readiness, late |-> late,
     requests |-> r, boots |-> n]

Chain == Conf(a :> {} @@ b :> {a} @@ c :> {b}, {a, b, c}, {b}, {}, 0, 2)
Cycle == Conf(a :> {b} @@ b :> {a} @@ c :> {a}, {a, b, c}, {}, {}, 0, 1)
Cycles == Conf(a :> {b, c} @@ b :> {a} @@ c :> {a}, {a, b, c}, {}, {}, 0, 1)
Waits == Conf(a :> {} @@ b :> {} @@ c :> {a, b}, {a, c}, {a}, {b}, 1, 1)

MCConfs == {Chain, Cycle, Cycles, Waits}
=============================================================================
