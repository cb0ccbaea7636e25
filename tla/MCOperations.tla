---------------------------- MODULE MCOperations ----------------------------
(***************************************************************************)
(* Three snapshots of the registry: an operation without responders; two   *)
(* global runs, so that the first may fail before the second, and one      *)
(* service with two runs; one global run and three services, so that with  *)
(* two slots a service has to wait.                                        *)
(***************************************************************************)
EXTENDS Operations

CONSTANTS r1, r2, r3, r4

MCPlans ==
    { [global |-> <<>>,       groups |-> <<>>],
      [global |-> <<r1, r2>>, groups |-> << <<r3, r4>> >>],
      [global |-> <<r1>>,     groups |-> << <<r2>>, <<r3>>, <<r4>> >>] }
=============================================================================
