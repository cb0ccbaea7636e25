------------------------- MODULE MCServiceLifecycle -------------------------
(***************************************************************************)
(* ServiceLifecycle with a few processes. They are interchangeable in the  *)
(* safety properties; the liveness run does without the symmetry.          *)
(***************************************************************************)
EXTENDS ServiceLifecycle, TLC

Symmetry == Permutations(Procs)
=============================================================================
