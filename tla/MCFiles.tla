-------------------------------- MODULE MCFiles --------------------------------
(***************************************************************************)
(* Files where requests, files and the contents of directories are told    *)
(* apart by nothing but their names; texts are, by what validation says.   *)
(***************************************************************************)
EXTENDS Files, TLC

Symmetry == Permutations(Importers) \cup Permutations(Contents) \cup Permutations(Paths)
=============================================================================
