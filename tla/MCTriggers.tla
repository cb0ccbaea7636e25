------------------------------ MODULE MCTriggers ------------------------------
(***************************************************************************)
(* Triggers with extensions that are not there, are not enabled, or are    *)
(* for both kinds of phases. Keys, slots, services, dispatches and runs    *)
(* are told apart by nothing but their names; those of different parts     *)
(* never meet, and share their names to keep the permutations few.         *)
(***************************************************************************)
EXTENDS Triggers, TLC

On(status, events) == [status |-> status, on |-> events]

MCKinds ==
    {On("absent", {}), On("disabled", {"supd"}), On("enabled", {"supd", "service"})}

Symmetry == Permutations(Keys) \cup Permutations(Slots)

ASSUME SharedNames == Services \cup Dispatches \cup RunIds \subseteq Keys
=============================================================================
