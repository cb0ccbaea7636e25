------------------------------ MODULE MCReload ------------------------------
(* A service that is there from the start and an extension of its own. *)
EXTENDS Reload, TLC
CONSTANTS svc, own

MCParent == svc :> Top @@ own :> svc
MCStart == svc :> "v1"
=============================================================================
