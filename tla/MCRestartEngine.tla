--------------------------- MODULE MCRestartEngine ---------------------------
(***************************************************************************)
(* RestartEngine with four configurations: every policy, no limit and a    *)
(* limit of two, a cap that is met at the third wait and one that is met   *)
(* at the first, a reset and none.                                         *)
(***************************************************************************)
EXTENDS RestartEngine

MCConfigs ==
    {[policy |-> "always", backoff |-> 1, maxBackoff |-> 3, multiplier |-> 2,
      maxRetries |-> 0, resetAfter |-> 3],
     [policy |-> "always", backoff |-> 1, maxBackoff |-> 1, multiplier |-> 2,
      maxRetries |-> 2, resetAfter |-> 2],
     [policy |-> "on-failure", backoff |-> 2, maxBackoff |-> 5, multiplier |-> 2,
      maxRetries |-> 3, resetAfter |-> 0],
     [policy |-> "never", backoff |-> 1, maxBackoff |-> 3, multiplier |-> 2,
      maxRetries |-> 1, resetAfter |-> 3]}
=============================================================================
