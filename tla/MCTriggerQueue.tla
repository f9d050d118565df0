--------------------------- MODULE MCTriggerQueue ----------------------------
(* Small instance of TriggerQueue: ring and pipe reach their limits. *)
EXTENDS TriggerQueue
==============================================================================
