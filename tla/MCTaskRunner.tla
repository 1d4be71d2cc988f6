--------------------------- MODULE MCTaskRunner ---------------------------
(* Instances of TaskRunner: their values are in the configurations.       *)
EXTENDS TaskRunner
===========================================================================
