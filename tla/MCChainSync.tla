----------------------------- MODULE MCChainSync -----------------------------
(* Constants for the model checking of ChainSync: the faults that the      *)
(* design says it survives.                                                *)
EXTENDS ChainSync

MCSurvivable == {"rpc", "lostAnswer", "drop", "unmined", "db", "crash", "revert"}
=============================================================================
