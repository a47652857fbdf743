------------------------------- MODULE MCRelayer -------------------------------
(* Every sender can have a nonce of its own, also those that send again     *)
(* after a fault or a repair: the bound stops nobody.                       *)
EXTENDS Relayer, FiniteSets

ASSUME MCAssumption ==
    MaxNonce >= Cardinality(Votes) + Cardinality(Elections) + MaxFaults + MaxRepairs
===============================================================================
