------------------------- MODULE MCElectionRegistryV2 -------------------------
(* A small instance of the contract for TLC.                               *)
EXTENDS ElectionRegistryV2, TLC

Symmetry == Permutations(Accounts) \cup Permutations(Nullifiers)
=============================================================================
