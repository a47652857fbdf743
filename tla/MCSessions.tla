----------------------------- MODULE MCSessions -----------------------------
(* Constants for the model checking of Sessions: which request is which is *)
(* all the same.                                                           *)
EXTENDS Sessions, TLC

CONSTANTS u1, u2, r1, r2, r3, r4, old, new

Symmetry == Permutations(Requests)

=============================================================================
