------------------------------ MODULE BallotBox ------------------------------
(***************************************************************************)
(* What any ballot box of the platform promises, whatever keeps it: a      *)
(* nullifier casts at most one ballot, a ballot is never changed or taken  *)
(* out again, and nothing is cast once the box is sealed.                  *)
(*                                                                         *)
(* Three parts of the system implement it: the votes the contract keeps    *)
(* for each election (ElectionRegistryV2), those of the first contract     *)
(* (ElectionRegistryV1) and the votes the backend counts in its own        *)
(* database (VoteRecording, which also takes a ballot box for its          *)
(* contract).                                                              *)
(***************************************************************************)

CONSTANTS Nullifiers,   \* who may cast: one witness per voter and election
          Candidates,   \* what may be cast
          None          \* no ballot: not a candidate

VARIABLES cast,         \* the ballot of each nullifier, None while it has none
          sealed        \* no more ballots: the election halted or over

vars == <<cast, sealed>>

Init == /\ cast = [n \in Nullifiers |-> None]
        /\ sealed = FALSE

(* Cast puts the ballot c of nullifier n in the box.                       *)
Cast(n, c) == /\ ~sealed
              /\ cast[n] = None
              /\ cast' = [cast EXCEPT ![n] = c]
              /\ UNCHANGED sealed

(* Seal closes the box for good.                                           *)
Seal == /\ ~sealed
        /\ sealed' = TRUE
        /\ UNCHANGED cast

Next == \/ \E n \in Nullifiers, c \in Candidates : Cast(n, c)
        \/ Seal

Spec == Init /\ [][Next]_vars

=============================================================================
