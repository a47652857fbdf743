----------------------------- MODULE Registration -----------------------------
(***************************************************************************)
(* What registering an election in the contract promises, whatever does it *)
(* and however often it has to try: the contract takes the election once,  *)
(* the database publishes exactly what the contract took, only after it    *)
(* took it, and neither changes any more.                                  *)
(*                                                                         *)
(* ChainSync implements it.                                                *)
(***************************************************************************)

VARIABLES registered,   \* what the contract holds of the election: nothing or one
          published     \* what the database says it holds: nothing or one

vars == <<registered, published>>

Init == registered = {} /\ published = {}

Register(e) == /\ registered = {}
               /\ registered' = {e}
               /\ UNCHANGED published

Publish == /\ published = {} /\ registered # {}
           /\ published' = registered
           /\ UNCHANGED registered

Next == (\E e \in registered' : Register(e)) \/ Publish

Spec == Init /\ [][Next]_vars

===============================================================================
