--------------------------- MODULE MCVoteRecording ---------------------------
(* Constants for the model checking of VoteRecording.                      *)
EXTENDS VoteRecording

CONSTANTS r1, r2, r3, d1, d2, v1, v2, A, B

(* The requests of v1 disagree, and so do those of the demonstration       *)
(* account v2.                                                             *)
MCVoterOf  == [r \in Requests |-> IF r \in {r1, r2, r3} THEN v1 ELSE v2]
MCChoiceOf == [r \in Requests |-> IF r \in {r2, d2} THEN B ELSE A]

=============================================================================
