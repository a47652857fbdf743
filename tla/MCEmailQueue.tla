---------------------------- MODULE MCEmailQueue ----------------------------
(* Constants for the model checking of EmailQueue.                         *)
EXTENDS EmailQueue

CONSTANTS w1, w2, notice, reset, again, invitation

\* Two requests to reset one user's password, and an invitation.
MCLineOf == [m \in Links |-> IF m \in {reset, again} THEN "reset" ELSE "invitation"]

\* What the queue is written to survive: everything but a worker that outlives
\* its claim.
MCSurvivable == FaultKind \ {"slow"}

\* Either two messages of one line are sent while few things fail, or one while
\* more of them do.
CONSTANT MaxFaultsOfTwo

VARIABLE two

MCInit == Init /\ two \in BOOLEAN
MCNext == /\ Next /\ two' = two
          /\ IF two THEN faults' <= MaxFaultsOfTwo ELSE email'[again].status = "none"
MCSpec == MCInit /\ [][MCNext]_<<vars, two>> /\ Fairness
=============================================================================
