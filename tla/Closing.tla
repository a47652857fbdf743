-------------------------------- MODULE Closing --------------------------------
(* When the salt of the nullifiers of one election is destroyed, beside the *)
(* voters who vote until the last second, the administrators who edit the   *)
(* election and the restarts.  A handler and the job go statement by        *)
(* statement.  What becomes of a vote between its lock and its record is in *)
(* VoteRecording, and whom the timers tell that it closes in Announcements. *)
EXTENDS Naturals

CONSTANTS
    Voters,        \* accounts that are or may come to be in the census
    MaxFailures,   \* bound: restarts
    MaxEdits       \* bound: what administrators do

ASSUME ClosingAssumption == MaxFailures \in Nat /\ MaxEdits \in Nat

VARIABLES
    time,        \* before start_time, open, or past end_time
    row,         \* the row of elections
    electorate,  \* the accounts in the census that are not removed
    attempts,    \* vote_attempts: none, failed, or pending, by its nullifier
    votes,       \* the votes recorded, by whether their nullifier is salted
    hand,        \* the handler of each voter
    salter,      \* the pass of destroyExpiredElectionSalts
    reopened,    \* end_time was moved after it had passed
    failures, edits

voting == <<attempts, votes, hand>>
bounds == <<failures, edits>>
vars   == <<time, row, electorate, voting, salter, reopened, bounds>>

Row  == [active : BOOLEAN, salt : BOOLEAN, chain : {"pending", "sent", "synced"}]
Hand == [at : {"idle", "read", "lock", "cast"}, salted : BOOLEAN, synced : BOOLEAN]

Away == [at |-> "idle", salted |-> FALSE, synced |-> FALSE]

Init ==
    /\ time = "before"
    /\ row = [active |-> TRUE, salt |-> TRUE, chain |-> "pending"]
    /\ electorate \in SUBSET Voters
    /\ attempts = [v \in Voters |-> "none"]
    /\ votes = [v \in Voters |-> "none"]
    /\ hand = [v \in Voters |-> Away]
    /\ salter = "idle"
    /\ reopened = FALSE
    /\ failures = 0 /\ edits = 0

-------------------------------------------------------------------------------
(* A vote: POST /register-vote.                                             *)

Goes(v, where) == hand' = [hand EXCEPT ![v].at = where]
Leaves(v)      == hand' = [hand EXCEPT ![v] = Away]

ReadElection(v) ==
    /\ hand[v].at = "idle" /\ row.active /\ votes[v] = "none"
    /\ hand' = [hand EXCEPT ![v] = [at |-> "read", salted |-> row.salt,
                                    synced |-> row.chain = "synced"]]
    /\ UNCHANGED <<time, row, electorate, attempts, votes, salter, reopened, bounds>>

(* The clock, the account, the participation, and the status of the chain   *)
(* as it was read with the salt.                                            *)
CheckVoter(v) ==
    /\ hand[v].at = "read"
    /\ IF time = "open" /\ v \in electorate /\ votes[v] = "none" /\ hand[v].synced
       THEN Goes(v, "lock") ELSE Leaves(v)
    /\ UNCHANGED <<time, row, electorate, attempts, votes, salter, reopened, bounds>>

Nullifier(v) == IF hand[v].salted THEN "salted" ELSE "plain"
Pending(v)   == attempts[v] \in {"salted", "plain"}

TakeLock(v) ==
    /\ hand[v].at = "lock"
    /\ IF votes[v] = "none" /\ ~Pending(v)
       THEN /\ attempts' = [attempts EXCEPT ![v] = Nullifier(v)]
            /\ Goes(v, "cast")
       ELSE Leaves(v) /\ UNCHANGED attempts
    /\ UNCHANGED <<time, row, electorate, votes, salter, reopened, bounds>>

(* The vote is counted and recorded, fails, or is left to the job.          *)
Cast(v) ==
    /\ hand[v].at = "cast"
    /\ \/ /\ votes' = [votes EXCEPT ![v] = Nullifier(v)]
          /\ attempts' = [attempts EXCEPT ![v] = "none"]
       \/ attempts' = [attempts EXCEPT ![v] = "failed"] /\ UNCHANGED votes
       \/ UNCHANGED <<attempts, votes>>
    /\ Leaves(v)
    /\ UNCHANGED <<time, row, electorate, salter, reopened, bounds>>

(* cleanupStaleVoteAttempts, half an hour after the lock was taken.         *)
Reconcile(v) ==
    /\ Pending(v) /\ hand[v].at # "cast"
    /\ \/ attempts' = [attempts EXCEPT ![v] = "failed"] /\ UNCHANGED votes
       \/ /\ votes' = [votes EXCEPT ![v] = attempts[v]]
          /\ attempts' = [attempts EXCEPT ![v] = "none"]
       \/ attempts' = [attempts EXCEPT ![v] = "none"] /\ UNCHANGED votes
    /\ UNCHANGED <<time, row, electorate, hand, salter, reopened, bounds>>

-------------------------------------------------------------------------------
(* destroyExpiredElectionSalts: the election, the count, the UPDATE.        *)

\* Mutant: only the salts of elections that are still active.
SaltMayGo_Active == time = "over" /\ row.active
SaltMayGo == time = "over"

ReadSalt ==
    /\ salter = "idle" /\ row.salt /\ SaltMayGo
    /\ salter' = "count"
    /\ UNCHANGED <<time, row, electorate, voting, reopened, bounds>>

NonePending == \A v \in Voters : ~Pending(v)

CountPending ==
    /\ salter = "count"
    /\ salter' = IF NonePending THEN "destroy" ELSE "idle"
    /\ UNCHANGED <<time, row, electorate, voting, reopened, bounds>>

DestroySalt ==
    /\ salter = "destroy"
    /\ row' = [row EXCEPT !.salt = FALSE]
    /\ salter' = "idle"
    /\ UNCHANGED <<time, electorate, voting, reopened, bounds>>

-------------------------------------------------------------------------------
(* Administrators, voters who come and go, the clock and the chain.         *)

Edits == edits < MaxEdits /\ edits' = edits + 1

(* PUT /admin/elections/:id                                                 *)
ToggleActive ==
    /\ Edits
    /\ row' = [row EXCEPT !.active = ~@]
    /\ UNCHANGED <<time, electorate, voting, salter, reopened, failures>>

(* PATCH /admin/elections/:id with a later end_time.                        *)
\* Mutant: also when the contract has the election.
MoveEnd_Frozen ==
    /\ Edits /\ time = "over"
    /\ time' = "open" /\ reopened' = (reopened \/ row.chain = "pending")
    /\ UNCHANGED <<row, electorate, voting, salter, failures>>

MoveEnd ==
    /\ Edits /\ row.chain = "pending" /\ time = "over"
    /\ time' = "open" /\ reopened' = TRUE
    /\ UNCHANGED <<row, electorate, voting, salter, failures>>

EnterCensus(v) ==
    /\ v \notin electorate /\ time # "over" /\ Edits
    /\ electorate' = electorate \cup {v}
    /\ UNCHANGED <<time, row, voting, salter, reopened, failures>>

RemoveAccount(v) ==
    /\ v \in electorate /\ Edits
    /\ electorate' = electorate \ {v}
    /\ UNCHANGED <<time, row, voting, salter, reopened, failures>>

StartTime ==
    /\ time = "before"
    /\ time' = "open"
    /\ UNCHANGED <<row, electorate, voting, salter, reopened, bounds>>

EndTime ==
    /\ time = "open"
    /\ time' = "over"
    /\ UNCHANGED <<row, electorate, voting, salter, reopened, bounds>>

(* The registration of the election, which the contract refuses once its    *)
(* end is past, may fail and be tried again.                                *)
Register ==
    /\ \/ /\ row.chain = "pending" /\ time # "over"
          /\ row' = [row EXCEPT !.chain = "sent"]
       \/ /\ row.chain = "sent"
          /\ \E s \in {"pending", "synced"} : row' = [row EXCEPT !.chain = s]
    /\ UNCHANGED <<time, electorate, voting, salter, reopened, bounds>>

Crash ==
    /\ failures < MaxFailures /\ failures' = failures + 1
    /\ hand' = [v \in Voters |-> Away]
    /\ salter' = "idle"
    /\ UNCHANGED <<time, row, electorate, attempts, votes, reopened, edits>>

-------------------------------------------------------------------------------

Handler(v) == CheckVoter(v) \/ TakeLock(v) \/ Cast(v)
SaltJob    == ReadSalt \/ CountPending \/ DestroySalt

Next ==
    \/ \E v \in Voters : ReadElection(v) \/ Handler(v) \/ Reconcile(v)
    \/ \E v \in Voters : EnterCensus(v) \/ RemoveAccount(v)
    \/ SaltJob
    \/ ToggleActive \/ MoveEnd \/ StartTime \/ EndTime \/ Register \/ Crash

(* The timers fire for ever and time passes.  A handler that is not killed  *)
(* answers, and the cleanup job resolves what it finds.                     *)
Fairness ==
    /\ WF_vars(SaltJob)
    /\ \A v \in Voters : WF_vars(Handler(v)) /\ WF_vars(Reconcile(v))

Spec == Init /\ [][Next]_vars /\ Fairness

-------------------------------------------------------------------------------
(* Properties.                                                              *)

(* Every vote has a nullifier that nobody can compute again once the salt   *)
(* is gone: unless its salt was destroyed while the election was not on the *)
(* chain and its end was then moved, no vote is recorded without one.       *)
VotesAreSalted == ~reopened => \A v \in Voters : votes[v] # "plain"

(* An election that stays closed loses its salt, however its last votes end *)
(* and whatever its administrators do.                                      *)
SaltIsDestroyed == <>[](time = "over") => <>[](~row.salt)

===============================================================================
