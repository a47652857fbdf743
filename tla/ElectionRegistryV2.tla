-------------------------- MODULE ElectionRegistryV2 --------------------------
(***************************************************************************)
(* The voting contract. A call that fails a require() reverts and changes  *)
(* nothing, so the requires are the guards of the action of the call. The  *)
(* clock is block.timestamp. Names and the reserved census root are left   *)
(* out: no guard but the length of the name reads them.                    *)
(***************************************************************************)
EXTENDS Naturals, FiniteSets

CONSTANTS Accounts,         \* addresses that hold a key
          ZeroAddress,      \* address(0)
          Nullifiers,       \* the witnesses voters cast with
          Hashes,           \* bytes32 values other than zero: roots and reasons
          Zero,             \* zero as a nullifier or a hash
          MAX_CANDIDATES,   \* most candidates an election can have
          MaxElections,     \* bound: elections created in a behaviour
          MaxTime           \* bound: last block.timestamp of a behaviour

ASSUME RegistryAssumption ==
    /\ ZeroAddress \notin Accounts
    /\ Zero \notin Nullifiers \cup Hashes
    /\ MAX_CANDIDATES \in Nat
    /\ MaxElections \in Nat
    /\ MaxTime \in Nat

VARIABLES owner, pendingOwner, isRelayer,
          electionCount, elections,
          hasVoted,         \* election -> the nullifiers that voted in it
          votesFor,         \* election -> candidate -> votes
          voteCast,         \* the VoteCast entries of the log
          timestamp         \* block.timestamp

accessVars == <<owner, pendingOwner, isRelayer>>
voteVars   == <<hasVoted, votesFor, voteCast>>
vars       == <<accessVars, electionCount, elections, voteVars, timestamp>>

Ids          == 1..MaxElections
CandidateIds == 0..(MAX_CANDIDATES - 1)
Times        == 0..MaxTime

Election == [startTime : Nat, endTime : Nat, candidateCount : Nat,
             candidatesRoot : Hashes \cup {Zero}, halted : BOOLEAN, totalVotes : Nat]

(* What the mapping _elections holds at an id nobody has created.          *)
ZeroElection == [startTime |-> 0, endTime |-> 0, candidateCount |-> 0,
                 candidatesRoot |-> Zero, halted |-> FALSE, totalVotes |-> 0]

Vote == [electionId : Ids, nullifier : Nullifiers, candidateId : CandidateIds,
         timestamp : Nat]

electionExists(id) == id > 0 /\ id <= electionCount

isOpen(id) == /\ ~elections[id].halted
              /\ timestamp >= elections[id].startTime
              /\ timestamp <= elections[id].endTime

-----------------------------------------------------------------------------
(* The constructor: whoever deploys is the owner; a first relayer is       *)
(* authorised unless the argument is the zero address.                     *)
Init == /\ owner \in Accounts
        /\ pendingOwner = ZeroAddress
        /\ \E initialRelayer \in Accounts \cup {ZeroAddress} :
               isRelayer = {initialRelayer} \ {ZeroAddress}
        /\ electionCount = 0
        /\ elections = [id \in Ids |-> ZeroElection]
        /\ hasVoted = [id \in Ids |-> {}]
        /\ votesFor = [id \in Ids |-> [c \in CandidateIds |-> 0]]
        /\ voteCast = {}
        /\ timestamp \in Times

transferOwnership(sender, newOwner) ==
    /\ sender = owner
    /\ newOwner # ZeroAddress
    /\ pendingOwner' = newOwner
    /\ UNCHANGED <<owner, isRelayer, electionCount, elections, voteVars, timestamp>>

acceptOwnership(sender) ==
    /\ sender = pendingOwner
    /\ owner' = pendingOwner
    /\ pendingOwner' = ZeroAddress
    /\ UNCHANGED <<isRelayer, electionCount, elections, voteVars, timestamp>>

setRelayer(sender, relayer, allowed) ==
    /\ sender = owner
    /\ relayer # ZeroAddress
    /\ isRelayer' = IF allowed THEN isRelayer \cup {relayer} ELSE isRelayer \ {relayer}
    /\ UNCHANGED <<owner, pendingOwner, electionCount, elections, voteVars, timestamp>>

createElection(sender, startTime, endTime, candidateCount, candidatesRoot) ==
    /\ sender \in isRelayer
    /\ endTime > startTime
    /\ endTime > timestamp
    /\ candidateCount > 0 /\ candidateCount <= MAX_CANDIDATES
    /\ candidatesRoot # Zero
    /\ electionCount < MaxElections
    /\ electionCount' = electionCount + 1
    /\ elections' = [elections EXCEPT ![electionCount + 1] =
           [startTime |-> startTime, endTime |-> endTime,
            candidateCount |-> candidateCount, candidatesRoot |-> candidatesRoot,
            halted |-> FALSE, totalVotes |-> 0]]
    /\ UNCHANGED <<accessVars, voteVars, timestamp>>

haltElection(sender, id, reasonHash) ==
    /\ sender = owner
    /\ electionExists(id)
    /\ ~elections[id].halted
    /\ reasonHash # Zero
    /\ elections' = [elections EXCEPT ![id].halted = TRUE]
    /\ UNCHANGED <<accessVars, electionCount, voteVars, timestamp>>

RecordVote_NoTotal(id, nullifier, candidateId) ==
    /\ hasVoted' = [hasVoted EXCEPT ![id] = @ \cup {nullifier}]
    /\ votesFor' = [votesFor EXCEPT ![id][candidateId] = @ + 1]
    /\ voteCast' = voteCast \cup {[electionId |-> id, nullifier |-> nullifier,
                                   candidateId |-> candidateId, timestamp |-> timestamp]}
    /\ UNCHANGED <<accessVars, electionCount, elections, timestamp>>

(* The effects of a vote that passed every require().                      *)
RecordVote(id, nullifier, candidateId) ==
    /\ hasVoted' = [hasVoted EXCEPT ![id] = @ \cup {nullifier}]
    /\ votesFor' = [votesFor EXCEPT ![id][candidateId] = @ + 1]
    /\ elections' = [elections EXCEPT ![id].totalVotes = @ + 1]
    /\ voteCast' = voteCast \cup {[electionId |-> id, nullifier |-> nullifier,
                                   candidateId |-> candidateId, timestamp |-> timestamp]}
    /\ UNCHANGED <<accessVars, electionCount, timestamp>>

castVote_Twice(sender, id, nullifier, candidateId) ==
    /\ sender \in isRelayer /\ electionExists(id) /\ isOpen(id)
    /\ nullifier # Zero
    /\ candidateId < elections[id].candidateCount
    /\ RecordVote(id, nullifier, candidateId)

castVote(sender, id, nullifier, candidateId) ==
    /\ sender \in isRelayer
    /\ electionExists(id)
    /\ isOpen(id)
    /\ nullifier # Zero
    /\ candidateId < elections[id].candidateCount
    /\ nullifier \notin hasVoted[id]
    /\ RecordVote(id, nullifier, candidateId)

(* A later block. Blocks may share a timestamp's second with our clock, so *)
(* several calls can run at one time.                                      *)
NextBlock == /\ timestamp < MaxTime
             /\ timestamp' = timestamp + 1
             /\ UNCHANGED <<accessVars, electionCount, elections, voteVars>>

Call(sender) ==
    \/ \E a \in Accounts \cup {ZeroAddress} : transferOwnership(sender, a)
    \/ acceptOwnership(sender)
    \/ \E a \in Accounts \cup {ZeroAddress}, allowed \in BOOLEAN :
           setRelayer(sender, a, allowed)
    \/ \E start, end \in Times, n \in 0..(MAX_CANDIDATES + 1), root \in Hashes \cup {Zero} :
           createElection(sender, start, end, n, root)
    \/ \E id \in Ids, reason \in Hashes \cup {Zero} : haltElection(sender, id, reason)
    \/ \E id \in Ids, n \in Nullifiers \cup {Zero}, c \in CandidateIds :
           castVote(sender, id, n, c)

Next == \/ \E sender \in Accounts : Call(sender)
        \/ NextBlock

Spec == Init /\ [][Next]_vars

-----------------------------------------------------------------------------
VotesIn(id)        == {v \in voteCast : v.electionId = id}
VotesForIn(id, c)  == {v \in VotesIn(id) : v.candidateId = c}
VotesOf(id, n)     == {v \in VotesIn(id) : v.nullifier = n}

(* No more votes can enter: the owner halted the election or it is over.   *)
Sealed(id) == /\ electionExists(id)
              /\ \/ elections[id].halted
                 \/ timestamp > elections[id].endTime

TypeOK == /\ owner \in Accounts
          /\ pendingOwner \in Accounts \cup {ZeroAddress}
          /\ isRelayer \subseteq Accounts
          /\ electionCount \in 0..MaxElections
          /\ elections \in [Ids -> Election]
          /\ hasVoted \in [Ids -> SUBSET Nullifiers]
          /\ votesFor \in [Ids -> [CandidateIds -> Nat]]
          /\ voteCast \subseteq Vote
          /\ timestamp \in Nat

(* What getTally and getTotalVotes answer is what anyone recounts from the *)
(* VoteCast log: the counters are kept apart from the log and from         *)
(* hasVoted, and the result published by the backend compares them.        *)
TallyMatchesLog ==
    \A id \in Ids :
        /\ elections[id].totalVotes = Cardinality(VotesIn(id))
        /\ \A c \in CandidateIds : votesFor[id][c] = Cardinality(VotesForIn(id, c))

(* Every vote of the log still respects the terms its election has now: it *)
(* is inside the window and names a candidate that can be counted.  A vote *)
(* outside candidateCount would be in totalVotes and missing from getTally. *)
VotesWithinTerms ==
    \A v \in voteCast :
        LET e == elections[v.electionId]
        IN  /\ electionExists(v.electionId)
            /\ e.startTime <= v.timestamp /\ v.timestamp <= e.endTime
            /\ v.candidateId < e.candidateCount

(* Neither the owner nor a relayer can change an election once it is       *)
(* created: the window, the ballot paper and its root stay, and a halt is  *)
(* never undone (BC-06, the closing and reopening of the first contract).  *)
TermsFixed ==
    [][\A id \in 1..electionCount :
          /\ id <= electionCount'
          /\ \A f \in {"startTime", "endTime", "candidateCount", "candidatesRoot"} :
                 elections'[id][f] = elections[id][f]
          /\ elections[id].halted => elections'[id].halted]_vars

(* The result of an election that was halted or whose end passed is final: *)
(* no later call, whoever the relayers are by then, moves its tally.       *)
ResultFinal ==
    [][\A id \in Ids : Sealed(id) =>
          /\ votesFor'[id] = votesFor[id]
          /\ elections'[id].totalVotes = elections[id].totalVotes]_vars

(* The log of an election as a ballot box: the ballot of a nullifier is    *)
(* the set of what it cast, empty or one candidate.                        *)
Ballots(id) == [n \in Nullifiers |-> {v.candidateId : v \in VotesOf(id, n)}]

Box(id) == INSTANCE BallotBox WITH Candidates <- {{c} : c \in CandidateIds}, None <- {},
                                   cast <- Ballots(id), sealed <- Sealed(id)

(* Each election implements a ballot box: a nullifier votes once, its vote *)
(* never changes, and nothing enters once the election is sealed, however  *)
(* the calls on the other elections and on the keys are interleaved.       *)
ElectionsAreBallotBoxes ==
    /\ \A id \in Ids : Box(id)!Init
    /\ [][\A id \in Ids : UNCHANGED Box(id)!vars \/ Box(id)!Next]_vars

=============================================================================
