-------------------------- MODULE ElectionRegistryV1 --------------------------
(* The first contract (VTB.sol), where the elections created before the     *)
(* second one still are.  A vote is a hash, anybody may send it, and the    *)
(* owner may close an election and open it again.  A call that fails a      *)
(* require() reverts, so the requires are guards.                           *)
EXTENDS Naturals, Sequences, FiniteSets

CONSTANTS
    Senders, Owner1,
    Witnesses, VoteHashes,  \* the bytes32 values of votes, zero among them
    ZeroBytes,
    MaxRegistered,          \* bound: elections created
    LastTime                \* bound: last block.timestamp

ASSUME RegistryV1Assumption ==
    /\ Owner1 \in Senders
    /\ MaxRegistered \in Nat /\ LastTime \in Nat

VARIABLES
    registry,     \* the elections in the order of their ids: electionCount is its length
    votesOf,      \* mapping votes: the hash of each witness of each election
    voteHistory,  \* the records of each election
    blockTime, blockNumber

registryV1Vars == <<registry, votesOf, voteHistory, blockTime, blockNumber>>

Registered == 1 .. MaxRegistered

RegistryV1Init ==
    /\ registry = <<>>
    /\ votesOf = [id \in Registered |-> [w \in Witnesses |-> ZeroBytes]]
    /\ voteHistory = [id \in Registered |-> <<>>]
    /\ blockTime = 0 /\ blockNumber = 0

onlyOwner(sender)       == sender = Owner1
existsElection(id)      == id \in 1 .. Len(registry)
electionIsActive(id)    ==
    /\ registry[id].active
    /\ blockTime >= registry[id].startTime /\ blockTime <= registry[id].endTime

NextBlock ==
    /\ blockTime < LastTime
    /\ blockTime' = blockTime + 1 /\ blockNumber' = blockNumber + 1
    /\ UNCHANGED <<registry, votesOf, voteHistory>>

Chain == UNCHANGED <<blockTime, blockNumber>>

createElection(sender, startTime, endTime) ==
    /\ onlyOwner(sender)
    /\ endTime > startTime /\ startTime >= blockTime
    /\ Len(registry) < MaxRegistered
    /\ registry' = Append(registry, [startTime |-> startTime, endTime |-> endTime,
                                     active |-> TRUE, totalVotes |-> 0])
    /\ UNCHANGED <<votesOf, voteHistory>> /\ Chain

setElectionStatus(sender, id, active) ==
    /\ onlyOwner(sender) /\ existsElection(id)
    /\ registry' = [registry EXCEPT ![id].active = active]
    /\ UNCHANGED <<votesOf, voteHistory>> /\ Chain

closeElection(sender, id) == setElectionStatus(sender, id, FALSE)

hasVotedV1(id, w)   == votesOf[id][w] # ZeroBytes
getVoteHash(id, w)  == votesOf[id][w]
getVoteCount(id)    == registry[id].totalVotes
getVoteHistory(id)  == voteHistory[id]

Record1(w, hash) == [nullifier |-> w, voteHash |-> hash, timestamp |-> blockTime, blockNumber |-> blockNumber]

Cast1(id, w, hash) ==
    /\ existsElection(id) /\ electionIsActive(id)
    /\ w # ZeroBytes /\ hash # ZeroBytes
    /\ votesOf' = [votesOf EXCEPT ![id][w] = hash]
    /\ registry' = [registry EXCEPT ![id].totalVotes = @ + 1]
    /\ voteHistory' = [voteHistory EXCEPT ![id] = Append(@, Record1(w, hash))]
    /\ Chain

\* Mutant: only the very same vote is refused.
castVote_SameHash(id, w, hash) == votesOf[id][w] # hash /\ Cast1(id, w, hash)
castVote(id, w, hash) == ~hasVotedV1(id, w) /\ Cast1(id, w, hash)

RegistryV1Next ==
    \/ NextBlock
    \/ \E s \in Senders :
          \/ \E b, e \in 0 .. LastTime : createElection(s, b, e)
          \/ \E id \in Registered : closeElection(s, id) \/ \E a \in BOOLEAN : setElectionStatus(s, id, a)
    \/ \E id \in Registered, w \in Witnesses, h \in VoteHashes : castVote(id, w, h)

-------------------------------------------------------------------------------
(* What the audit reads three ways says the same: of every election the     *)
(* count, the mapping and the history have the same votes, one of each      *)
(* witness, in the order of the blocks and inside the time of the election, *)
(* however often it was closed and opened again.                            *)
AuditsAgree ==
    \A id \in 1 .. Len(registry) :
        LET history == getVoteHistory(id)
            voters  == {w \in Witnesses : hasVotedV1(id, w)}
        IN  /\ getVoteCount(id) = Cardinality(voters)
            /\ getVoteCount(id) = Len(history)
            /\ \A w \in voters : \E i \in DOMAIN history :
                  history[i].nullifier = w /\ history[i].voteHash = getVoteHash(id, w)
            /\ \A i, j \in DOMAIN history :
                  i < j => /\ history[i].nullifier # history[j].nullifier
                           /\ history[i].blockNumber <= history[j].blockNumber
            /\ \A i \in DOMAIN history :
                  history[i].timestamp \in registry[id].startTime .. registry[id].endTime

(* Each election is a ballot box whatever its owner does: closing it and    *)
(* opening it again neither changes a vote nor lets one in after its time,  *)
(* and only the time seals it for good (VTB.sol, castVote).                 *)
Over1(id) == existsElection(id) /\ blockTime > registry[id].endTime

Box1(id) == INSTANCE BallotBox WITH Nullifiers <- Witnesses, Candidates <- VoteHashes \ {ZeroBytes},
                                    None <- ZeroBytes, cast <- votesOf[id], sealed <- Over1(id)

FirstElectionsAreBallotBoxes ==
    /\ \A id \in Registered : Box1(id)!Init
    /\ [][\A id \in Registered : UNCHANGED Box1(id)!vars \/ Box1(id)!Next]_registryV1Vars

===============================================================================
