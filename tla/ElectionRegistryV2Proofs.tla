----------------------- MODULE ElectionRegistryV2Proofs -----------------------
(***************************************************************************)
(* What the contract guarantees for any keys, voters, candidates, number   *)
(* of elections and times.                                                 *)
(***************************************************************************)
EXTENDS ElectionRegistryV2, FiniteSetTheorems, TLAPS

(* The calls, one level below Next: what a step of the contract is.        *)
LEMMA NextCases ==
    ASSUME [Next]_vars
    PROVE  \/ \E s \in Accounts, a \in Accounts \cup {ZeroAddress} : transferOwnership(s, a)
           \/ \E s \in Accounts : acceptOwnership(s)
           \/ \E s \in Accounts, a \in Accounts \cup {ZeroAddress}, b \in BOOLEAN :
                  setRelayer(s, a, b)
           \/ \E s \in Accounts, start, end \in Times, n \in 0..(MAX_CANDIDATES + 1),
                 root \in Hashes \cup {Zero} : createElection(s, start, end, n, root)
           \/ \E s \in Accounts, id \in Ids, h \in Hashes \cup {Zero} : haltElection(s, id, h)
           \/ \E s \in Accounts, id \in Ids, n \in Nullifiers \cup {Zero}, c \in CandidateIds :
                  castVote(s, id, n, c)
           \/ NextBlock
           \/ UNCHANGED vars
    BY Zenon DEF Next, Call

(* One more vote leaves a well-formed election.                            *)
LEMMA VoteKeepsElection ==
    ASSUME NEW e \in Election
    PROVE  [e EXCEPT !.totalVotes = @ + 1] \in Election
    BY DEF Election

(* Type correctness: in particular the contract is never left without an   *)
(* owner, whatever address the ownership is offered to.                    *)
THEOREM TypeCorrect == Spec => []TypeOK
<1>1. Init => TypeOK
    BY RegistryAssumption
    DEF Init, TypeOK, Election, ZeroElection, Ids, CandidateIds, Times
<1>2. TypeOK /\ [Next]_vars => TypeOK'
    <2> SUFFICES ASSUME TypeOK, [Next]_vars PROVE TypeOK'
        OBVIOUS
    <2> USE RegistryAssumption DEF TypeOK, accessVars, voteVars
    <2>1. ASSUME NEW s \in Accounts, NEW a \in Accounts \cup {ZeroAddress},
                 transferOwnership(s, a)
          PROVE  TypeOK'
        BY <2>1 DEF transferOwnership
    <2>2. ASSUME NEW s \in Accounts, acceptOwnership(s) PROVE TypeOK'
        BY <2>2 DEF acceptOwnership
    <2>3. ASSUME NEW s \in Accounts, NEW a \in Accounts \cup {ZeroAddress},
                 NEW b \in BOOLEAN, setRelayer(s, a, b)
          PROVE  TypeOK'
        BY <2>3 DEF setRelayer
    <2>4. ASSUME NEW s \in Accounts, NEW start \in Times, NEW end \in Times,
                 NEW n \in 0..(MAX_CANDIDATES + 1), NEW root \in Hashes \cup {Zero},
                 createElection(s, start, end, n, root)
          PROVE  TypeOK'
        <3>1. elections' \in [Ids -> Election]
            BY <2>4 DEF createElection, Election, Ids, Times
        <3>2. electionCount' \in 0..MaxElections
            BY <2>4 DEF createElection
        <3> QED BY <2>4, <3>1, <3>2 DEF createElection
    <2>5. ASSUME NEW s \in Accounts, NEW id \in Ids, NEW h \in Hashes \cup {Zero},
                 haltElection(s, id, h)
          PROVE  TypeOK'
        <3>1. elections' \in [Ids -> Election]
            BY <2>5 DEF haltElection, Election
        <3> QED BY <2>5, <3>1 DEF haltElection
    <2>6. ASSUME NEW s \in Accounts, NEW id \in Ids, NEW n \in Nullifiers \cup {Zero},
                 NEW c \in CandidateIds, castVote(s, id, n, c)
          PROVE  TypeOK'
        <3>1. elections' \in [Ids -> Election]
            <4>1. elections[id] \in Election
                OBVIOUS
            <4>2. [elections[id] EXCEPT !.totalVotes = @ + 1] \in Election
                BY <4>1, VoteKeepsElection
            <4>3. elections' = [elections EXCEPT ![id] = [elections[id] EXCEPT !.totalVotes = @ + 1]]
                BY <2>6 DEF castVote, RecordVote
            <4> QED BY <4>2, <4>3
        <3>2. votesFor' \in [Ids -> [CandidateIds -> Nat]]
            BY <2>6 DEF castVote, RecordVote
        <3>3. hasVoted' \in [Ids -> SUBSET Nullifiers]
            BY <2>6 DEF castVote, RecordVote
        <3>4. voteCast' \subseteq Vote
            BY <2>6 DEF castVote, RecordVote, Vote
        <3> QED BY <2>6, <3>1, <3>2, <3>3, <3>4 DEF castVote, RecordVote
    <2>7. CASE NextBlock
        BY <2>7 DEF NextBlock
    <2>8. CASE UNCHANGED vars
        BY <2>8 DEF vars
    <2>9. QED
        BY NextCases, <2>1, <2>2, <2>3, <2>4, <2>5, <2>6, <2>7, <2>8
<1>3. QED
    BY <1>1, <1>2, PTL DEF Spec

-----------------------------------------------------------------------------
(* The log is finite and whoever is in it is marked in hasVoted: a         *)
(* nullifier that is not marked has cast nothing.                          *)
LogInv == /\ IsFiniteSet(voteCast)
          /\ \A v \in voteCast : v.nullifier \in hasVoted[v.electionId]
          /\ TallyMatchesLog
          /\ VotesWithinTerms

(* A vote that is new to the log adds one to the counts it belongs to and  *)
(* leaves the others.                                                      *)
LEMMA CountOfNewVote ==
    ASSUME TypeOK, IsFiniteSet(voteCast), NEW w \in Vote, w \notin voteCast,
           voteCast' = voteCast \cup {w}, NEW id \in Ids, NEW c \in CandidateIds
    PROVE  /\ Cardinality(VotesIn(id)') =
                  Cardinality(VotesIn(id)) + (IF w.electionId = id THEN 1 ELSE 0)
           /\ Cardinality(VotesForIn(id, c)') = Cardinality(VotesForIn(id, c))
                  + (IF w.electionId = id /\ w.candidateId = c THEN 1 ELSE 0)
<1>1. IsFiniteSet(VotesIn(id)) /\ IsFiniteSet(VotesForIn(id, c))
    BY FS_Subset DEF VotesIn, VotesForIn
<1>2. /\ VotesIn(id)' = IF w.electionId = id THEN VotesIn(id) \cup {w} ELSE VotesIn(id)
      /\ w \notin VotesIn(id)
    BY DEF VotesIn
<1>3. /\ VotesForIn(id, c)' = IF w.electionId = id /\ w.candidateId = c
                               THEN VotesForIn(id, c) \cup {w} ELSE VotesForIn(id, c)
      /\ w \notin VotesForIn(id, c)
    BY DEF VotesIn, VotesForIn
<1>4. Cardinality(VotesIn(id)) \in Nat /\ Cardinality(VotesForIn(id, c)) \in Nat
    BY <1>1, FS_CardinalityType
<1>5. /\ Cardinality(VotesIn(id) \cup {w}) = Cardinality(VotesIn(id)) + 1
      /\ Cardinality(VotesForIn(id, c) \cup {w}) = Cardinality(VotesForIn(id, c)) + 1
    BY <1>1, <1>2, <1>3, FS_AddElement
<1> QED BY <1>2, <1>3, <1>4, <1>5

LEMMA LogInvStep == TypeOK /\ LogInv /\ [Next]_vars => LogInv'
<1> SUFFICES ASSUME TypeOK, LogInv, [Next]_vars PROVE LogInv'
    OBVIOUS
<1> USE RegistryAssumption
<1>1. ASSUME UNCHANGED <<elections, electionCount, voteVars>> PROVE LogInv'
    BY <1>1 DEF LogInv, TallyMatchesLog, VotesWithinTerms, VotesIn, VotesForIn,
                electionExists, voteVars
<1>2. ASSUME NEW s \in Accounts, NEW start \in Times, NEW end \in Times,
             NEW n \in 0..(MAX_CANDIDATES + 1), NEW root \in Hashes \cup {Zero},
             createElection(s, start, end, n, root)
      PROVE  LogInv'
    <2>1. /\ UNCHANGED <<hasVoted, votesFor, voteCast>>
          /\ electionCount' = electionCount + 1
          /\ electionCount + 1 \in Ids
          /\ \A id \in Ids \ {electionCount + 1} : elections'[id] = elections[id]
          /\ elections'[electionCount + 1].totalVotes = 0
        BY <1>2 DEF createElection, voteVars, TypeOK, Ids
    <2>2. \A v \in voteCast : /\ v.electionId \in Ids
                              /\ v.electionId # electionCount + 1
        BY DEF LogInv, VotesWithinTerms, electionExists, TypeOK, Vote, Ids
    <2>3. VotesIn(electionCount + 1) = {}
        BY <2>2 DEF VotesIn
    <2>4. TallyMatchesLog'
        BY <2>1, <2>3, FS_EmptySet DEF LogInv, TallyMatchesLog, VotesIn, VotesForIn
    <2>5. VotesWithinTerms'
        BY <2>1, <2>2 DEF LogInv, VotesWithinTerms, electionExists, TypeOK, Ids
    <2> QED BY <2>1, <2>4, <2>5 DEF LogInv
<1>3. ASSUME NEW s \in Accounts, NEW id \in Ids, NEW h \in Hashes \cup {Zero},
             haltElection(s, id, h)
      PROVE  LogInv'
    <2>1. /\ UNCHANGED <<hasVoted, votesFor, voteCast, electionCount>>
          /\ \A i \in Ids : /\ elections'[i].startTime = elections[i].startTime
                             /\ elections'[i].endTime = elections[i].endTime
                             /\ elections'[i].candidateCount = elections[i].candidateCount
                             /\ elections'[i].totalVotes = elections[i].totalVotes
        BY <1>3 DEF haltElection, voteVars, TypeOK, Election
    <2>2. \A v \in voteCast : v.electionId \in Ids
        BY DEF TypeOK, Vote
    <2> QED BY <2>1, <2>2 DEF LogInv, TallyMatchesLog, VotesWithinTerms, VotesIn, VotesForIn,
                              electionExists
<1>4. ASSUME NEW s \in Accounts, NEW id \in Ids, NEW n \in Nullifiers \cup {Zero},
             NEW c \in CandidateIds, castVote(s, id, n, c)
      PROVE  LogInv'
    <2> DEFINE w == [electionId |-> id, nullifier |-> n, candidateId |-> c,
                     timestamp |-> timestamp]
    <2>1. /\ voteCast' = voteCast \cup {w}
          /\ w \in Vote
          /\ n \notin hasVoted[id]
          /\ UNCHANGED <<electionCount, timestamp>>
        BY <1>4 DEF castVote, RecordVote, TypeOK, Vote
    <2>2. w \notin voteCast
        BY <2>1 DEF LogInv
    <2>3. IsFiniteSet(voteCast')
        BY <2>1, FS_AddElement DEF LogInv
    <2>4. \A v \in voteCast' : v.nullifier \in hasVoted'[v.electionId]
        <3>1. \A i \in Ids : hasVoted'[i] = IF i = id THEN hasVoted[i] \cup {n} ELSE hasVoted[i]
            BY <1>4 DEF castVote, RecordVote, TypeOK
        <3>2. \A v \in voteCast : v.electionId \in Ids
            BY DEF TypeOK, Vote
        <3>3. ASSUME NEW v \in voteCast PROVE v.nullifier \in hasVoted'[v.electionId]
            BY <3>1, <3>2 DEF LogInv
        <3>4. w.nullifier \in hasVoted'[w.electionId]
            BY <3>1
        <3> QED BY <2>1, <3>3, <3>4
    <2>5. TallyMatchesLog'
        <3> SUFFICES ASSUME NEW i \in Ids, NEW d \in CandidateIds
                     PROVE  /\ elections'[i].totalVotes = Cardinality(VotesIn(i)')
                            /\ votesFor'[i][d] = Cardinality(VotesForIn(i, d)')
            BY DEF TallyMatchesLog
        <3>1. /\ elections'[i].totalVotes =
                     elections[i].totalVotes + (IF id = i THEN 1 ELSE 0)
              /\ votesFor'[i][d] = votesFor[i][d] + (IF id = i /\ c = d THEN 1 ELSE 0)
            BY <1>4 DEF castVote, RecordVote, TypeOK, Election
        <3>2. w.electionId = id /\ w.candidateId = c
            OBVIOUS
        <3>3. /\ Cardinality(VotesIn(i)') =
                     Cardinality(VotesIn(i)) + (IF w.electionId = i THEN 1 ELSE 0)
              /\ Cardinality(VotesForIn(i, d)') = Cardinality(VotesForIn(i, d))
                     + (IF w.electionId = i /\ w.candidateId = d THEN 1 ELSE 0)
            <4> HIDE DEF w
            <4> QED BY <2>1, <2>2, CountOfNewVote DEF LogInv
        <3> QED BY <3>1, <3>2, <3>3 DEF LogInv, TallyMatchesLog
    <2>6. VotesWithinTerms'
        <3>1. \A i \in Ids : /\ elections'[i].startTime = elections[i].startTime
                             /\ elections'[i].endTime = elections[i].endTime
                             /\ elections'[i].candidateCount = elections[i].candidateCount
            BY <1>4 DEF castVote, RecordVote, TypeOK, Election
        <3>2. /\ electionExists(id)
              /\ elections[id].startTime <= timestamp /\ timestamp <= elections[id].endTime
              /\ c < elections[id].candidateCount
            BY <1>4 DEF castVote, isOpen, TypeOK, Election
        <3>3. \A v \in voteCast : v.electionId \in Ids
            BY DEF TypeOK, Vote
        <3> QED BY <2>1, <3>1, <3>2, <3>3 DEF LogInv, VotesWithinTerms, electionExists
    <2> QED BY <2>3, <2>4, <2>5, <2>6 DEF LogInv
<1>5. CASE UNCHANGED vars
    BY <1>1, <1>5 DEF vars
<1> QED
    BY NextCases, <1>1, <1>2, <1>3, <1>4, <1>5
    DEF transferOwnership, acceptOwnership, setRelayer, NextBlock

(* The inductive invariant behind the tally: hasVoted, counters and log     *)
(* tell the same story.                                                    *)
THEOREM LogInvariant == Spec => []LogInv
<1>1. Init /\ TypeOK => LogInv
    BY FS_EmptySet DEF Init, LogInv, TallyMatchesLog, VotesWithinTerms, VotesIn, VotesForIn,
                       ZeroElection
<1>2. Init => TypeOK
    BY RegistryAssumption
    DEF Init, TypeOK, Election, ZeroElection, Ids, CandidateIds, Times
<1> QED BY <1>1, <1>2, LogInvStep, TypeCorrect, PTL DEF Spec

(* The tally the contract answers is the recount of its log, at every time *)
(* of every behaviour.                                                     *)
THEOREM TallyVerifiable == Spec => [](TallyMatchesLog /\ VotesWithinTerms)
<1>1. LogInv => TallyMatchesLog /\ VotesWithinTerms
    BY DEF LogInv
<1> QED BY <1>1, LogInvariant, PTL

-----------------------------------------------------------------------------
(* The part of a step an observer of the elections sees.                   *)
LEMMA TermsStep ==
    ASSUME TypeOK, [Next]_vars, NEW id \in 1..electionCount
    PROVE  /\ id <= electionCount'
           /\ elections'[id].startTime = elections[id].startTime
           /\ elections'[id].endTime = elections[id].endTime
           /\ elections'[id].candidateCount = elections[id].candidateCount
           /\ elections'[id].candidatesRoot = elections[id].candidatesRoot
           /\ elections[id].halted => elections'[id].halted
<1> USE RegistryAssumption
<1>1. /\ id \in Ids /\ elections \in [Ids -> Election]
      /\ id \in Nat /\ electionCount \in Nat /\ id <= electionCount
    BY DEF TypeOK, Ids
<1>2. ASSUME NEW s \in Accounts, NEW start \in Times, NEW end \in Times,
             NEW n \in 0..(MAX_CANDIDATES + 1), NEW root \in Hashes \cup {Zero},
             createElection(s, start, end, n, root)
      PROVE  electionCount' = electionCount + 1 /\ elections'[id] = elections[id]
    BY <1>1, <1>2 DEF createElection
<1>3. ASSUME NEW s \in Accounts, NEW i \in Ids, NEW h \in Hashes \cup {Zero},
             haltElection(s, i, h)
      PROVE  /\ electionCount' = electionCount
             /\ \/ elections'[id] = elections[id]
                \/ elections'[id] = [elections[id] EXCEPT !.halted = TRUE]
    BY <1>1, <1>3 DEF haltElection
<1>4. ASSUME NEW s \in Accounts, NEW i \in Ids, NEW n \in Nullifiers \cup {Zero},
             NEW c \in CandidateIds, castVote(s, i, n, c)
      PROVE  /\ electionCount' = electionCount
             /\ \/ elections'[id] = elections[id]
                \/ elections'[id] = [elections[id] EXCEPT !.totalVotes = @ + 1]
    BY <1>1, <1>4 DEF castVote, RecordVote
<1>5. /\ electionCount' \in {electionCount, electionCount + 1}
      /\ \/ elections'[id] = elections[id]
         \/ elections'[id] = [elections[id] EXCEPT !.halted = TRUE]
         \/ elections'[id] = [elections[id] EXCEPT !.totalVotes = @ + 1]
    BY NextCases, <1>2, <1>3, <1>4
    DEF transferOwnership, acceptOwnership, setRelayer, NextBlock, vars
<1>6. id <= electionCount'
    BY <1>1, <1>5
<1>7. elections[id] \in Election
    BY <1>1
<1> QED BY <1>5, <1>6, <1>7 DEF Election

(* No key, owner's or relayer's, rewrites an election that exists.         *)
THEOREM TermsNeverChange == Spec => TermsFixed
<1>1. TypeOK /\ [Next]_vars => [\A id \in 1..electionCount :
          /\ id <= electionCount'
          /\ \A f \in {"startTime", "endTime", "candidateCount", "candidatesRoot"} :
                 elections'[id][f] = elections[id][f]
          /\ elections[id].halted => elections'[id].halted]_vars
    BY TermsStep
<1> QED BY <1>1, TypeCorrect, PTL DEF Spec, TermsFixed

(* Once an election is sealed it stays so.                                 *)
LEMMA SealedStays ==
    ASSUME TypeOK, [Next]_vars, NEW id \in Ids, Sealed(id)
    PROVE  Sealed(id)'
<1>1. timestamp' \in Nat /\ timestamp' >= timestamp
    <2>1. timestamp' \in {timestamp, timestamp + 1}
        BY NextCases
        DEF transferOwnership, acceptOwnership, setRelayer, createElection, haltElection,
            castVote, RecordVote, NextBlock, vars
    <2> QED BY <2>1 DEF TypeOK
<1>2. id \in 1..electionCount
    BY DEF Sealed, electionExists, Ids, TypeOK
<1>3. elections[id].endTime \in Nat /\ electionCount' >= id
    BY <1>2, TermsStep DEF TypeOK, Election
<1> QED BY <1>1, <1>2, <1>3, TermsStep DEF Sealed, electionExists, TypeOK, Ids

(* A vote enters only an election that is not sealed, before and after.    *)
LEMMA VoteLeavesUnsealed ==
    ASSUME TypeOK, NEW s, NEW id \in Ids, NEW n, NEW c, castVote(s, id, n, c)
    PROVE  ~Sealed(id) /\ ~Sealed(id)'
<1>1. /\ ~elections[id].halted
      /\ timestamp <= elections[id].endTime
      /\ timestamp' = timestamp
      /\ elections'[id] = [elections[id] EXCEPT !.totalVotes = @ + 1]
      /\ elections[id] \in Election
    BY DEF castVote, RecordVote, isOpen, TypeOK
<1> QED BY <1>1 DEF Sealed, Election, TypeOK

(* The result of a sealed election never moves again.                      *)
THEOREM ResultsAreFinal == Spec => ResultFinal
<1>1. ASSUME TypeOK, LogInv, [Next]_vars, NEW id \in Ids, Sealed(id)
      PROVE  votesFor'[id] = votesFor[id] /\ elections'[id].totalVotes = elections[id].totalVotes
    <2>1. id \in 1..electionCount
        BY <1>1 DEF Sealed, electionExists, TypeOK, Ids
    <2>2. ASSUME NEW s \in Accounts, NEW i \in Ids, NEW n \in Nullifiers \cup {Zero},
                 NEW c \in CandidateIds, castVote(s, i, n, c)
          PROVE  UNCHANGED votesFor[id] /\ UNCHANGED elections[id]
        <3>1. i # id
            BY <1>1, <2>2, VoteLeavesUnsealed
        <3> QED BY <1>1, <2>2, <3>1 DEF castVote, RecordVote, TypeOK
    <2>3. ASSUME NEW s \in Accounts, NEW i \in Ids, NEW h \in Hashes \cup {Zero},
                 haltElection(s, i, h)
          PROVE  UNCHANGED votesFor /\ elections'[id].totalVotes = elections[id].totalVotes
        BY <1>1, <2>3 DEF haltElection, voteVars, TypeOK, Election
    <2>4. ASSUME NEW s \in Accounts, NEW start \in Times, NEW end \in Times,
                 NEW n \in 0..(MAX_CANDIDATES + 1), NEW root \in Hashes \cup {Zero},
                 createElection(s, start, end, n, root)
          PROVE  UNCHANGED votesFor /\ elections'[id] = elections[id]
        BY <1>1, <2>1, <2>4 DEF createElection, voteVars, TypeOK
    <2> QED BY <1>1, <2>2, <2>3, <2>4, NextCases
            DEF transferOwnership, acceptOwnership, setRelayer, NextBlock, vars, voteVars
<1>2. TypeOK /\ LogInv /\ [Next]_vars => [\A id \in Ids : Sealed(id) =>
          /\ votesFor'[id] = votesFor[id]
          /\ elections'[id].totalVotes = elections[id].totalVotes]_vars
    BY <1>1
<1> QED BY <1>2, TypeCorrect, LogInvariant, PTL DEF Spec, ResultFinal

(* Every election implements the abstract ballot box: each initial state   *)
(* of the contract maps to an empty open box, and each call to casting one *)
(* ballot of a nullifier without one, to sealing, or to nothing.           *)
THEOREM RegistryImplementsBallotBoxes == Spec => ElectionsAreBallotBoxes
<1>1. Init => \A id \in Ids : Box(id)!Init
    BY DEF Init, Box!Init, Ballots, VotesOf, VotesIn, Sealed, electionExists, Ids
<1>2. ASSUME TypeOK, LogInv, [Next]_vars, NEW id \in Ids
      PROVE  [Box(id)!Next]_(Box(id)!vars)
    <2>1. ASSUME UNCHANGED voteCast PROVE [Box(id)!Next]_(Box(id)!vars)
        <3>1. Ballots(id)' = Ballots(id)
            BY <2>1 DEF Ballots, VotesOf, VotesIn
        <3>2. Sealed(id) \in BOOLEAN /\ Sealed(id)' \in BOOLEAN
            BY DEF Sealed
        <3>3. Sealed(id) => Sealed(id)'
            BY <1>2, SealedStays
        <3> QED BY <3>1, <3>2, <3>3, Zenon DEF Box!vars, Box!Next, Box!Seal
    <2>2. ASSUME NEW s \in Accounts, NEW i \in Ids, NEW n \in Nullifiers \cup {Zero},
                 NEW c \in CandidateIds, castVote(s, i, n, c)
          PROVE  [Box(id)!Next]_(Box(id)!vars)
        <3> DEFINE w == [electionId |-> i, nullifier |-> n, candidateId |-> c,
                         timestamp |-> timestamp]
        <3>1. /\ voteCast' = voteCast \cup {w}
              /\ n \in Nullifiers
              /\ n \notin hasVoted[i]
            BY <2>2 DEF castVote, RecordVote
        <3>2. CASE i # id
            <4>1. Ballots(id)' = Ballots(id)
                BY <3>1, <3>2 DEF Ballots, VotesOf, VotesIn
            <4>2. UNCHANGED Sealed(id)
                BY <1>2, <2>2, <3>2
                DEF castVote, RecordVote, Sealed, electionExists, TypeOK
            <4> QED BY <4>1, <4>2 DEF Box!vars
        <3>3. CASE i = id
            <4>1. VotesOf(id, n) = {}
                BY <1>2, <3>1, <3>3 DEF LogInv, VotesOf, VotesIn
            <4>2. \A m \in Nullifiers : VotesOf(id, m)' =
                      IF m = n THEN VotesOf(id, m) \cup {w} ELSE VotesOf(id, m)
                BY <3>1, <3>3 DEF VotesOf, VotesIn
            <4>3. Ballots(id)' = [Ballots(id) EXCEPT ![n] = {c}]
                <5>1. \A m \in Nullifiers \ {n} :
                          {v.candidateId : v \in VotesOf(id, m)'} =
                          {v.candidateId : v \in VotesOf(id, m)}
                    BY <4>2
                <5>2. {v.candidateId : v \in VotesOf(id, n)'} = {c}
                    <6>1. VotesOf(id, n)' = {w} /\ w.candidateId = c
                        BY <3>1, <4>1, <4>2
                    <6> HIDE DEF w
                    <6> QED BY <6>1
                <5> QED BY <3>1, <5>1, <5>2 DEF Ballots
            <4>4. Ballots(id)[n] = {}
                BY <3>1, <4>1 DEF Ballots
            <4>5. Sealed(id) = FALSE /\ Sealed(id)' = FALSE
                BY <1>2, <2>2, <3>3, VoteLeavesUnsealed DEF Sealed
            <4>6. Box(id)!Cast(n, {c})
                BY <4>3, <4>4, <4>5 DEF Box!Cast
            <4> QED BY <3>1, <4>6 DEF Box!Next
        <3> QED BY <3>2, <3>3
    <2> QED BY <1>2, <2>1, <2>2, NextCases
            DEF transferOwnership, acceptOwnership, setRelayer, createElection, haltElection,
                NextBlock, vars, voteVars
<1>3. TypeOK /\ LogInv /\ [Next]_vars => [\A id \in Ids : UNCHANGED Box(id)!vars \/ Box(id)!Next]_vars
    BY <1>2
<1> QED BY <1>1, <1>3, TypeCorrect, LogInvariant, PTL DEF Spec, ElectionsAreBallotBoxes

=============================================================================
