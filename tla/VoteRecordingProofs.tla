------------------------- MODULE VoteRecordingProofs -------------------------
(***************************************************************************)
(* Proofs about VoteRecording, for all requests, voters, runs of the job   *)
(* and, unless a theorem says otherwise, whatever Faults happen:           *)
(*   - the type invariant;                                                 *)
(*   - what the backend counts is what the contract holds, and a voter     *)
(*     told "confirmed" has that choice in the contract;                   *)
(*   - the counted votes are a ballot box;                                 *)
(*   - the lock lets one request of a voter through at a time, provided    *)
(*     runs of the job do not overlap and handlers end within 30 minutes;  *)
(*   - the job gives up no attempt whose transaction may still count,      *)
(*     provided every transaction that is sent becomes known.              *)
(***************************************************************************)
EXTENDS VoteRecording, TLAPS

(* A run of the job that works on an attempt has one under hand, knows a   *)
(* transaction when it asks for it and a vote when it records one.         *)
AtWork == {"receipt", "nonce", "record", "fail"}
JobAtWork ==
    \A j \in Jobs :
        /\ job[j].pc \in AtWork => job[j].at \in Selected
        /\ job[j].pc \in {"receipt", "nonce"} => job[j].at.tx \in Requests
        /\ job[j].pc = "record" => job[j].vote \in Candidates

TypeInv == TypeOK /\ JobAtWork

(* The database operations keep the types of the tables.                   *)
LEMMA AcquireTypes ==
    ASSUME TypeOK, NEW r \in Requests, AcquireVoteLock(r)
    PROVE  attempt' \in [Voters -> Row]
<1> DEFINE row == attempt[VoterOf[r]]
           new == [status |-> "pending", holder |-> r, age |-> "new", tx |-> row.tx,
                   id |-> IF row.status = "none" THEN r ELSE row.id]
<1>1. VoterOf[r] \in Voters
  BY VoteRecordingAssumption
<1>2. row \in Row
  BY <1>1 DEF TypeOK
<1>3. new \in Row
  BY <1>2 DEF Row
<1>4. attempt' = [attempt EXCEPT ![VoterOf[r]] = new]
  BY DEF AcquireVoteLock
<1> HIDE DEF new
<1> QED
  BY <1>1, <1>3, <1>4 DEF TypeOK

LEMMA RowEdits ==
    ASSUME NEW row \in Row
    PROVE  /\ [row EXCEPT !.status = "failed", !.age = "new"] \in Row
           /\ \A t \in Requests : [row EXCEPT !.tx = t] \in Row
           /\ \A a \in {"new", "stale", "expired"} : [row EXCEPT !.age = a] \in Row
BY DEF Row

LEMMA NoRowIsRow == NoRow \in Row
BY DEF NoRow, Row

(* The job keeps the type of what it remembers.                            *)
LEMMA JobGoesTypes ==
    ASSUME TypeOK, NEW j \in Jobs,
           NEW where \in {"idle", "next", "receipt", "nonce", "record", "fail"},
           JobGoes(j, where)
    PROVE  /\ job' \in [Jobs -> JobState]
           /\ \A k \in Jobs \ {j} : job'[k] = job[k]
           /\ job'[j].pc = where /\ job'[j].todo = job[j].todo
           /\ job'[j].at = job[j].at /\ job'[j].vote = job[j].vote
<1> DEFINE new == [job[j] EXCEPT !.pc = where]
<1>1. job[j] \in JobState
  BY DEF TypeOK
<1>2. /\ new \in JobState
      /\ new.pc = where /\ new.todo = job[j].todo
      /\ new.at = job[j].at /\ new.vote = job[j].vote
  BY <1>1 DEF JobState
<1>3. job' = [job EXCEPT ![j] = new]
  BY DEF JobGoes
<1> HIDE DEF new
<1> QED
  BY <1>2, <1>3 DEF TypeOK

LEMMA JobLeavesTypes ==
    ASSUME TypeOK, NEW j \in Jobs, JobLeaves(j)
    PROVE  /\ job' \in [Jobs -> JobState]
           /\ \A k \in Jobs \ {j} : job'[k] = job[k]
           /\ job'[j].pc = "next"
           /\ job'[j].todo = job[j].todo
<1> DEFINE new == [job[j] EXCEPT !.pc = "next", !.at = None, !.vote = None]
<1>1. job[j] \in JobState
  BY DEF TypeOK
<1>2. new \in JobState /\ new.pc = "next" /\ new.todo = job[j].todo
  BY <1>1 DEF JobState
<1>3. job' = [job EXCEPT ![j] = new]
  BY DEF JobLeaves
<1> HIDE DEF new
<1> QED
  BY <1>2, <1>3 DEF TypeOK

(* What a step of the system is.                                           *)
LEMMA NextCases ==
    ASSUME [Next]_vars
    PROVE  \/ \E r \in Requests : HandlerStep(r)
           \/ \E r \in Requests : Mine(r) \/ Replace(r)
           \/ \E v \in Voters : Age(v)
           \/ \E j \in Jobs : JobStep(j)
           \/ EndTime \/ SealElection \/ Crash
           \/ UNCHANGED vars
BY Zenon DEF Next

LEMMA TypeInit == Init => TypeInv
<1> SUFFICES ASSUME Init PROVE TypeInv
  OBVIOUS
<1> USE VoteRecordingAssumption DEF Init, Contract!Init
<1>1. attempt \in [Voters -> Row]
  BY NoRowIsRow
<1>2. job \in [Jobs -> JobState]
  BY DEF IdleJob, JobState
<1>3. JobAtWork
  BY DEF IdleJob, JobAtWork, AtWork
<1>4. participations \subseteq Voters /\ crashes \in 0..MaxCrashes
  OBVIOUS
<1> QED
  BY <1>1, <1>2, <1>3, <1>4 DEF TypeInv, TypeOK, TxStates

(* The handlers: none of them touches the job or the contract's votes.     *)
LEMMA HandlerTypes ==
    ASSUME TypeInv, NEW r \in Requests, HandlerStep(r)
    PROVE  TypeInv'
<1> USE VoteRecordingAssumption DEF TypeInv, TypeOK, chainVars, dbVars, Running, Replies, TxStates
<1>0. VoterOf[r] \in Voters /\ ChoiceOf[r] \in Candidates
  OBVIOUS
<1>1. attempt[VoterOf[r]] \in Row
  BY <1>0
<1>2. job' = job /\ cast' = cast /\ sealed' = sealed /\ crashes' = crashes /\ over' = over
  BY DEF HandlerStep, Begin, DemoVote, TakeLock, NoPort, Send, SendFails, AwaitReceipt,
         WaitTimesOut, NotePendingTx, RecordVote, Release, DbFails
<1>3. JobAtWork'
  BY <1>2 DEF JobAtWork
<1>4. CASE Begin(r)
  BY <1>2, <1>3, <1>4 DEF Begin
<1>5. ASSUME RecordConfirmedVote(VoterOf[r], ChoiceOf[r])
      PROVE  /\ attempt' \in [Voters -> Row]
             /\ participations' \subseteq Voters
             /\ audit' \in [Voters -> Candidates \cup {None}]
  BY <1>0, <1>5, NoRowIsRow DEF RecordConfirmedVote
<1>6. CASE DemoVote(r)
  BY <1>2, <1>3, <1>5, <1>6 DEF DemoVote
<1>7. CASE TakeLock(r)
  <2>1. attempt' \in [Voters -> Row]
    BY <1>7, AcquireTypes DEF TakeLock
  <2> QED
    BY <1>2, <1>3, <1>7, <2>1 DEF TakeLock
<1>8. CASE NoPort(r) \/ Send(r) \/ SendFails(r) \/ AwaitReceipt(r) \/ WaitTimesOut(r)
  BY <1>2, <1>3, <1>8 DEF NoPort, Send, SendFails, AwaitReceipt, WaitTimesOut
<1>9. CASE NotePendingTx(r)
  <2>1. attempt' \in [Voters -> Row]
    BY <1>0, <1>1, <1>9, RowEdits DEF NotePendingTx, RecordPendingTx
  <2> QED
    BY <1>2, <1>3, <1>9, <2>1 DEF NotePendingTx
<1>10. CASE RecordVote(r)
  BY <1>2, <1>3, <1>5, <1>10 DEF RecordVote
<1>11. CASE Release(r)
  <2>1. attempt' \in [Voters -> Row]
    BY <1>0, <1>1, <1>11, RowEdits DEF Release, ReleaseVoteLock
  <2> QED
    BY <1>2, <1>3, <1>11, <2>1 DEF Release
<1>12. CASE DbFails(r)
  BY <1>2, <1>3, <1>12 DEF DbFails
<1> QED
  BY <1>4, <1>6, <1>7, <1>8, <1>9, <1>10, <1>11, <1>12 DEF HandlerStep

(* The chain, the clocks and the process.                                  *)
LEMMA EnvironmentTypes ==
    ASSUME TypeInv,
           \/ \E r \in Requests : Mine(r) \/ Replace(r)
           \/ \E v \in Voters : Age(v)
           \/ EndTime \/ SealElection \/ Crash
    PROVE  TypeInv'
<1> USE VoteRecordingAssumption DEF TypeInv, TypeOK, chainVars, dbVars, TxStates
<1>1. ASSUME NEW r \in Requests, Mine(r) \/ Replace(r)
      PROVE  TypeInv'
  <2>1. VoterOf[r] \in Voters /\ ChoiceOf[r] \in Candidates
    OBVIOUS
  <2>2. UNCHANGED <<over, pc, attempt, participations, audit, job, crashes>>
    BY <1>1 DEF Mine, Replace
  <2>3. /\ cast' \in [Voters -> Candidates \cup {None}]
        /\ sealed' \in BOOLEAN
        /\ tx' \in [Requests -> TxStates]
    BY <1>1, <2>1 DEF Mine, Replace, Executes, Contract!Cast
  <2>4. JobAtWork'
    BY <2>2 DEF JobAtWork
  <2> QED
    BY <2>2, <2>3, <2>4
<1>2. ASSUME NEW v \in Voters, Age(v)
      PROVE  TypeInv'
  <2>1. attempt[v] \in Row
    OBVIOUS
  <2>2. attempt' \in [Voters -> Row]
    BY <1>2, <2>1, RowEdits DEF Age
  <2>3. JobAtWork'
    BY <1>2 DEF Age, JobAtWork
  <2> QED
    BY <1>2, <2>2, <2>3 DEF Age
<1>3. CASE EndTime
  BY <1>3 DEF EndTime, JobAtWork
<1>4. CASE SealElection
  BY <1>4 DEF SealElection, Contract!Seal, JobAtWork
<1>5. CASE Crash
  <2>1. job' \in [Jobs -> JobState]
    BY <1>5 DEF Crash, IdleJob, JobState
  <2>2. JobAtWork'
    BY <1>5 DEF Crash, IdleJob, JobAtWork, AtWork
  <2>3. crashes' \in 0..MaxCrashes
    BY <1>5 DEF Crash
  <2>4. pc' \in [Requests -> {"idle"} \cup Running \cup Replies]
    BY <1>5 DEF Crash, Replies
  <2> QED
    BY <1>5, <2>1, <2>2, <2>3, <2>4 DEF Crash
<1> QED
  BY <1>1, <1>2, <1>3, <1>4, <1>5

(* The cleanup job.                                                        *)
LEMMA JobTypes ==
    ASSUME TypeInv, NEW j \in Jobs, JobStep(j)
    PROVE  TypeInv'
<1> USE VoteRecordingAssumption DEF TypeInv, TypeOK, chainVars, dbVars
<1>1. job[j] \in JobState
  OBVIOUS
<1>2. ASSUME JobLeaves(j)
      PROVE  job' \in [Jobs -> JobState] /\ JobAtWork'
  <2>1. JobAtWork'
    BY <1>2, JobLeavesTypes DEF JobAtWork, AtWork
  <2> QED
    BY <1>2, <2>1, JobLeavesTypes
<1>3. ASSUME JobGoes(j, "fail"), job[j].pc \in AtWork
      PROVE  job' \in [Jobs -> JobState] /\ JobAtWork'
  <2>1. /\ job' \in [Jobs -> JobState]
        /\ \A k \in Jobs \ {j} : job'[k] = job[k]
        /\ job'[j].pc = "fail" /\ job'[j].at = job[j].at
    BY <1>3, JobGoesTypes
  <2>2. JobAtWork'
    BY <1>3, <2>1 DEF JobAtWork, AtWork
  <2> QED
    BY <2>1, <2>2
<1>4. CASE JobStart(j)
  <2> DEFINE picked == {[voter |-> v, id |-> attempt[v].id, tx |-> attempt[v].tx] : v \in Stale}
             new == [job[j] EXCEPT !.pc = "next", !.todo = picked]
  <2>1. picked \subseteq Selected
    BY DEF Stale, Selected, Row
  <2> HIDE DEF picked
  <2>2. new \in JobState /\ new.pc = "next"
    BY <1>1, <2>1 DEF JobState
  <2>3. job' = [job EXCEPT ![j] = new]
    BY <1>4 DEF JobStart, picked
  <2> HIDE DEF new
  <2>4. job' \in [Jobs -> JobState] /\ JobAtWork'
    BY <2>2, <2>3 DEF JobAtWork, AtWork
  <2> QED
    BY <1>4, <2>4 DEF JobStart
<1>5. ASSUME NEW a \in job[j].todo, JobScan(j, a)
      PROVE  TypeInv'
  <2> DEFINE new == [todo |-> job[j].todo \ {a}, vote |-> cast[a.voter],
                     at |-> IF cast[a.voter] = None /\ a.tx = None THEN None ELSE a,
                     pc |-> IF cast[a.voter] # None THEN "record"
                            ELSE IF a.tx # None THEN "receipt" ELSE "next"]
  <2>1. a \in Selected
    BY <1>1 DEF JobState
  <2>2. a.voter \in Voters /\ a.tx \in Requests \cup {None}
    BY <2>1 DEF Selected
  <2>3. cast[a.voter] \in Candidates \cup {None}
    BY <2>2
  <2>4. new \in JobState
    BY <1>1, <2>1, <2>3 DEF JobState
  <2>5. /\ new.pc \in AtWork => new.at \in Selected
        /\ new.pc \in {"receipt", "nonce"} => new.at.tx \in Requests
        /\ new.pc = "record" => new.vote \in Candidates
    BY <2>1, <2>2, <2>3 DEF AtWork
  <2>6. job' = [job EXCEPT ![j] = new]
    BY <1>5 DEF JobScan
  <2> HIDE DEF new
  <2>7. job' \in [Jobs -> JobState] /\ JobAtWork'
    BY <2>4, <2>5, <2>6 DEF JobAtWork
  <2> QED
    BY <1>5, <2>7 DEF JobScan
<1>6. CASE JobReceipt(j)
  <2>1. ASSUME JobGoes(j, "nonce"), job[j].pc = "receipt"
        PROVE  job' \in [Jobs -> JobState] /\ JobAtWork'
    <3>1. /\ job' \in [Jobs -> JobState]
          /\ \A k \in Jobs \ {j} : job'[k] = job[k]
          /\ job'[j].pc = "nonce" /\ job'[j].at = job[j].at
      BY <2>1, JobGoesTypes
    <3>2. JobAtWork'
      BY <2>1, <3>1 DEF JobAtWork, AtWork
    <3> QED
      BY <3>1, <3>2
  <2>2. job' \in [Jobs -> JobState] /\ JobAtWork'
    BY <1>2, <1>3, <1>6, <2>1 DEF JobReceipt, AtWork
  <2> QED
    BY <1>6, <2>2 DEF JobReceipt
<1>7. CASE JobNonce(j)
  <2>1. job' \in [Jobs -> JobState] /\ JobAtWork'
    BY <1>2, <1>3, <1>7 DEF JobNonce, AtWork
  <2> QED
    BY <1>7, <2>1 DEF JobNonce
<1>8. CASE JobRecord(j)
  <2>1. job[j].at \in Selected /\ job[j].vote \in Candidates
    BY <1>8 DEF JobRecord, JobAtWork, AtWork
  <2>2. job[j].at.voter \in Voters
    BY <2>1 DEF Selected
  <2>3. /\ attempt' \in [Voters -> Row]
        /\ participations' \subseteq Voters
        /\ audit' \in [Voters -> Candidates \cup {None}]
    BY <1>8, <2>1, <2>2, NoRowIsRow DEF JobRecord, RecordConfirmedVote
  <2> QED
    BY <1>2, <1>8, <2>3 DEF JobRecord
<1>9. CASE JobFail(j)
  <2>1. job[j].at.voter \in Voters
    BY <1>9 DEF JobFail, JobAtWork, AtWork, Selected
  <2>2. attempt[job[j].at.voter] \in Row
    BY <2>1
  <2>3. attempt' \in [Voters -> Row]
    BY <1>9, <2>2, RowEdits DEF JobFail
  <2> QED
    BY <1>2, <1>9, <2>3 DEF JobFail
<1>10. CASE JobGivesUp(j)
  <2>1. ASSUME NEW a \in job[j].todo, job[j].pc = "next",
               job' = [job EXCEPT ![j].todo = @ \ {a}]
        PROVE  job' \in [Jobs -> JobState] /\ JobAtWork'
    <3> DEFINE new == [job[j] EXCEPT !.todo = job[j].todo \ {a}]
    <3>1. new \in JobState /\ new.pc = "next"
      BY <1>1, <2>1 DEF JobState
    <3>2. job' = [job EXCEPT ![j] = new]
      BY <2>1
    <3> HIDE DEF new
    <3> QED
      BY <3>1, <3>2 DEF JobAtWork, AtWork
  <2>2. job' \in [Jobs -> JobState] /\ JobAtWork'
    BY <1>2, <1>10, <2>1 DEF JobGivesUp
  <2> QED
    BY <1>10, <2>2 DEF JobGivesUp
<1>11. CASE JobExpire(j)
  <2>1. attempt' \in [Voters -> Row]
    BY <1>11, NoRowIsRow DEF JobExpire
  <2>2. /\ job' \in [Jobs -> JobState]
        /\ \A k \in Jobs \ {j} : job'[k] = job[k]
        /\ job'[j].pc = "idle"
    BY <1>11, JobGoesTypes DEF JobExpire
  <2>3. JobAtWork'
    BY <2>2 DEF JobAtWork, AtWork
  <2> QED
    BY <1>11, <2>1, <2>2, <2>3 DEF JobExpire
<1> QED
  BY <1>4, <1>5, <1>6, <1>7, <1>8, <1>9, <1>10, <1>11 DEF JobStep

LEMMA TypeStep == TypeInv /\ [Next]_vars => TypeInv'
<1> SUFFICES ASSUME TypeInv, [Next]_vars PROVE TypeInv'
  OBVIOUS
<1>1. CASE UNCHANGED vars
  BY <1>1 DEF TypeInv, TypeOK, JobAtWork, vars, chainVars, dbVars
<1> QED
  BY <1>1, NextCases, HandlerTypes, EnvironmentTypes, JobTypes

(* Type correctness: in particular the job always knows which attempt it   *)
(* works on, whatever handlers and other runs did to the row meanwhile.    *)
THEOREM TypeCorrect == Spec => []TypeOK
<1>1. TypeInv => TypeOK
  BY DEF TypeInv
<1> QED
  BY <1>1, TypeInit, TypeStep, PTL DEF Spec

-----------------------------------------------------------------------------
(* The contract never changes a vote, and a transaction that counts is a   *)
(* vote of its request.                                                    *)
LEMMA CastSteps ==
    ASSUME TypeInv, [Next]_vars
    PROVE  /\ \A v \in Voters : cast[v] # None => cast'[v] = cast[v]
           /\ \A r \in Requests : tx'[r] = "ok" =>
                 tx[r] = "ok" \/ cast'[VoterOf[r]] = ChoiceOf[r]
           /\ \A r \in Requests : tx[r] = "ok" /\ pc[r] # "send" => tx'[r] = "ok"
<1> USE VoteRecordingAssumption DEF TypeInv, TypeOK
<1>1. ASSUME NEW r \in Requests, HandlerStep(r)
      PROVE  cast' = cast /\ (tx' = tx \/ (pc[r] = "send" /\ tx' = [tx EXCEPT ![r] = "mempool"]))
  BY <1>1 DEF HandlerStep, Begin, DemoVote, TakeLock, NoPort, Send, SendFails, AwaitReceipt,
         WaitTimesOut, NotePendingTx, RecordVote, Release, DbFails, chainVars
<1>2. ASSUME NEW r \in Requests, Mine(r) \/ Replace(r)
      PROVE  /\ \A v \in Voters : cast[v] # None => cast'[v] = cast[v]
             /\ \A s \in Requests : tx'[s] = "ok" =>
                   tx[s] = "ok" \/ cast'[VoterOf[s]] = ChoiceOf[s]
             /\ \A s \in Requests : tx[s] = "ok" => tx'[s] = "ok"
  BY <1>2 DEF Mine, Replace, Executes, Contract!Cast
<1>3. ASSUME \/ \E v \in Voters : Age(v)
             \/ \E j \in Jobs : JobStep(j)
             \/ EndTime \/ SealElection \/ Crash
             \/ UNCHANGED vars
      PROVE  cast' = cast /\ tx' = tx
  BY <1>3 DEF Age, JobStep, JobStart, JobScan, JobReceipt, JobNonce, JobRecord, JobFail,
         JobGivesUp, JobExpire, EndTime, SealElection, Contract!Seal, Crash, vars, chainVars
<1> QED
  BY <1>1, <1>2, <1>3, NextCases

(* What ties the database to the chain: a handler records after its own    *)
(* transaction counted, the job records what it found in the contract.     *)
ChainInv ==
    /\ \A r \in Requests : tx[r] = "ok" => cast[VoterOf[r]] = ChoiceOf[r]
    /\ \A r \in Requests : pc[r] = "record" => tx[r] = "ok"
    /\ \A r \in Requests : pc[r] = "demo" => VoterOf[r] \in DemoVoters
    /\ \A j \in Jobs : job[j].pc = "record" => job[j].vote = cast[job[j].at.voter]
    /\ AuditMatchesChain
    /\ ConfirmedIsCast

(* Recording a vote that is in the contract, or any vote of a              *)
(* demonstration account, keeps the tables in step with the chain.         *)
LEMMA RecordingMatches ==
    ASSUME TypeInv, AuditMatchesChain, cast' = cast,
           NEW v \in Voters, NEW c \in Candidates,
           v \in DemoVoters \/ c = cast[v],
           RecordConfirmedVote(v, c)
    PROVE  AuditMatchesChain'
<1> USE VoteRecordingAssumption DEF TypeInv, TypeOK, AuditMatchesChain, OnChainVoters
<1>1. CASE v \in participations
  BY <1>1 DEF RecordConfirmedVote
<1>2. CASE v \notin participations
  <2>1. audit' = [audit EXCEPT ![v] = c] /\ participations' = participations \cup {v}
    BY <1>2 DEF RecordConfirmedVote
  <2> QED
    BY <2>1
<1> QED
  BY <1>1, <1>2

LEMMA HandlerKeepsChain ==
    ASSUME TypeInv, ChainInv, NEW r \in Requests, HandlerStep(r)
    PROVE  ChainInv'
<1> USE VoteRecordingAssumption DEF TypeInv, TypeOK, chainVars, dbVars
<1>0. VoterOf[r] \in Voters /\ ChoiceOf[r] \in Candidates
  OBVIOUS
<1>1. job' = job /\ cast' = cast
  BY DEF HandlerStep, Begin, DemoVote, TakeLock, NoPort, Send, SendFails, AwaitReceipt,
         WaitTimesOut, NotePendingTx, RecordVote, Release, DbFails
<1>2. \A s \in Requests \ {r} : pc'[s] = pc[s] /\ tx'[s] = tx[s]
  BY DEF HandlerStep, Begin, DemoVote, TakeLock, NoPort, Send, SendFails, AwaitReceipt,
         WaitTimesOut, NotePendingTx, RecordVote, Release, DbFails
<1>3. /\ tx'[r] = "ok" => tx[r] = "ok"
      /\ pc'[r] = "record" => tx'[r] = "ok"
      /\ pc'[r] = "demo" => VoterOf[r] \in DemoVoters
      /\ pc'[r] = "confirmed" => \/ pc[r] = "confirmed"
                                \/ pc[r] = "demo"
                                \/ pc[r] = "record"
  BY DEF HandlerStep, Begin, DemoVote, TakeLock, NoPort, Send, SendFails, AwaitReceipt,
         WaitTimesOut, NotePendingTx, RecordVote, Release, DbFails, ChainInv
<1>4. AuditMatchesChain'
  <2>1. CASE DemoVote(r)
    <3>1. VoterOf[r] \in DemoVoters /\ RecordConfirmedVote(VoterOf[r], ChoiceOf[r])
      BY <2>1 DEF DemoVote, ChainInv
    <3> QED
      BY <1>0, <1>1, <3>1, RecordingMatches DEF ChainInv
  <2>2. CASE RecordVote(r)
    <3>1. cast[VoterOf[r]] = ChoiceOf[r] /\ RecordConfirmedVote(VoterOf[r], ChoiceOf[r])
      BY <2>2 DEF RecordVote, ChainInv
    <3> QED
      BY <1>0, <1>1, <3>1, RecordingMatches DEF ChainInv
  <2>3. CASE ~DemoVote(r) /\ ~RecordVote(r)
    <3>1. UNCHANGED <<audit, participations>>
      BY <2>3 DEF HandlerStep, Begin, TakeLock, NoPort, Send, SendFails, AwaitReceipt,
             WaitTimesOut, NotePendingTx, Release, DbFails
    <3> QED
      BY <1>1, <3>1 DEF ChainInv, AuditMatchesChain
  <2> QED
    BY <2>1, <2>2, <2>3
<1>5. ConfirmedIsCast'
  BY <1>1, <1>2, <1>3 DEF ConfirmedIsCast, ChainInv, OnChainVoters
<1> QED
  BY <1>1, <1>2, <1>3, <1>4, <1>5 DEF ChainInv

LEMMA JobKeepsChain ==
    ASSUME TypeInv, ChainInv, NEW j \in Jobs, JobStep(j)
    PROVE  ChainInv'
<1> USE VoteRecordingAssumption DEF TypeInv, TypeOK, chainVars, dbVars
<1>1. UNCHANGED <<cast, tx, pc>>
  BY DEF JobStep, JobStart, JobScan, JobReceipt, JobNonce, JobRecord, JobFail,
         JobGivesUp, JobExpire
<1>2. \A k \in Jobs \ {j} : job'[k] = job[k]
  BY DEF JobStep, JobStart, JobScan, JobReceipt, JobNonce, JobRecord, JobFail,
         JobGivesUp, JobExpire, JobLeaves, JobGoes
<1>3. job'[j].pc = "record" => job'[j].vote = cast[job'[j].at.voter]
  <2>1. job[j] \in JobState
    OBVIOUS
  <2>2. ASSUME JobLeaves(j) PROVE job'[j].pc = "next"
    BY <2>2, JobLeavesTypes
  <2>3. ASSUME NEW where \in {"idle", "fail", "nonce"}, JobGoes(j, where)
        PROVE  job'[j].pc # "record"
    BY <2>3, JobGoesTypes
  <2>4. CASE JobStart(j)
    BY <2>1, <2>4 DEF JobStart, JobState
  <2>5. ASSUME NEW a \in job[j].todo, JobScan(j, a)
        PROVE  job'[j].pc = "record" => job'[j].vote = cast[job'[j].at.voter]
    BY <2>5 DEF JobScan
  <2>6. CASE JobReceipt(j) \/ JobNonce(j) \/ JobRecord(j) \/ JobFail(j) \/ JobExpire(j)
    BY <2>2, <2>3, <2>6 DEF JobReceipt, JobNonce, JobRecord, JobFail, JobExpire
  <2>7. CASE JobGivesUp(j)
    BY <2>1, <2>2, <2>7 DEF JobGivesUp, JobState
  <2> QED
    BY <2>4, <2>5, <2>6, <2>7 DEF JobStep
<1>4. AuditMatchesChain'
  <2>1. CASE JobRecord(j)
    <3>1. /\ job[j].at.voter \in Voters
          /\ job[j].vote \in Candidates
          /\ job[j].vote = cast[job[j].at.voter]
          /\ RecordConfirmedVote(job[j].at.voter, job[j].vote)
      BY <2>1 DEF JobRecord, ChainInv, JobAtWork, AtWork, Selected
    <3> QED
      BY <1>1, <3>1, RecordingMatches DEF ChainInv
  <2>2. CASE ~JobRecord(j)
    <3>1. UNCHANGED <<audit, participations>>
      BY <2>2 DEF JobStep, JobStart, JobScan, JobReceipt, JobNonce, JobFail,
             JobGivesUp, JobExpire
    <3> QED
      BY <1>1, <3>1 DEF ChainInv, AuditMatchesChain
  <2> QED
    BY <2>1, <2>2
<1> QED
  BY <1>1, <1>2, <1>3, <1>4 DEF ChainInv, ConfirmedIsCast

LEMMA ChainStep == TypeInv /\ ChainInv /\ [Next]_vars => ChainInv'
<1> SUFFICES ASSUME TypeInv, ChainInv, [Next]_vars PROVE ChainInv'
  OBVIOUS
<1> USE VoteRecordingAssumption DEF TypeInv, TypeOK, chainVars, dbVars
<1>1. ASSUME NEW r \in Requests, Mine(r) \/ Replace(r)
      PROVE  ChainInv'
  <2>1. UNCHANGED <<pc, audit, participations, job>>
    BY <1>1 DEF Mine, Replace
  <2>2. /\ \A v \in Voters : cast[v] # None => cast'[v] = cast[v]
        /\ \A s \in Requests : tx'[s] = "ok" =>
              tx[s] = "ok" \/ cast'[VoterOf[s]] = ChoiceOf[s]
        /\ \A s \in Requests : tx[s] = "ok" /\ pc[s] # "send" => tx'[s] = "ok"
    BY CastSteps
  <2>3. AuditMatchesChain'
    BY <2>1, <2>2 DEF AuditMatchesChain, OnChainVoters, ChainInv
  <2>4. ConfirmedIsCast'
    BY <2>1, <2>2 DEF ConfirmedIsCast, OnChainVoters, ChainInv
  <2>5. \A j \in Jobs : job[j].pc = "record" => job[j].vote = cast'[job[j].at.voter]
    BY <2>2 DEF ChainInv, JobAtWork, AtWork, Selected
  <2>6. \A s \in Requests : tx'[s] = "ok" => cast'[VoterOf[s]] = ChoiceOf[s]
    BY <2>2 DEF ChainInv
  <2> QED
    BY <2>1, <2>2, <2>3, <2>4, <2>5, <2>6 DEF ChainInv
<1>2. CASE Crash
  <2>1. UNCHANGED <<cast, tx, audit, participations>>
    BY <1>2 DEF Crash
  <2>2. \A r \in Requests : pc'[r] = pc[r] \/ pc'[r] = "gone"
    BY <1>2 DEF Crash
  <2>3. \A j \in Jobs : job'[j].pc = "idle"
    BY <1>2 DEF Crash, IdleJob
  <2> QED
    BY <2>1, <2>2, <2>3 DEF ChainInv, AuditMatchesChain, ConfirmedIsCast
<1>3. ASSUME (\E v \in Voters : Age(v)) \/ EndTime \/ SealElection \/ UNCHANGED vars
      PROVE  ChainInv'
  <2>1. UNCHANGED <<cast, tx, pc, audit, participations, job>>
    BY <1>3 DEF Age, EndTime, SealElection, Contract!Seal, vars
  <2> QED
    BY <2>1 DEF ChainInv, AuditMatchesChain, ConfirmedIsCast
<1> QED
  BY <1>1, <1>2, <1>3, NextCases, HandlerKeepsChain, JobKeepsChain

LEMMA ChainInit == Init => ChainInv
<1> SUFFICES ASSUME Init PROVE ChainInv
  OBVIOUS
<1> QED
  BY VoteRecordingAssumption
  DEF Init, Contract!Init, IdleJob, ChainInv, AuditMatchesChain, ConfirmedIsCast, OnChainVoters

(* Whatever fails, whenever the server restarts and however often a voter  *)
(* retries: a counted vote is the voter's ballot in the contract, the      *)
(* participations are exactly the counted voters, and a voter told         *)
(* "confirmed" has that choice in the contract.                            *)
THEOREM CountMatchesChain == Spec => [](AuditMatchesChain /\ ConfirmedIsCast)
<1>1. ChainInv => AuditMatchesChain /\ ConfirmedIsCast
  BY DEF ChainInv
<1> QED
  BY <1>1, TypeInit, TypeStep, ChainInit, ChainStep, PTL DEF Spec

-----------------------------------------------------------------------------
(* One more vote recorded puts a ballot in the box, or none.               *)
LEMMA RecordingCasts ==
    ASSUME TypeInv, AuditMatchesChain, NEW v \in Voters, NEW c \in Candidates,
           RecordConfirmedVote(v, c)
    PROVE  [Recorded!Next]_(Recorded!vars)
<1> USE VoteRecordingAssumption DEF TypeInv, TypeOK
<1>1. CASE v \in participations
  BY <1>1 DEF RecordConfirmedVote, Recorded!vars
<1>2. CASE v \notin participations
  <2>1. audit[v] = None
    BY <1>2 DEF AuditMatchesChain
  <2>2. Recorded!Cast(v, c)
    BY <1>2, <2>1 DEF RecordConfirmedVote, Recorded!Cast
  <2> QED
    BY <2>2 DEF Recorded!Next
<1> QED
  BY <1>1, <1>2

(* The counted votes are a ballot box: whoever records, handler, retry or  *)
(* run of the job, nobody is counted twice and no counted vote changes.    *)
THEOREM CountedVotesAreABallotBox == Spec => RecordedIsBallotBox
<1>1. Init => Recorded!Init
  BY DEF Init, Recorded!Init
<1>2. TypeInv /\ ChainInv /\ [Next]_vars => [Recorded!Next]_(Recorded!vars)
  <2> SUFFICES ASSUME TypeInv, ChainInv, [Next]_vars
               PROVE  [Recorded!Next]_(Recorded!vars)
    OBVIOUS
  <2> USE VoteRecordingAssumption DEF TypeInv, TypeOK, chainVars, dbVars
  <2>1. ASSUME NEW r \in Requests, HandlerStep(r)
        PROVE  [Recorded!Next]_(Recorded!vars)
    <3>1. VoterOf[r] \in Voters /\ ChoiceOf[r] \in Candidates
      OBVIOUS
    <3>2. CASE DemoVote(r) \/ RecordVote(r)
      BY <3>1, <3>2, RecordingCasts DEF DemoVote, RecordVote, ChainInv
    <3>3. CASE ~DemoVote(r) /\ ~RecordVote(r)
      BY <2>1, <3>3
      DEF HandlerStep, Begin, TakeLock, NoPort, Send, SendFails, AwaitReceipt,
          WaitTimesOut, NotePendingTx, Release, DbFails, Recorded!vars
    <3> QED
      BY <3>2, <3>3
  <2>2. ASSUME NEW j \in Jobs, JobStep(j)
        PROVE  [Recorded!Next]_(Recorded!vars)
    <3>1. CASE JobRecord(j)
      <4>1. /\ job[j].at.voter \in Voters
            /\ job[j].vote \in Candidates
            /\ RecordConfirmedVote(job[j].at.voter, job[j].vote)
        BY <3>1 DEF JobRecord, JobAtWork, AtWork, Selected
      <4> QED
        BY <4>1, RecordingCasts DEF ChainInv
    <3>2. CASE ~JobRecord(j)
      BY <2>2, <3>2
      DEF JobStep, JobStart, JobScan, JobReceipt, JobNonce, JobFail, JobGivesUp,
          JobExpire, Recorded!vars
    <3> QED
      BY <3>1, <3>2
  <2>3. ASSUME \/ \E r \in Requests : Mine(r) \/ Replace(r)
               \/ \E v \in Voters : Age(v)
               \/ EndTime \/ SealElection \/ Crash
               \/ UNCHANGED vars
        PROVE  UNCHANGED audit
    BY <2>3 DEF Mine, Replace, Age, EndTime, SealElection, Crash, vars
  <2> QED
    BY <2>1, <2>2, <2>3, NextCases DEF Recorded!vars
<1> QED
  BY <1>1, <1>2, TypeInit, TypeStep, ChainInit, ChainStep, PTL
  DEF Spec, RecordedIsBallotBox, Recorded!Spec

-----------------------------------------------------------------------------
(* The lock. A request past the lock holds the row of its voter, and the   *)
(* row is young; what the job selected is old and stays as it is until the *)
(* job comes to it. Demonstration accounts never have a row.               *)
HasRow(r) == /\ attempt[VoterOf[r]].status = "pending"
             /\ attempt[VoterOf[r]].holder = r
             /\ attempt[VoterOf[r]].age = "new"

InHand(j) == job[j].todo \cup (IF job[j].pc \in AtWork THEN {job[j].at} ELSE {})

LockInv ==
    /\ \A r \in Requests : pc[r] \in PastLock => HasRow(r)
    /\ \A r \in Requests : pc[r] = "demo" => VoterOf[r] \in DemoVoters
    /\ \A r \in Requests : pc[r] \in PastLock \cup {"lock"} => VoterOf[r] \notin DemoVoters
    /\ \A v \in DemoVoters : attempt[v].status = "none"
    /\ \A j \in Jobs :
         /\ \A a \in InHand(j) :
               attempt[a.voter].status = "pending" /\ attempt[a.voter].age # "new"
         /\ \A a, b \in InHand(j) : a.voter = b.voter => a = b
         /\ job[j].pc \in AtWork => job[j].at \notin job[j].todo

(* Runs of the job do not overlap.                                         *)
OneJob == \A j, k \in Jobs : j = k

LEMMA HandlerKeepsLock ==
    ASSUME TypeInv, LockInv, NEW r \in Requests, HandlerStep(r)
    PROVE  LockInv'
<1> USE VoteRecordingAssumption DEF TypeInv, TypeOK, chainVars, dbVars, Running, Replies
<1> DEFINE v == VoterOf[r]
<1>0. v \in Voters
  OBVIOUS
<1>1. job' = job
  BY DEF HandlerStep, Begin, DemoVote, TakeLock, NoPort, Send, SendFails, AwaitReceipt,
         WaitTimesOut, NotePendingTx, RecordVote, Release, DbFails
<1>2. \A s \in Requests \ {r} : pc'[s] = pc[s]
  BY DEF HandlerStep, Begin, DemoVote, TakeLock, NoPort, Send, SendFails, AwaitReceipt,
         WaitTimesOut, NotePendingTx, RecordVote, Release, DbFails
<1>3. \A u \in Voters \ {v} : attempt'[u] = attempt[u]
  BY DEF HandlerStep, Begin, DemoVote, TakeLock, NoPort, Send, SendFails, AwaitReceipt,
         WaitTimesOut, NotePendingTx, RecordVote, Release, DbFails,
         AcquireVoteLock, ReleaseVoteLock, RecordPendingTx, RecordConfirmedVote
(* A handler that gets at its row is past the lock, or takes a free row.   *)
<1>4. attempt'[v] = attempt[v] \/ attempt[v].status \in {"none", "failed"} \/ pc[r] \in PastLock
  BY DEF HandlerStep, Begin, DemoVote, TakeLock, NoPort, Send, SendFails, AwaitReceipt,
         WaitTimesOut, NotePendingTx, RecordVote, Release, DbFails,
         AcquireVoteLock, PastLock, LockInv
<1>5. pc'[r] \in PastLock => HasRow(r)'
  <2>1. CASE TakeLock(r)
    BY <2>1 DEF TakeLock, AcquireVoteLock, HasRow, PastLock
  <2>2. CASE NotePendingTx(r) \/ RecordVote(r) \/ Release(r) \/ DemoVote(r) \/ DbFails(r)
    BY <2>2 DEF NotePendingTx, RecordVote, Release, DemoVote, DbFails, PastLock
  <2>3. CASE Begin(r) \/ NoPort(r) \/ Send(r) \/ SendFails(r) \/ AwaitReceipt(r) \/ WaitTimesOut(r)
    BY <2>3 DEF Begin, NoPort, Send, SendFails, AwaitReceipt, WaitTimesOut, PastLock,
                LockInv, HasRow
  <2> QED
    BY <2>1, <2>2, <2>3 DEF HandlerStep
<1>6. \A s \in Requests \ {r} : pc'[s] \in PastLock => HasRow(s)'
  <2> SUFFICES ASSUME NEW s \in Requests \ {r}, pc[s] \in PastLock
               PROVE  HasRow(s)'
    BY <1>2
  <2>1. HasRow(s)
    BY DEF LockInv
  <2>2. CASE VoterOf[s] = v
    <3>1. pc[r] \notin PastLock
      BY <2>1, <2>2 DEF LockInv, HasRow
    <3>2. attempt'[v] = attempt[v]
      BY <1>4, <2>1, <2>2, <3>1 DEF HasRow
    <3> QED
      BY <2>1, <2>2, <3>2 DEF HasRow
  <2>3. CASE VoterOf[s] # v
    BY <1>3, <2>1, <2>3 DEF HasRow
  <2> QED
    BY <2>2, <2>3
<1>7. /\ pc'[r] = "demo" => v \in DemoVoters
      /\ pc'[r] \in PastLock \cup {"lock"} => v \notin DemoVoters
  BY DEF HandlerStep, Begin, DemoVote, TakeLock, NoPort, Send, SendFails, AwaitReceipt,
         WaitTimesOut, NotePendingTx, RecordVote, Release, DbFails, LockInv, PastLock
<1>8. v \in DemoVoters => attempt'[v].status = "none"
  BY DEF HandlerStep, Begin, DemoVote, TakeLock, NoPort, Send, SendFails, AwaitReceipt,
         WaitTimesOut, NotePendingTx, RecordVote, Release, DbFails, LockInv, PastLock,
         RecordConfirmedVote, NoRow
<1>9. ASSUME NEW j \in Jobs, NEW a \in InHand(j)
      PROVE  attempt'[a.voter] = attempt[a.voter]
  <2>1. attempt[a.voter].status = "pending" /\ attempt[a.voter].age # "new"
    BY <1>9 DEF LockInv
  <2>2. a.voter \in Voters
    BY <1>9 DEF InHand, JobAtWork, JobState, Selected
  <2>3. CASE a.voter = v
    BY <1>4, <2>1, <2>3 DEF LockInv, HasRow
  <2> QED
    BY <1>3, <2>2, <2>3
<1>10. \A j \in Jobs : InHand(j)' = InHand(j)
  BY <1>1 DEF InHand
<1>11. \A u \in DemoVoters : attempt'[u].status = "none"
  BY <1>3, <1>8 DEF LockInv
<1> HIDE DEF v
<1>12. \A s \in Requests : /\ pc'[s] \in PastLock => HasRow(s)'
                           /\ pc'[s] = "demo" => VoterOf[s] \in DemoVoters
                           /\ pc'[s] \in PastLock \cup {"lock"} => VoterOf[s] \notin DemoVoters
  BY <1>2, <1>5, <1>6, <1>7 DEF LockInv, v
<1> QED
  BY <1>1, <1>9, <1>10, <1>11, <1>12 DEF LockInv

(* A step of the job that touches no row and takes nothing else in hand.   *)
LEMMA JobNarrows ==
    ASSUME TypeInv, LockInv, NEW j \in Jobs,
           UNCHANGED <<pc, attempt>>,
           \A k \in Jobs \ {j} : job'[k] = job[k],
           InHand(j)' \subseteq InHand(j),
           job'[j].pc \in AtWork => job'[j].at \notin job'[j].todo
    PROVE  LockInv'
<1>1. \A k \in Jobs : /\ InHand(k)' \subseteq InHand(k)
                      /\ job'[k].pc \in AtWork => job'[k].at \notin job'[k].todo
  BY DEF InHand, LockInv
<1>2. \A r \in Requests : HasRow(r)' = HasRow(r)
  BY DEF HasRow
<1> QED
  BY <1>1, <1>2 DEF LockInv

(* The row under hand is let go, whatever is done to it.                   *)
LEMMA JobLetsGo ==
    ASSUME TypeInv, LockInv, OneJob, NEW j \in Jobs, job[j].pc \in AtWork,
           JobLeaves(j), pc' = pc,
           \A v \in Voters \ {job[j].at.voter} : attempt'[v] = attempt[v]
    PROVE  LockInv'
<1> USE VoteRecordingAssumption DEF TypeInv, TypeOK
<1> DEFINE a == job[j].at
<1>1. a \in Selected /\ a \in InHand(j) /\ a \notin job[j].todo
  BY DEF JobAtWork, InHand, LockInv
<1>2. a.voter \in Voters
  BY <1>1 DEF Selected
<1>3. attempt[a.voter].status = "pending" /\ attempt[a.voter].age # "new"
  BY <1>1 DEF LockInv
<1>4. InHand(j)' = job[j].todo /\ job'[j].pc \notin AtWork
  BY JobLeavesTypes DEF InHand, AtWork
<1>5. \A b \in job[j].todo : b \in InHand(j) /\ b.voter \in Voters \ {a.voter}
  BY <1>1 DEF InHand, LockInv, JobState, Selected
<1>6. \A r \in Requests : pc[r] \in PastLock => HasRow(r)'
  BY <1>3 DEF LockInv, HasRow
<1>7. a.voter \notin DemoVoters
  BY <1>3 DEF LockInv
<1>8. \A v \in DemoVoters : attempt'[v].status = "none"
  BY <1>7 DEF LockInv
<1>9. \A k \in Jobs : k = j
  BY DEF OneJob
<1>10. /\ \A b \in job[j].todo :
             attempt'[b.voter].status = "pending" /\ attempt'[b.voter].age # "new"
       /\ \A b, c \in job[j].todo : b.voter = c.voter => b = c
  BY <1>5 DEF LockInv
<1> HIDE DEF a
<1> QED
  BY <1>4, <1>6, <1>8, <1>9, <1>10 DEF LockInv

LEMMA JobKeepsLock ==
    ASSUME TypeInv, LockInv, OneJob, NEW j \in Jobs, JobStep(j)
    PROVE  LockInv'
<1> USE VoteRecordingAssumption DEF TypeInv, TypeOK, chainVars, dbVars
<1>1. job[j] \in JobState
  OBVIOUS
<1>2. \A k \in Jobs \ {j} : job'[k] = job[k]
  BY DEF OneJob
<1>3. pc' = pc
  BY DEF JobStep, JobStart, JobScan, JobReceipt, JobNonce, JobRecord, JobFail,
         JobGivesUp, JobExpire
<1>4. ASSUME JobLeaves(j), attempt' = attempt
      PROVE  LockInv'
  <2>1. InHand(j)' \subseteq InHand(j) /\ job'[j].pc \notin AtWork
    BY <1>4, JobLeavesTypes DEF InHand, AtWork
  <2> QED
    BY <1>2, <1>3, <1>4, <2>1, JobNarrows
<1>5. ASSUME NEW where \in {"nonce", "fail"}, JobGoes(j, where),
             job[j].pc \in AtWork, attempt' = attempt
      PROVE  LockInv'
  <2>1. InHand(j)' = InHand(j) /\ job'[j].at = job[j].at /\ job'[j].todo = job[j].todo
    BY <1>5, JobGoesTypes DEF InHand, AtWork
  <2> QED
    BY <1>2, <1>3, <1>5, <2>1, JobNarrows DEF LockInv
<1>6. CASE JobStart(j)
  <2> DEFINE picked == {[voter |-> v, id |-> attempt[v].id, tx |-> attempt[v].tx] : v \in Stale}
  <2>1. /\ \A a \in picked : attempt[a.voter].status = "pending" /\ attempt[a.voter].age # "new"
        /\ \A a, b \in picked : a.voter = b.voter => a = b
    BY DEF Stale
  <2>2. job'[j].todo = picked /\ job'[j].pc = "next" /\ attempt' = attempt
    BY <1>1, <1>6 DEF JobStart, JobState
  <2> HIDE DEF picked
  <2>3. InHand(j)' = picked
    BY <2>2 DEF InHand, AtWork
  <2>4. \A k \in Jobs : k = j
    BY DEF OneJob
  <2>5. \A r \in Requests : HasRow(r)' = HasRow(r)
    BY <2>2 DEF HasRow
  <2> QED
    BY <1>3, <2>1, <2>2, <2>3, <2>4, <2>5 DEF LockInv, AtWork
<1>7. ASSUME NEW a \in job[j].todo, JobScan(j, a)
      PROVE  LockInv'
  <2> DEFINE new == [todo |-> job[j].todo \ {a}, vote |-> cast[a.voter],
                     at |-> IF cast[a.voter] = None /\ a.tx = None THEN None ELSE a,
                     pc |-> IF cast[a.voter] # None THEN "record"
                            ELSE IF a.tx # None THEN "receipt" ELSE "next"]
  <2>1. new.todo = job[j].todo \ {a} /\ (new.pc \in AtWork => new.at = a)
    BY DEF AtWork
  <2>2. job' = [job EXCEPT ![j] = new] /\ attempt' = attempt
    BY <1>7 DEF JobScan
  <2> HIDE DEF new
  <2>3. InHand(j)' \subseteq InHand(j) /\ (job'[j].pc \in AtWork => job'[j].at \notin job'[j].todo)
    BY <2>1, <2>2 DEF InHand
  <2> QED
    BY <1>2, <1>3, <2>2, <2>3, JobNarrows
<1>8. CASE JobReceipt(j) \/ JobNonce(j)
  BY <1>4, <1>5, <1>8 DEF JobReceipt, JobNonce, AtWork
<1>9. CASE JobRecord(j)
  BY <1>3, <1>9, JobLetsGo DEF JobRecord, RecordConfirmedVote, AtWork
<1>10. CASE JobFail(j)
  BY <1>3, <1>10, JobLetsGo DEF JobFail, AtWork
<1>11. CASE JobGivesUp(j)
  <2>1. ASSUME NEW a \in job[j].todo, job[j].pc = "next",
               job' = [job EXCEPT ![j].todo = @ \ {a}]
        PROVE  InHand(j)' \subseteq InHand(j) /\ job'[j].pc \notin AtWork
    BY <1>1, <2>1 DEF InHand, AtWork, JobState
  <2> QED
    BY <1>2, <1>3, <1>4, <1>11, <2>1, JobNarrows DEF JobGivesUp
<1>12. CASE JobExpire(j)
  <2>1. InHand(j)' = {} /\ job'[j].pc \notin AtWork
    BY <1>12, JobGoesTypes DEF JobExpire, InHand, AtWork
  <2>2. \A v \in Voters : \/ attempt'[v] = attempt[v]
                          \/ attempt[v].age = "expired" /\ attempt'[v] = NoRow
    BY <1>12 DEF JobExpire
  <2>3. \A r \in Requests : pc[r] \in PastLock => HasRow(r)'
    BY <2>2 DEF LockInv, HasRow
  <2>4. \A v \in DemoVoters : attempt'[v].status = "none"
    BY <2>2 DEF LockInv, NoRow
  <2>5. \A k \in Jobs : k = j
    BY DEF OneJob
  <2> QED
    BY <1>3, <2>1, <2>3, <2>4, <2>5 DEF LockInv
<1> QED
  BY <1>6, <1>7, <1>8, <1>9, <1>10, <1>11, <1>12 DEF JobStep

LEMMA LockStep ==
    ASSUME TypeInv, LockInv, OneJob, ~SlowHandlers, [Next]_vars
    PROVE  LockInv'
<1> USE VoteRecordingAssumption DEF TypeInv, TypeOK, chainVars, dbVars
<1>1. ASSUME UNCHANGED <<pc, attempt, job>>
      PROVE  LockInv'
  BY <1>1 DEF LockInv, HasRow, InHand
<1>2. ASSUME NEW v \in Voters, Age(v)
      PROVE  LockInv'
  <2>1. /\ \A u \in Voters \ {v} : attempt'[u] = attempt[u]
        /\ attempt'[v].status = attempt[v].status
        /\ attempt'[v].age # "new"
    BY <1>2 DEF Age, Row
  <2>2. \A r \in Requests : pc[r] \in PastLock => VoterOf[r] # v
    BY <1>2 DEF Age, PastLock, Running
  <2>3. UNCHANGED <<pc, job>>
    BY <1>2 DEF Age
  <2>4. \A r \in Requests : pc[r] \in PastLock => HasRow(r)'
    BY <2>1, <2>2 DEF LockInv, HasRow
  <2>5. \A j \in Jobs : InHand(j)' = InHand(j) /\ \A a \in InHand(j) : a.voter \in Voters
    BY <2>3 DEF InHand, JobAtWork, JobState, Selected
  <2>6. \A j \in Jobs : \A a \in InHand(j) :
           attempt'[a.voter].status = "pending" /\ attempt'[a.voter].age # "new"
    BY <2>1, <2>5 DEF LockInv
  <2>7. \A u \in DemoVoters : attempt'[u].status = "none"
    BY <2>1 DEF LockInv
  <2> QED
    BY <2>3, <2>4, <2>5, <2>6, <2>7 DEF LockInv
<1>3. CASE Crash
  <2>1. attempt' = attempt
    BY <1>3 DEF Crash
  <2>2. \A r \in Requests : /\ pc'[r] \notin PastLock /\ pc'[r] # "demo"
                            /\ pc'[r] = "lock" => pc[r] = "lock"
    BY <1>3 DEF Crash, PastLock, Running
  <2>3. \A j \in Jobs : InHand(j)' = {} /\ job'[j].pc \notin AtWork
    BY <1>3 DEF Crash, IdleJob, InHand, AtWork
  <2> QED
    BY <2>1, <2>2, <2>3 DEF LockInv, PastLock
<1>4. ASSUME \/ \E r \in Requests : Mine(r) \/ Replace(r)
             \/ EndTime \/ SealElection \/ UNCHANGED vars
      PROVE  UNCHANGED <<pc, attempt, job>>
  BY <1>4 DEF Mine, Replace, EndTime, SealElection, vars
<1> QED
  BY <1>1, <1>2, <1>3, <1>4, NextCases, HandlerKeepsLock, JobKeepsLock

(* The lock does its work. Whatever fails and however often the server     *)
(* restarts, at most one request of a voter is between taking the lock and *)
(* replying, if runs of the job do not overlap and no handler outlives the *)
(* 30 minutes after which the job takes its row for abandoned.             *)
THEOREM LockExcludes ==
    ASSUME OneJob, ~SlowHandlers
    PROVE  Spec => []OneSender
<1>1. ASSUME Init PROVE LockInv
  <2>1. \A r \in Requests : pc[r] \notin PastLock /\ pc[r] # "lock" /\ pc[r] # "demo"
    BY <1>1 DEF Init, PastLock
  <2>2. \A v \in DemoVoters : attempt[v].status = "none"
    BY <1>1, VoteRecordingAssumption DEF Init, NoRow
  <2>3. \A j \in Jobs : InHand(j) = {} /\ job[j].pc \notin AtWork
    BY <1>1 DEF Init, IdleJob, InHand, AtWork
  <2> QED
    BY <2>1, <2>2, <2>3 DEF LockInv
<1>2. LockInv => OneSender
  BY DEF LockInv, HasRow, OneSender
<1>3. TypeInv /\ LockInv /\ [Next]_vars => LockInv'
  BY LockStep
<1> QED
  BY <1>1, <1>2, <1>3, TypeInit, TypeStep, PTL DEF Spec

-----------------------------------------------------------------------------
(* What the job may give up. Where a transaction reaches the server's      *)
(* knowledge or is not sent at all, a voter has one transaction on its way *)
(* at most, and that of the request that holds the lock; one reverts only  *)
(* when no vote of the voter can be accepted any more.                     *)
Tracked == Faults \subseteq {"db", "rpc", "noPort"}

(* No transaction of the voter is under way, and none can follow.          *)
Dead(v) == ~Accepts(v) /\ \A r \in Requests : VoterOf[r] = v => tx[r] # "mempool"

Holds(r) == attempt[VoterOf[r]].status = "pending" /\ attempt[VoterOf[r]].holder = r

TxTracked(r) ==
    /\ tx[r] # "replaced"
    /\ tx[r] = "mempool" => /\ pc[r] \in {"wait", "note", "pending", "gone"}
                            /\ cast[VoterOf[r]] = None
                            /\ VoterOf[r] \notin DemoVoters
                            /\ Holds(r)
    /\ tx[r] = "reverted" => Dead(VoterOf[r])
    /\ pc[r] \in PastLock => Holds(r) \/ Dead(VoterOf[r])
    /\ pc[r] \in PastLock \cup {"lock"} => VoterOf[r] \notin DemoVoters

OwnTx(v, t) == t # None => VoterOf[t] = v

RowTracked(v) ==
    /\ attempt[v].status = "pending" => attempt[v].age # "expired"
    /\ OwnTx(v, attempt[v].tx)

JobTracked(j) ==
    /\ \A a \in InHand(j) : OwnTx(a.voter, a.tx)
    /\ job[j].pc \in {"receipt", "nonce", "fail"} => cast[job[j].at.voter] = None
    /\ job[j].pc = "nonce" => tx[job[j].at.tx] = "mempool"
    /\ job[j].pc = "fail" => Dead(job[j].at.voter)

TrackInv ==
    /\ \A r \in Requests : TxTracked(r)
    /\ \A v \in Voters : RowTracked(v)
    /\ \A j \in Jobs : JobTracked(j)

(* Nothing on the chain moves.                                             *)
LEMMA DeadUnchanged ==
    ASSUME cast' = cast, sealed' = sealed, tx' = tx
    PROVE  \A v \in Voters : Dead(v)' = Dead(v)
BY DEF Dead, Accepts

LEMMA InHandTypes ==
    ASSUME TypeInv, NEW j \in Jobs
    PROVE  /\ \A a \in InHand(j) : a \in Selected /\ a.voter \in Voters /\ a.tx \in Requests \cup {None}
           /\ job[j].pc \in AtWork => job[j].at \in InHand(j)
BY DEF TypeInv, TypeOK, JobAtWork, JobState, InHand, Selected

(* The handlers, but for the step that sends.                              *)
LEMMA HandlerKeepsTrack ==
    ASSUME TypeInv, ChainInv, Tracked, TrackInv, NEW r \in Requests, HandlerStep(r), ~Send(r)
    PROVE  TrackInv'
<1> USE VoteRecordingAssumption DEF TypeInv, TypeOK, chainVars, dbVars
<1> DEFINE v == VoterOf[r]
<1>0. v \in Voters
  OBVIOUS
<1>1. job' = job /\ cast' = cast /\ sealed' = sealed /\ tx' = tx
  BY DEF HandlerStep, Begin, DemoVote, TakeLock, NoPort, SendFails, AwaitReceipt,
         WaitTimesOut, NotePendingTx, RecordVote, Release, DbFails
<1>2. \A s \in Requests \ {r} : pc'[s] = pc[s]
  BY DEF HandlerStep, Begin, DemoVote, TakeLock, NoPort, SendFails, AwaitReceipt,
         WaitTimesOut, NotePendingTx, RecordVote, Release, DbFails
<1>3. \A u \in Voters \ {v} : attempt'[u] = attempt[u]
  BY DEF HandlerStep, Begin, DemoVote, TakeLock, NoPort, SendFails, AwaitReceipt,
         WaitTimesOut, NotePendingTx, RecordVote, Release, DbFails,
         AcquireVoteLock, ReleaseVoteLock, RecordPendingTx, RecordConfirmedVote
<1>4. \A u \in Voters : Dead(u)' = Dead(u)
  BY <1>1, DeadUnchanged
<1>5. TxTracked(r) /\ RowTracked(v) /\ attempt[v] \in Row
  BY DEF TrackInv
(* What becomes of the row.                                                *)
<1>6. \/ attempt'[v] = attempt[v]
      \/ /\ attempt[v].status \in {"none", "failed"}
         /\ pc[r] = "lock" /\ pc'[r] = "send"
         /\ attempt'[v].status = "pending" /\ attempt'[v].holder = r
         /\ attempt'[v].age = "new" /\ attempt'[v].tx = attempt[v].tx
      \/ /\ attempt'[v].status = attempt[v].status /\ attempt'[v].holder = attempt[v].holder
         /\ attempt'[v].age = attempt[v].age /\ attempt'[v].tx = r
      \/ /\ attempt'[v].status = "failed" /\ pc[r] = "release" /\ pc'[r] = "error"
         /\ attempt'[v].tx = attempt[v].tx
      \/ /\ attempt'[v] = NoRow /\ pc'[r] = "confirmed"
         /\ cast[v] # None \/ v \in DemoVoters
  <2>1. CASE TakeLock(r)
    BY <1>0, <1>5, <2>1 DEF TakeLock, AcquireVoteLock, Row
  <2>2. CASE NotePendingTx(r)
    BY <1>0, <1>5, <2>2 DEF NotePendingTx, RecordPendingTx, Row
  <2>3. CASE Release(r)
    BY <1>0, <1>5, <2>3 DEF Release, ReleaseVoteLock, Row
  <2>4. CASE DemoVote(r) \/ RecordVote(r)
    <3>1. cast[v] # None \/ v \in DemoVoters
      BY <1>0, <2>4 DEF DemoVote, RecordVote, ChainInv
    <3> QED
      BY <1>0, <2>4, <3>1 DEF DemoVote, RecordVote, RecordConfirmedVote
  <2>5. CASE ~TakeLock(r) /\ ~NotePendingTx(r) /\ ~Release(r) /\ ~DemoVote(r) /\ ~RecordVote(r)
    BY <2>5 DEF HandlerStep, Begin, NoPort, SendFails, AwaitReceipt, WaitTimesOut, DbFails
  <2> QED
    BY <2>1, <2>2, <2>3, <2>4, <2>5
(* Where it goes.                                                          *)
<1>7. /\ tx[r] = "mempool" => pc'[r] \in {"wait", "note", "pending", "gone"}
      /\ pc'[r] \in PastLock => pc[r] \in PastLock \/ (pc[r] = "lock" /\ pc'[r] = "send" /\ Holds(r)')
      /\ pc'[r] \in PastLock \cup {"lock"} => v \notin DemoVoters
  <2>1. CASE TakeLock(r)
    BY <1>0, <1>5, <2>1 DEF TakeLock, AcquireVoteLock, Holds, PastLock, TxTracked
  <2>2. CASE ~TakeLock(r)
    BY <1>5, <2>2 DEF Tracked, HandlerStep, Begin, DemoVote, NoPort, SendFails, AwaitReceipt,
         WaitTimesOut, NotePendingTx, RecordVote, Release, DbFails, PastLock, TxTracked
  <2> QED
    BY <2>1, <2>2
<1> HIDE DEF v
(* A request whose hold on the row matters keeps it.                       *)
<1>8. ASSUME NEW s \in Requests, VoterOf[s] = v, tx[s] = "mempool"
      PROVE  Holds(s)'
  <2>1. TxTracked(s)
    BY DEF TrackInv
  <2>2. pc[r] = "release" => s # r /\ (Holds(r) \/ Dead(v))
    BY <1>5, <1>8, <2>1 DEF TxTracked, PastLock, v
  <2>3. Holds(s) /\ cast[v] = None /\ v \notin DemoVoters /\ ~Dead(v)
    BY <1>8, <2>1 DEF TxTracked, Dead, v
  <2>4. pc[r] # "release"
    BY <1>8, <2>2, <2>3 DEF Holds, v
  <2> QED
    BY <1>6, <1>8, <2>3, <2>4 DEF Holds, v
<1>9. ASSUME NEW s \in Requests, VoterOf[s] = v, s # r, pc[s] \in PastLock
      PROVE  Holds(s)' \/ Dead(v)
  <2>1. TxTracked(s)
    BY DEF TrackInv
  <2>2. Holds(s) \/ Dead(v)
    BY <1>9, <2>1 DEF TxTracked
  <2>3. v \notin DemoVoters
    BY <1>9, <2>1 DEF TxTracked, PastLock
  <2>4. ASSUME cast[v] # None PROVE Dead(v)
    BY <2>4 DEF Dead, Accepts, TrackInv, TxTracked
  <2>5. pc[r] = "release" => Holds(r) \/ Dead(v)
    BY <1>5 DEF TxTracked, PastLock, v
  <2> QED
    BY <1>6, <1>9, <2>2, <2>3, <2>4, <2>5 DEF Holds, v
<1>10. ASSUME pc[r] \in PastLock, pc'[r] \in PastLock
       PROVE  Holds(r)' \/ Dead(v)
  <2>1. Holds(r) \/ Dead(v)
    BY <1>5, <1>10 DEF TxTracked, v
  <2> QED
    BY <1>6, <1>10, <2>1 DEF Holds, v, PastLock
<1>11. ASSUME NEW s \in Requests, VoterOf[s] # v
       PROVE  Holds(s)' = Holds(s)
  BY <1>3, <1>11 DEF Holds
<1>12. ASSUME NEW s \in Requests
       PROVE  TxTracked(s)'
  <2>1. TxTracked(s) /\ VoterOf[s] \in Voters /\ Dead(VoterOf[s])' = Dead(VoterOf[s])
    BY <1>4 DEF TrackInv
  <2>2. CASE s = r
    BY <1>1, <1>5, <1>7, <1>8, <1>10, <2>1, <2>2 DEF TxTracked, v
  <2>3. CASE s # r
    <3>1. pc'[s] = pc[s]
      BY <1>2, <2>3
    <3>2. CASE VoterOf[s] = v
      BY <1>1, <1>8, <1>9, <2>1, <2>3, <3>1, <3>2 DEF TxTracked
    <3>3. CASE VoterOf[s] # v
      BY <1>1, <1>11, <2>1, <3>1, <3>3 DEF TxTracked
    <3> QED
      BY <3>2, <3>3
  <2> QED
    BY <2>2, <2>3
<1>13. ASSUME NEW u \in Voters
       PROVE  RowTracked(u)'
  <2>1. RowTracked(u)
    BY DEF TrackInv
  <2>2. CASE u = v
    BY <1>5, <1>6, <2>2 DEF RowTracked, OwnTx, v, NoRow
  <2>3. CASE u # v
    BY <1>3, <2>1, <2>3 DEF RowTracked
  <2> QED
    BY <2>2, <2>3
<1>14. ASSUME NEW j \in Jobs
       PROVE  JobTracked(j)'
  <2>1. JobTracked(j) /\ InHand(j)' = InHand(j)
    BY <1>1 DEF TrackInv, InHand
  <2>2. job[j].pc = "fail" => job[j].at.voter \in Voters
    BY InHandTypes DEF AtWork
  <2> QED
    BY <1>1, <1>4, <2>1, <2>2 DEF JobTracked
<1> QED
  BY <1>12, <1>13, <1>14 DEF TrackInv

(* A vote is sent: it holds the lock, and is the only one.                 *)
LEMMA SendKeepsTrack ==
    ASSUME TypeInv, ChainInv, Tracked, TrackInv, NEW r \in Requests, Send(r)
    PROVE  TrackInv'
<1> USE VoteRecordingAssumption DEF TypeInv, TypeOK, chainVars, dbVars
<1> DEFINE v == VoterOf[r]
<1>0. v \in Voters /\ TxTracked(r)
  BY DEF TrackInv
<1>1. /\ job' = job /\ cast' = cast /\ sealed' = sealed /\ attempt' = attempt
      /\ \A s \in Requests \ {r} : pc'[s] = pc[s] /\ tx'[s] = tx[s]
      /\ tx'[r] = "mempool" /\ pc'[r] = "wait" /\ pc[r] = "send"
      /\ Accepts(v)
  BY DEF Send, Tracked
<1>2. Holds(r) /\ v \notin DemoVoters /\ cast[v] = None
  BY <1>0, <1>1 DEF TxTracked, Dead, PastLock, Accepts
<1>3. \A s \in Requests : Holds(s)' = Holds(s)
  BY <1>1 DEF Holds
<1>4. \A u \in Voters : Dead(u) => u # v /\ Dead(u)'
  BY <1>1 DEF Dead, Accepts
<1> HIDE DEF v
<1>5. ASSUME NEW s \in Requests
      PROVE  TxTracked(s)'
  <2>1. CASE s = r
    BY <1>1, <1>2, <1>3, <2>1 DEF TxTracked, v
  <2>2. CASE s # r
    <3>1. TxTracked(s) /\ VoterOf[s] \in Voters
      BY DEF TrackInv
    <3> QED
      BY <1>1, <1>3, <1>4, <2>2, <3>1 DEF TxTracked
  <2> QED
    BY <2>1, <2>2
<1>6. \A u \in Voters : RowTracked(u)'
  BY <1>1 DEF TrackInv, RowTracked
<1>7. ASSUME NEW j \in Jobs
      PROVE  JobTracked(j)'
  <2>1. JobTracked(j) /\ InHand(j)' = InHand(j)
    BY <1>1 DEF TrackInv, InHand
  <2>2. job[j].pc \in AtWork => job[j].at.voter \in Voters
    BY InHandTypes
  <2>3. job[j].pc = "nonce" => job[j].at.tx \in Requests
    BY DEF JobAtWork
  <2> QED
    BY <1>1, <1>4, <2>1, <2>2, <2>3 DEF JobTracked, AtWork
<1> QED
  BY <1>5, <1>6, <1>7 DEF TrackInv

(* A transaction is mined: that of the lock, and no other is on its way.   *)
LEMMA MineKeepsTrack ==
    ASSUME TypeInv, ChainInv, Tracked, TrackInv, NEW r \in Requests, Mine(r) \/ Replace(r)
    PROVE  TrackInv'
<1> USE VoteRecordingAssumption DEF TypeInv, TypeOK, chainVars, dbVars
<1> DEFINE v == VoterOf[r]
<1>0. v \in Voters /\ TxTracked(r) /\ ChoiceOf[r] \in Candidates
  BY DEF TrackInv
<1>1. /\ tx[r] = "mempool" /\ UNCHANGED <<pc, attempt, job>>
      /\ \A s \in Requests \ {r} : tx'[s] = tx[s]
      /\ \A u \in Voters \ {v} : cast'[u] = cast[u]
      /\ sealed' = sealed
      /\ \/ tx'[r] = "ok" /\ cast'[v] # None
         \/ tx'[r] = "reverted" /\ cast'[v] = cast[v] /\ ~Accepts(v)
      /\ \A j \in Jobs : job[j].pc \notin {"receipt", "nonce"}
  BY <1>0 DEF Mine, Replace, Tracked, Executes, ChainMoves, Contract!Cast
<1>2. \A s \in Requests : VoterOf[s] = v /\ (tx[s] = "mempool" \/ Holds(s)) => s = r
  BY <1>0, <1>1 DEF TrackInv, TxTracked, Holds
<1>3. Dead(v)' /\ ~Dead(v)
  BY <1>0, <1>1, <1>2 DEF Dead, Accepts
<1>4. \A s \in Requests : Holds(s)' = Holds(s)
  BY <1>1 DEF Holds
<1>5. \A u \in Voters \ {v} : Dead(u) => Dead(u)'
  BY <1>1 DEF Dead, Accepts
<1> HIDE DEF v
<1>6. ASSUME NEW s \in Requests
      PROVE  TxTracked(s)'
  <2>1. TxTracked(s) /\ VoterOf[s] \in Voters
    BY DEF TrackInv
  <2>2. CASE VoterOf[s] = v
    <3>1. tx'[s] # "mempool" /\ tx'[s] # "replaced"
      BY <1>1, <1>2, <2>1, <2>2 DEF TxTracked
    <3> QED
      BY <1>1, <1>3, <2>1, <2>2, <3>1 DEF TxTracked
  <2>3. CASE VoterOf[s] # v
    <3>1. tx'[s] = tx[s] /\ cast'[VoterOf[s]] = cast[VoterOf[s]]
      BY <1>1, <2>1, <2>3 DEF v
    <3> QED
      BY <1>1, <1>4, <1>5, <2>1, <2>3, <3>1 DEF TxTracked
  <2> QED
    BY <2>2, <2>3
<1>7. \A u \in Voters : RowTracked(u)'
  BY <1>1 DEF TrackInv, RowTracked
<1>8. ASSUME NEW j \in Jobs
      PROVE  JobTracked(j)'
  <2>1. JobTracked(j) /\ InHand(j)' = InHand(j)
    BY <1>1 DEF TrackInv, InHand
  <2>2. job[j].pc \in AtWork => job[j].at.voter \in Voters
    BY InHandTypes
  <2> QED
    BY <1>1, <1>3, <1>5, <2>1, <2>2 DEF JobTracked, AtWork
<1> QED
  BY <1>6, <1>7, <1>8 DEF TrackInv

(* A step that moves neither requests nor the chain, and takes a row only  *)
(* from a voter who is dead.                                               *)
LEMMA RowsKeepTrack ==
    ASSUME TypeInv, TrackInv, UNCHANGED <<cast, sealed, tx, pc>>,
           \A v \in Voters : \/ /\ attempt[v].status = "pending" => attempt'[v].status = "pending"
                                /\ attempt'[v].holder = attempt[v].holder
                             \/ attempt[v].status # "pending"
                             \/ Dead(v)
    PROVE  \A r \in Requests : TxTracked(r)'
<1> USE VoteRecordingAssumption
<1> SUFFICES ASSUME NEW r \in Requests PROVE TxTracked(r)'
  OBVIOUS
<1>1. TxTracked(r) /\ VoterOf[r] \in Voters /\ Dead(VoterOf[r])' = Dead(VoterOf[r])
  BY DeadUnchanged DEF TrackInv
<1>2. Holds(r) => Holds(r)' \/ Dead(VoterOf[r])
  BY <1>1 DEF Holds
<1>3. tx[r] = "mempool" => ~Dead(VoterOf[r])
  BY DEF Dead
<1> QED
  BY <1>1, <1>2, <1>3 DEF TxTracked

(* The job: what it takes in hand, and that a reverted transaction is the  *)
(* end of its voter.                                                       *)
LEMMA JobKeepsTrack ==
    ASSUME TypeInv, ChainInv, Tracked, TrackInv, NEW j \in Jobs, JobStep(j)
    PROVE  TrackInv'
<1> USE VoteRecordingAssumption DEF TypeInv, TypeOK, chainVars, dbVars
<1>1. UNCHANGED <<cast, sealed, tx, pc>>
  BY DEF JobStep, JobStart, JobScan, JobReceipt, JobNonce, JobRecord, JobFail,
         JobGivesUp, JobExpire
<1>2. \A k \in Jobs \ {j} : job'[k] = job[k]
  BY DEF JobStep, JobStart, JobScan, JobReceipt, JobNonce, JobRecord, JobFail,
         JobGivesUp, JobExpire, JobLeaves, JobGoes
<1>3. \A v \in Voters : Dead(v)' = Dead(v)
  BY <1>1, DeadUnchanged
<1>4. ASSUME NEW k \in Jobs \ {j}
      PROVE  JobTracked(k)'
  <2>1. JobTracked(k) /\ InHand(k)' = InHand(k) /\ job'[k] = job[k]
    BY <1>2 DEF TrackInv, InHand
  <2>2. job[k].pc = "fail" => job[k].at.voter \in Voters
    BY InHandTypes DEF AtWork
  <2> QED
    BY <1>1, <1>3, <2>1, <2>2 DEF JobTracked
<1>5. JobTracked(j) /\ job[j] \in JobState
  BY DEF TrackInv
<1>6. ASSUME InHand(j)' \subseteq InHand(j), job'[j].pc \in {"idle", "next"}
      PROVE  JobTracked(j)'
  BY <1>5, <1>6 DEF JobTracked
<1>7. ASSUME JobLeaves(j)
      PROVE  JobTracked(j)'
  BY <1>6, <1>7, JobLeavesTypes DEF InHand, AtWork
<1>8. ASSUME attempt' = attempt, JobTracked(j)'
      PROVE  TrackInv'
  <2>1. \A r \in Requests : TxTracked(r)'
    BY <1>1, <1>8, RowsKeepTrack
  <2>2. \A v \in Voters : RowTracked(v)'
    BY <1>8 DEF TrackInv, RowTracked
  <2> QED
    BY <1>4, <1>8, <2>1, <2>2 DEF TrackInv
<1>9. CASE JobStart(j)
  <2> DEFINE picked == {[voter |-> v, id |-> attempt[v].id, tx |-> attempt[v].tx] : v \in Stale}
  <2>1. \A a \in picked : OwnTx(a.voter, a.tx)
    BY DEF Stale, TrackInv, RowTracked, OwnTx
  <2>2. job'[j].todo = picked /\ job'[j].pc = "next" /\ attempt' = attempt
    BY <1>5, <1>9 DEF JobStart, JobState
  <2> HIDE DEF picked
  <2>3. InHand(j)' = picked
    BY <2>2 DEF InHand, AtWork
  <2> QED
    BY <1>8, <2>1, <2>2, <2>3 DEF JobTracked
<1>10. ASSUME NEW a \in job[j].todo, JobScan(j, a)
       PROVE  TrackInv'
  <2> DEFINE new == [todo |-> job[j].todo \ {a}, vote |-> cast[a.voter],
                     at |-> IF cast[a.voter] = None /\ a.tx = None THEN None ELSE a,
                     pc |-> IF cast[a.voter] # None THEN "record"
                            ELSE IF a.tx # None THEN "receipt" ELSE "next"]
  <2>1. /\ new.todo = job[j].todo \ {a} /\ (new.pc \in AtWork => new.at = a)
        /\ new.pc \in {"record", "receipt", "next"}
        /\ new.pc = "receipt" => cast[a.voter] = None
    BY DEF AtWork
  <2>2. job' = [job EXCEPT ![j] = new] /\ attempt' = attempt
    BY <1>10 DEF JobScan
  <2> HIDE DEF new
  <2>3. InHand(j)' \subseteq InHand(j) /\ job'[j] = new
    BY <2>1, <2>2 DEF InHand
  <2>4. JobTracked(j)'
    BY <1>1, <1>5, <2>1, <2>3 DEF JobTracked, AtWork
  <2> QED
    BY <1>8, <2>2, <2>4
<1>11. ASSUME NEW where \in {"nonce", "fail"}, JobGoes(j, where), job[j].pc \in {"receipt", "nonce"},
              where = "nonce" => tx[job[j].at.tx] = "mempool",
              where = "fail" => Dead(job[j].at.voter)
       PROVE  JobTracked(j)'
  <2>1. /\ InHand(j)' = InHand(j) /\ job'[j].at = job[j].at /\ job'[j].pc = where
        /\ job[j].at.voter \in Voters
    BY <1>11, JobGoesTypes, InHandTypes DEF InHand, AtWork
  <2> QED
    BY <1>1, <1>3, <1>5, <1>11, <2>1 DEF JobTracked
<1>12. CASE JobReceipt(j)
  <2>1. /\ job[j].at \in InHand(j) /\ job[j].at.tx \in Requests
        /\ job[j].pc = "receipt" /\ attempt' = attempt
    BY <1>12 DEF JobReceipt, JobAtWork, InHand, AtWork
  <2>2. TxTracked(job[j].at.tx) /\ VoterOf[job[j].at.tx] = job[j].at.voter
    BY <1>5, <2>1 DEF TrackInv, JobTracked, OwnTx
  <2>3. /\ tx[job[j].at.tx] = "reverted" => Dead(job[j].at.voter)
        /\ tx[job[j].at.tx] # "replaced"
    BY <2>2 DEF TxTracked
  <2> QED
    BY <1>7, <1>8, <1>11, <1>12, <2>1, <2>3 DEF JobReceipt
<1>13. CASE JobNonce(j)
  <2>1. tx[job[j].at.tx] = "mempool"
    BY <1>5, <1>13 DEF JobNonce, JobTracked
  <2> QED
    BY <1>7, <1>8, <1>13, <2>1 DEF JobNonce
<1>14. CASE JobRecord(j)
  <2> DEFINE v == job[j].at.voter
  <2>1. v \in Voters /\ cast[v] # None
    BY <1>14 DEF JobRecord, ChainInv, JobAtWork, AtWork, Selected
  <2>2. Dead(v)
    BY <2>1 DEF Dead, Accepts, TrackInv, TxTracked
  <2>3. attempt' = [attempt EXCEPT ![v] = NoRow] /\ JobLeaves(j)
    BY <1>14 DEF JobRecord, RecordConfirmedVote
  <2> HIDE DEF v
  <2>4. \A u \in Voters \ {v} : attempt'[u] = attempt[u]
    BY <2>3
  <2>5. \A r \in Requests : TxTracked(r)'
    BY <1>1, <2>2, <2>4, RowsKeepTrack
  <2>6. \A u \in Voters : RowTracked(u)'
    BY <2>1, <2>3 DEF TrackInv, RowTracked, NoRow, OwnTx
  <2> QED
    BY <1>4, <1>7, <2>3, <2>5, <2>6 DEF TrackInv
<1>15. CASE JobFail(j)
  <2> DEFINE v == job[j].at.voter
  <2>1. v \in Voters /\ Dead(v)
    BY <1>5, <1>15, InHandTypes DEF JobFail, JobTracked, AtWork
  <2>2. JobLeaves(j) /\ attempt[v] \in Row
    BY <1>15, <2>1 DEF JobFail
  <2>3. /\ \A u \in Voters \ {v} : attempt'[u] = attempt[u]
        /\ \/ attempt'[v] = attempt[v]
           \/ /\ attempt'[v].status = "failed" /\ attempt'[v].tx = attempt[v].tx
              /\ attempt'[v].age = "new"
    BY <1>15, <2>1, <2>2 DEF JobFail, Row
  <2> HIDE DEF v
  <2>4. \A r \in Requests : TxTracked(r)'
    BY <1>1, <2>1, <2>3, RowsKeepTrack
  <2>5. \A u \in Voters : RowTracked(u)'
    BY <2>1, <2>3 DEF TrackInv, RowTracked
  <2> QED
    BY <1>4, <1>7, <2>2, <2>4, <2>5 DEF TrackInv
<1>16. CASE JobGivesUp(j)
  <2>1. ASSUME NEW a \in job[j].todo, job[j].pc = "next",
               job' = [job EXCEPT ![j].todo = @ \ {a}]
        PROVE  InHand(j)' \subseteq InHand(j) /\ job'[j].pc = "next"
    BY <1>5, <2>1 DEF InHand, AtWork, JobState
  <2>2. attempt' = attempt
    BY <1>16 DEF JobGivesUp
  <2> QED
    BY <1>6, <1>7, <1>8, <1>16, <2>1, <2>2 DEF JobGivesUp
<1>17. CASE JobExpire(j)
  <2>1. InHand(j)' \subseteq InHand(j) /\ job'[j].pc = "idle"
    BY <1>17, JobGoesTypes DEF JobExpire, InHand, AtWork
  <2>2. \A v \in Voters : \/ attempt'[v] = attempt[v]
                          \/ attempt[v].age = "expired" /\ attempt'[v] = NoRow
    BY <1>17 DEF JobExpire
  <2>3. \A r \in Requests : TxTracked(r)'
    <3>1. \A v \in Voters : attempt[v].status = "pending" => attempt'[v] = attempt[v]
      BY <2>2 DEF TrackInv, RowTracked
    <3> QED
      BY <1>1, <3>1, RowsKeepTrack
  <2>4. \A v \in Voters : RowTracked(v)'
    BY <2>2 DEF TrackInv, RowTracked, NoRow, OwnTx
  <2> QED
    BY <1>4, <1>6, <2>1, <2>3, <2>4 DEF TrackInv
<1> QED
  BY <1>9, <1>10, <1>12, <1>13, <1>14, <1>15, <1>16, <1>17 DEF JobStep

LEMMA TrackStep ==
    ASSUME TypeInv, ChainInv, Tracked, TrackInv, [Next]_vars
    PROVE  TrackInv'
<1> USE VoteRecordingAssumption DEF TypeInv, TypeOK, chainVars, dbVars
<1>1. ASSUME NEW v \in Voters, Age(v)
      PROVE  TrackInv'
  <2>1. /\ \A u \in Voters \ {v} : attempt'[u] = attempt[u]
        /\ attempt'[v].status = attempt[v].status /\ attempt'[v].holder = attempt[v].holder
        /\ attempt'[v].tx = attempt[v].tx
        /\ attempt[v].status = "pending" => attempt'[v].age # "expired"
    <3>1. attempt[v] \in Row /\ "expiry" \notin Faults
      BY DEF Tracked
    <3>2. \/ /\ attempt[v].status = "pending"
             /\ attempt' = [attempt EXCEPT ![v].age = "stale"]
          \/ /\ attempt[v].status = "failed"
             /\ attempt' = [attempt EXCEPT ![v].age = "expired"]
      BY <1>1, <3>1 DEF Age
    <3> QED
      BY <3>1, <3>2 DEF Row
  <2>2. UNCHANGED <<cast, sealed, tx, pc, job>>
    BY <1>1 DEF Age
  <2>3. \A r \in Requests : TxTracked(r)'
    BY <2>1, <2>2, RowsKeepTrack
  <2>4. \A u \in Voters : RowTracked(u)'
    BY <2>1 DEF TrackInv, RowTracked
  <2>5. ASSUME NEW j \in Jobs PROVE JobTracked(j)'
    <3>1. JobTracked(j) /\ InHand(j)' = InHand(j)
      BY <2>2 DEF TrackInv, InHand
    <3>2. job[j].pc = "fail" => Dead(job[j].at.voter)' = Dead(job[j].at.voter)
      BY <2>2, DeadUnchanged, InHandTypes DEF AtWork
    <3> QED
      BY <2>2, <3>1, <3>2 DEF JobTracked
  <2> QED
    BY <2>3, <2>4, <2>5 DEF TrackInv
<1>2. CASE SealElection
  <2>1. UNCHANGED <<cast, tx, pc, attempt, job>> /\ (sealed => sealed')
    BY <1>2 DEF SealElection, Contract!Seal
  <2>2. \A u : Dead(u) => Dead(u)'
    BY <2>1 DEF Dead, Accepts
  <2>3. \A r \in Requests : TxTracked(r)'
    BY <2>1, <2>2 DEF TrackInv, TxTracked, Holds
  <2>4. \A u \in Voters : RowTracked(u)'
    BY <2>1 DEF TrackInv, RowTracked
  <2>5. \A j \in Jobs : JobTracked(j)'
    BY <2>1, <2>2 DEF TrackInv, JobTracked, InHand
  <2> QED
    BY <2>3, <2>4, <2>5 DEF TrackInv
<1>3. CASE Crash
  <2>1. UNCHANGED <<cast, sealed, tx, attempt>>
    BY <1>3 DEF Crash
  <2>2. \A r \in Requests : pc'[r] = pc[r] \/ pc'[r] = "gone"
    BY <1>3 DEF Crash
  <2>3. \A r \in Requests : TxTracked(r)'
    <3>1. \A r \in Requests : /\ Dead(VoterOf[r])' = Dead(VoterOf[r])
                              /\ Holds(r)' = Holds(r)
      BY <2>1, DeadUnchanged DEF Holds
    <3> QED
      BY <2>1, <2>2, <3>1 DEF TrackInv, TxTracked, PastLock
  <2>4. \A u \in Voters : RowTracked(u)'
    BY <2>1 DEF TrackInv, RowTracked
  <2>5. \A j \in Jobs : JobTracked(j)'
    BY <1>3 DEF Crash, IdleJob, JobTracked, InHand, AtWork
  <2> QED
    BY <2>3, <2>4, <2>5 DEF TrackInv
<1>4. CASE EndTime \/ UNCHANGED vars
  <2>1. UNCHANGED <<cast, sealed, tx, pc, attempt, job>>
    BY <1>4 DEF EndTime, vars
  <2>2. \A r \in Requests : TxTracked(r)'
    BY <2>1, RowsKeepTrack
  <2>3. \A u \in Voters : RowTracked(u)'
    BY <2>1 DEF TrackInv, RowTracked
  <2>4. \A j \in Jobs : JobTracked(j)'
    BY <2>1 DEF TrackInv, JobTracked, InHand, Dead, Accepts
  <2> QED
    BY <2>2, <2>3, <2>4 DEF TrackInv
<1> QED
  BY <1>1, <1>2, <1>3, <1>4, NextCases, HandlerKeepsTrack, SendKeepsTrack, MineKeepsTrack,
     JobKeepsTrack

LEMMA TrackInit == Init => TrackInv
<1> SUFFICES ASSUME Init PROVE TrackInv
  OBVIOUS
<1> USE VoteRecordingAssumption DEF Init, Contract!Init
<1>1. \A r \in Requests : TxTracked(r)
  BY DEF TxTracked, PastLock
<1>2. \A v \in Voters : RowTracked(v)
  BY DEF RowTracked, OwnTx, NoRow
<1>3. \A j \in Jobs : JobTracked(j)
  BY DEF JobTracked, InHand, AtWork, IdleJob
<1> QED
  BY <1>1, <1>2, <1>3 DEF TrackInv

(* Whatever statement fails, wherever the node refuses before it has the   *)
(* transaction, whenever the server restarts, for any number of runs of    *)
(* the job that overlap and handlers however slow: the job fails an        *)
(* attempt only when none of its voter's transactions was counted or may   *)
(* still be mined.                                                         *)
THEOREM FailsAreFinal == ASSUME Tracked PROVE Spec => FailsOnlyDeadAttempts
<1>1. ASSUME TypeInv, ChainInv, TrackInv, NEW j \in Jobs, JobFail(j), NEW v \in Voters,
             attempt[v].status = "pending", attempt'[v].status = "failed",
             NEW r \in Requests, VoterOf[r] = v
      PROVE  tx[r] \notin {"mempool", "ok"}
  <2>1. v = job[j].at.voter
    <3>1. job[j].at.voter \in Voters
      BY <1>1, InHandTypes DEF JobFail, AtWork
    <3> QED
      BY <1>1, <3>1 DEF JobFail, TypeInv, TypeOK
  <2>2. Dead(v) /\ cast[v] = None
    BY <1>1, <2>1 DEF JobFail, TrackInv, JobTracked
  <2>3. tx[r] = "ok" => cast[v] \in Candidates
    BY <1>1, VoteRecordingAssumption DEF ChainInv
  <2> QED
    BY <1>1, <2>2, <2>3, VoteRecordingAssumption DEF Dead
<1>2. TypeInv /\ ChainInv /\ TrackInv =>
        \A j \in Jobs, v \in Voters :
          JobFail(j) /\ attempt[v].status = "pending" /\ attempt'[v].status = "failed"
          => \A r \in Requests : VoterOf[r] = v => tx[r] \notin {"mempool", "ok"}
  BY <1>1
<1>3. TypeInv /\ ChainInv /\ TrackInv /\ [Next]_vars => TrackInv'
  BY TrackStep
<1> QED
  BY <1>2, <1>3, TypeInit, TypeStep, ChainInit, ChainStep, TrackInit, PTL
  DEF Spec, FailsOnlyDeadAttempts
=============================================================================
