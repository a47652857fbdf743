---------------------------- MODULE VoteRecording ----------------------------
(***************************************************************************)
(* From POST /register-vote to a counted vote, for one election that is    *)
(* registered on chain: the request handlers, the lock table               *)
(* vote_attempts, the relayer's transactions, the contract as a ballot     *)
(* box, and the cleanup job that reconciles what a handler left behind.    *)
(*                                                                         *)
(* A request stands for one call by an eligible voter of the census with a *)
(* candidate of the election; every retry is another request. A request    *)
(* broadcasts at most one transaction, so its name is also the hash of     *)
(* that transaction, and it inserts at most one row of vote_attempts, so   *)
(* its name is also the serial id of that row. A voter stands for its      *)
(* nullifier, the HMAC of user, election and salt.                         *)
(***************************************************************************)
EXTENDS Naturals

CONSTANTS Requests, Voters, Candidates, None,
          VoterOf,          \* the voter of each request
          ChoiceOf,         \* the candidate of each request
          DemoVoters,       \* accounts whose vote never goes to the chain
          Jobs,             \* runs of the cleanup job that can overlap
          Faults,           \* which of FaultKinds may happen
          SlowHandlers,     \* may a handler outlive the 30 minutes of its lock
          MaxCrashes        \* bound: restarts of the server

FaultKinds == {"db",            \* a statement on vote_attempts or the record fails
               "rpc",           \* the node fails before it has the transaction
               "lostAnswer",    \* the node has it, but its answer never arrives
               "waitError",     \* waiting for the receipt fails
               "cancel",        \* the operator cancels a stuck transaction
               "speedup",       \* the operator resends one with more gas
               "noPort",        \* the chain configuration is gone
               "expiry",        \* an attempt stays unresolved for 72 h
               "blockDuringLook"} \* a block is mined while the job looks

ASSUME VoteRecordingAssumption ==
    /\ None \notin Requests \cup Voters \cup Candidates
    /\ VoterOf \in [Requests -> Voters]
    /\ ChoiceOf \in [Requests -> Candidates]
    /\ DemoVoters \subseteq Voters
    /\ Faults \subseteq FaultKinds
    /\ SlowHandlers \in BOOLEAN
    /\ MaxCrashes \in Nat

VARIABLES
    cast, sealed,       \* the election in the contract: a ballot box
    tx,                 \* the transaction of each request, as the node sees it
    over,               \* the server's clock has passed end_time
    pc,                 \* where the handler of each request stands, or its reply
    attempt,            \* vote_attempts: the row of each voter
    participations,     \* election_participations
    audit,              \* nullifier_audit: the candidate of each counted vote
    job,                \* the runs of the cleanup job
    crashes

chainVars == <<cast, sealed, tx>>
dbVars    == <<attempt, participations, audit>>
vars      == <<chainVars, over, pc, dbVars, job, crashes>>

Contract == INSTANCE BallotBox WITH Nullifiers <- Voters

TxStates == {"none", "mempool", "ok", "reverted", "replaced"}
Replies  == {"confirmed", "pending", "conflict", "error", "gone"}
Running  == {"demo", "lock", "send", "wait", "note", "record", "release"}

(* The row of a voter. holder is the request that took the lock last: its  *)
(* candidate is the row's candidate_id. age is the time since started_at   *)
(* or completed_at: under 30 minutes, over, and past the row's expiry.     *)
Row == [status : {"none", "pending", "failed"}, id : Requests \cup {None},
        holder : Requests \cup {None}, tx : Requests \cup {None},
        age : {"new", "stale", "expired"}]

NoRow == [status |-> "none", id |-> None, holder |-> None, tx |-> None, age |-> "new"]

(* What the job keeps of a row it selected.                                *)
Selected == [voter : Voters, id : Requests \cup {None}, tx : Requests \cup {None}]

JobState == [pc : {"idle", "next", "receipt", "nonce", "record", "fail"},
             todo : SUBSET Selected, at : Selected \cup {None},
             vote : Candidates \cup {None}]

IdleJob == [pc |-> "idle", todo |-> {}, at |-> None, vote |-> None]

Init == /\ Contract!Init
        /\ tx = [r \in Requests |-> "none"]
        /\ over = FALSE
        /\ pc = [r \in Requests |-> "idle"]
        /\ attempt = [v \in Voters |-> NoRow]
        /\ participations = {}
        /\ audit = [v \in Voters |-> None]
        /\ job = [j \in Jobs |-> IdleJob]
        /\ crashes = 0

-----------------------------------------------------------------------------
(* The database operations, one transaction or statement each.             *)

(* Mutant: the upsert without its WHERE status = 'failed'.                 *)
AcquireVoteLock_AnyRow(r) ==
    attempt' = [attempt EXCEPT ![VoterOf[r]] =
        [status |-> "pending", holder |-> r, age |-> "new", tx |-> @.tx,
         id |-> IF @.status = "none" THEN r ELSE @.id]]

(* acquireVoteLock, its upsert: insert the row, or take over a failed one. *)
(* The columns tx_hash and nonce are not among those it resets.            *)
AcquireVoteLock(r) ==
    LET row == attempt[VoterOf[r]]
    IN  /\ row.status \in {"none", "failed"}
        /\ attempt' = [attempt EXCEPT ![VoterOf[r]] =
               [status |-> "pending", holder |-> r, age |-> "new", tx |-> row.tx,
                id |-> IF row.status = "none" THEN r ELSE row.id]]

(* releaseVoteLock(..., 'failed'): by user and election, whatever the row. *)
ReleaseVoteLock(v) ==
    attempt' = IF attempt[v].status = "none" THEN attempt
               ELSE [attempt EXCEPT ![v].status = "failed", ![v].age = "new"]

(* recordPendingTx: by user and election, whatever the row.                *)
RecordPendingTx(v, t) ==
    attempt' = IF attempt[v].status = "none" THEN attempt
               ELSE [attempt EXCEPT ![v].tx = t]

(* Mutant: the vote is inserted whether or not there was a participation.  *)
RecordConfirmedVote_Overwrites(v, c) ==
    /\ attempt' = [attempt EXCEPT ![v] = NoRow]
    /\ participations' = participations \cup {v}
    /\ audit' = [audit EXCEPT ![v] = c]

(* Mutant: the attempt is dropped as one of several statements that may    *)
(* not all run.                                                            *)
RecordConfirmedVote_NotAtomic(v, c) ==
    /\ attempt' = [attempt EXCEPT ![v] = NoRow]
    /\ UNCHANGED <<participations, audit>>

(* recordConfirmedVote: drop the attempt, insert the participation and,    *)
(* unless there was one, the vote.                                         *)
RecordConfirmedVote(v, c) ==
    /\ attempt' = [attempt EXCEPT ![v] = NoRow]
    /\ participations' = participations \cup {v}
    /\ audit' = IF v \in participations THEN audit ELSE [audit EXCEPT ![v] = c]

-----------------------------------------------------------------------------
(* The handler of a request.                                               *)

(* Everything up to the lock: the election's window and the participation, *)
(* which acquireVoteLock reads again in a statement before its upsert.     *)
Begin(r) ==
    /\ pc[r] = "idle"
    /\ ~over
    /\ pc' = [pc EXCEPT ![r] = IF VoterOf[r] \in participations THEN "conflict"
                               ELSE IF VoterOf[r] \in DemoVoters THEN "demo" ELSE "lock"]
    /\ UNCHANGED <<chainVars, over, dbVars, job, crashes>>

(* The shortcut of demonstration accounts.                                 *)
DemoVote(r) ==
    /\ pc[r] = "demo"
    /\ RecordConfirmedVote(VoterOf[r], ChoiceOf[r])
    /\ pc' = [pc EXCEPT ![r] = "confirmed"]
    /\ UNCHANGED <<chainVars, over, job, crashes>>

TakeLock(r) ==
    /\ pc[r] = "lock"
    /\ \/ /\ AcquireVoteLock(r)
          /\ pc' = [pc EXCEPT ![r] = "send"]
       \/ /\ attempt[VoterOf[r]].status = "pending"
          /\ pc' = [pc EXCEPT ![r] = "conflict"]
          /\ UNCHANGED attempt
    /\ UNCHANGED <<chainVars, over, participations, audit, job, crashes>>

(* getVotePort answers null: the handler replies 500 and keeps the lock.   *)
NoPort(r) ==
    /\ "noPort" \in Faults
    /\ pc[r] = "send"
    /\ pc' = [pc EXCEPT ![r] = "error"]
    /\ UNCHANGED <<chainVars, over, dbVars, job, crashes>>

(* The gas estimate runs the call: the contract refuses a nullifier that   *)
(* voted or an election that is not open before anything is broadcast.     *)
Accepts(v) == cast[v] = None /\ ~sealed

Send(r) ==
    /\ pc[r] = "send"
    /\ Accepts(VoterOf[r])
    /\ tx' = [tx EXCEPT ![r] = "mempool"]
    /\ \/ pc' = [pc EXCEPT ![r] = "wait"]
       \/ /\ "lostAnswer" \in Faults
          /\ pc' = [pc EXCEPT ![r] = "release"]
    /\ UNCHANGED <<cast, sealed, over, dbVars, job, crashes>>

SendFails(r) ==
    /\ pc[r] = "send"
    /\ ~Accepts(VoterOf[r]) \/ "rpc" \in Faults
    /\ pc' = [pc EXCEPT ![r] = "release"]
    /\ UNCHANGED <<chainVars, over, dbVars, job, crashes>>

(* castVote of the port: the receipt, or what became of the wait for it.   *)
(* A receipt with status 0 and a transaction the node saw replaced reject. *)
AwaitReceipt(r) ==
    /\ pc[r] = "wait"
    /\ \/ /\ tx[r] = "ok"
          /\ pc' = [pc EXCEPT ![r] = "record"]
       \/ /\ tx[r] \in {"reverted", "replaced"} \/ "waitError" \in Faults
          /\ pc' = [pc EXCEPT ![r] = "release"]
    /\ UNCHANGED <<chainVars, over, dbVars, job, crashes>>

(* 12 s without a receipt.                                                 *)
WaitTimesOut(r) ==
    /\ pc[r] = "wait"
    /\ pc' = [pc EXCEPT ![r] = "note"]
    /\ UNCHANGED <<chainVars, over, dbVars, job, crashes>>

NotePendingTx(r) ==
    /\ pc[r] = "note"
    /\ RecordPendingTx(VoterOf[r], r)
    /\ pc' = [pc EXCEPT ![r] = "pending"]
    /\ UNCHANGED <<chainVars, over, participations, audit, job, crashes>>

RecordVote(r) ==
    /\ pc[r] = "record"
    /\ RecordConfirmedVote(VoterOf[r], ChoiceOf[r])
    /\ pc' = [pc EXCEPT ![r] = "confirmed"]
    /\ UNCHANGED <<chainVars, over, job, crashes>>

Release(r) ==
    /\ pc[r] = "release"
    /\ ReleaseVoteLock(VoterOf[r])
    /\ pc' = [pc EXCEPT ![r] = "error"]
    /\ UNCHANGED <<chainVars, over, participations, audit, job, crashes>>

(* The database fails: before the transaction was sent the voter gets an   *)
(* error; afterwards the failure is swallowed and the reply is the same.   *)
DbFails(r) ==
    /\ "db" \in Faults
    /\ pc[r] \in {"demo", "lock", "note", "record", "release"}
    /\ pc' = [pc EXCEPT ![r] = CASE pc[r] = "note"   -> "pending"
                                 [] pc[r] = "record" -> "confirmed"
                                 [] OTHER            -> "error"]
    /\ UNCHANGED <<chainVars, over, dbVars, job, crashes>>

HandlerStep(r) ==
    \/ Begin(r) \/ DemoVote(r) \/ TakeLock(r) \/ NoPort(r) \/ Send(r) \/ SendFails(r)
    \/ AwaitReceipt(r) \/ WaitTimesOut(r) \/ NotePendingTx(r) \/ RecordVote(r)
    \/ Release(r) \/ DbFails(r)

-----------------------------------------------------------------------------
(* The clocks, the chain and the process around the handlers.              *)

EndTime ==
    /\ ~over
    /\ over' = TRUE
    /\ UNCHANGED <<chainVars, pc, dbVars, job, crashes>>

(* A lock gets 30 minutes old and, unresolved, 72 h; a failed attempt gets *)
(* 24 h old. A handler is done with its row by then, unless it queued      *)
(* behind the relayer's other transactions for that long.                  *)
Age(v) ==
    LET row == attempt[v]
    IN  /\ row.status # "none"
        /\ row.age # "expired"
        /\ SlowHandlers \/ \A r \in Requests : VoterOf[r] = v => pc[r] \notin Running
        /\ \/ /\ row.status = "pending" /\ row.age = "new"
              /\ attempt' = [attempt EXCEPT ![v].age = "stale"]
           \/ /\ row.status = "failed" \/ (row.age = "stale" /\ "expiry" \in Faults)
              /\ attempt' = [attempt EXCEPT ![v].age = "expired"]
        /\ UNCHANGED <<chainVars, over, pc, participations, audit, job, crashes>>

(* A block between two looks of findVote, or not.                          *)
ChainMoves == \/ "blockDuringLook" \in Faults
              \/ \A j \in Jobs : job[j].pc \notin {"receipt", "nonce"}

SealElection ==
    /\ ChainMoves
    /\ Contract!Seal
    /\ UNCHANGED <<tx, over, pc, dbVars, job, crashes>>

(* The vote of a request is executed: counted, or reverted.                *)
Executes(r, ok, otherwise) ==
    IF Accepts(VoterOf[r])
    THEN /\ Contract!Cast(VoterOf[r], ChoiceOf[r])
         /\ tx' = [tx EXCEPT ![r] = ok]
    ELSE /\ tx' = [tx EXCEPT ![r] = otherwise]
         /\ UNCHANGED <<cast, sealed>>

Mine(r) ==
    /\ tx[r] = "mempool"
    /\ ChainMoves
    /\ Executes(r, "ok", "reverted")
    /\ UNCHANGED <<over, pc, dbVars, job, crashes>>

(* replaceStuckRelayerTx: another transaction takes the nonce, with the    *)
(* same vote or with none.                                                 *)
Replace(r) ==
    /\ tx[r] = "mempool"
    /\ ChainMoves
    /\ \/ /\ "cancel" \in Faults
          /\ tx' = [tx EXCEPT ![r] = "replaced"]
          /\ UNCHANGED <<cast, sealed>>
       \/ /\ "speedup" \in Faults
          /\ Executes(r, "replaced", "replaced")
    /\ UNCHANGED <<over, pc, dbVars, job, crashes>>

(* The server restarts: every handler and every run of the job is lost.    *)
Crash ==
    /\ crashes < MaxCrashes
    /\ crashes' = crashes + 1
    /\ pc' = [r \in Requests |-> IF pc[r] \in Running THEN "gone" ELSE pc[r]]
    /\ job' = [j \in Jobs |-> IdleJob]
    /\ UNCHANGED <<chainVars, over, dbVars>>

-----------------------------------------------------------------------------
(* The cleanup job: cleanupStaleVoteAttempts with findVote, on a timer.    *)

JobGoes(j, where) == job' = [job EXCEPT ![j].pc = where]

(* The attempt under hand is left as it is: the job takes the next one.    *)
JobLeaves(j) == job' = [job EXCEPT ![j].pc = "next", ![j].at = None, ![j].vote = None]

Stale == {v \in Voters : attempt[v].status = "pending" /\ attempt[v].age # "new"}

JobStart(j) ==
    /\ job[j].pc = "idle"
    /\ job' = [job EXCEPT ![j].pc = "next", ![j].todo =
           {[voter |-> v, id |-> attempt[v].id, tx |-> attempt[v].tx] : v \in Stale}]
    /\ UNCHANGED <<chainVars, over, pc, dbVars, crashes>>

(* Mutant: the job trusts the candidate of the row, not of the event.      *)
JobScan_TrustsRow(j, a) ==
    /\ job[j].pc = "next"
    /\ a \in job[j].todo
    /\ job' = [job EXCEPT ![j] =
           [todo |-> job[j].todo \ {a},
            vote |-> IF cast[a.voter] = None \/ attempt[a.voter].holder = None
                     THEN cast[a.voter] ELSE ChoiceOf[attempt[a.voter].holder],
            at |-> IF cast[a.voter] = None /\ a.tx = None THEN None ELSE a,
            pc |-> IF cast[a.voter] # None THEN "record"
                   ELSE IF a.tx # None THEN "receipt" ELSE "next"]]
    /\ UNCHANGED <<chainVars, over, pc, dbVars, crashes>>

(* The VoteCast event of the nullifier, or else the transaction noted.     *)
JobScan(j, a) ==
    /\ job[j].pc = "next"
    /\ a \in job[j].todo
    /\ job' = [job EXCEPT ![j] =
           [todo |-> job[j].todo \ {a}, vote |-> cast[a.voter],
            at |-> IF cast[a.voter] = None /\ a.tx = None THEN None ELSE a,
            pc |-> IF cast[a.voter] # None THEN "record"
                   ELSE IF a.tx # None THEN "receipt" ELSE "next"]]
    /\ UNCHANGED <<chainVars, over, pc, dbVars, crashes>>

(* A receipt of status 0 decides; one of status 1 whose event did not show *)
(* yet leaves the attempt; none at all leads to the nonce.                 *)
JobReceipt(j) ==
    /\ job[j].pc = "receipt"
    /\ \/ tx[job[j].at.tx] = "reverted" /\ JobGoes(j, "fail")
       \/ tx[job[j].at.tx] = "ok" /\ JobLeaves(j)
       \/ tx[job[j].at.tx] \in {"mempool", "replaced"} /\ JobGoes(j, "nonce")
    /\ UNCHANGED <<chainVars, over, pc, dbVars, crashes>>

(* Mutant: no receipt means that the transaction is lost.                  *)
JobNonce_Impatient(j) ==
    /\ job[j].pc = "nonce"
    /\ JobGoes(j, "fail")
    /\ UNCHANGED <<chainVars, over, pc, dbVars, crashes>>

JobNonce(j) ==
    /\ job[j].pc = "nonce"
    /\ IF tx[job[j].at.tx] = "mempool" THEN JobLeaves(j) ELSE JobGoes(j, "fail")
    /\ UNCHANGED <<chainVars, over, pc, dbVars, crashes>>

JobRecord(j) ==
    /\ job[j].pc = "record"
    /\ RecordConfirmedVote(job[j].at.voter, job[j].vote)
    /\ JobLeaves(j)
    /\ UNCHANGED <<chainVars, over, pc, crashes>>

(* UPDATE ... WHERE id: the row may have been taken over since.            *)
JobFail(j) ==
    /\ job[j].pc = "fail"
    /\ LET v == job[j].at.voter
       IN  attempt' = IF attempt[v].status = "none" \/ attempt[v].id # job[j].at.id
                      THEN attempt
                      ELSE [attempt EXCEPT ![v].status = "failed", ![v].age = "new"]
    /\ JobLeaves(j)
    /\ UNCHANGED <<chainVars, over, pc, participations, audit, crashes>>

(* The node does not answer, or the database fails.                        *)
JobGivesUp(j) ==
    /\ \/ /\ "rpc" \in Faults
          /\ job[j].pc \in {"receipt", "nonce"}
          /\ JobLeaves(j)
       \/ /\ Faults \cap {"rpc", "noPort"} # {}
          /\ job[j].pc = "next"
          /\ \E a \in job[j].todo : job' = [job EXCEPT ![j].todo = @ \ {a}]
       \/ /\ "db" \in Faults
          /\ job[j].pc \in {"record", "fail"}
          /\ JobLeaves(j)
    /\ UNCHANGED <<chainVars, over, pc, dbVars, crashes>>

(* Mutant: only failed attempts expire.                                    *)
JobExpire_KeepsPending(j) ==
    /\ job[j].pc = "next"
    /\ job[j].todo = {}
    /\ attempt' = [v \in Voters |->
           IF attempt[v].age = "expired" /\ attempt[v].status = "failed"
           THEN NoRow ELSE attempt[v]]
    /\ JobGoes(j, "idle")
    /\ UNCHANGED <<chainVars, over, pc, participations, audit, crashes>>

(* Nothing left to look up: delete what is past its 24 or 72 hours.        *)
JobExpire(j) ==
    /\ job[j].pc = "next"
    /\ job[j].todo = {}
    /\ attempt' = [v \in Voters |->
           IF attempt[v].age = "expired" THEN NoRow ELSE attempt[v]]
    /\ JobGoes(j, "idle")
    /\ UNCHANGED <<chainVars, over, pc, participations, audit, crashes>>

JobStep(j) ==
    \/ JobStart(j) \/ (\E a \in job[j].todo : JobScan(j, a)) \/ JobReceipt(j)
    \/ JobNonce(j) \/ JobRecord(j) \/ JobFail(j) \/ JobGivesUp(j) \/ JobExpire(j)

-----------------------------------------------------------------------------
Next ==
    \/ \E r \in Requests : HandlerStep(r) \/ Mine(r) \/ Replace(r)
    \/ \E v \in Voters : Age(v)
    \/ \E j \in Jobs : JobStep(j)
    \/ EndTime \/ SealElection \/ Crash

Spec == Init /\ [][Next]_vars

(* Handlers get on, blocks are mined, time passes and the job's timer      *)
(* fires; the node and the database answer again and again.                *)
Fairness ==
    /\ \A r \in Requests : WF_vars(Mine(r)) /\ WF_vars(pc[r] # "idle" /\ HandlerStep(r))
    /\ \A v \in Voters : WF_vars(Age(v))
    /\ \A j \in Jobs :
         /\ WF_vars(JobStep(j))
         /\ SF_vars(JobRecord(j)) /\ SF_vars(JobFail(j))
         /\ \A v \in Voters : SF_vars(\E a \in job[j].todo : a.voter = v /\ JobScan(j, a))

FairSpec == Spec /\ Fairness

-----------------------------------------------------------------------------
(* Properties                                                              *)

TypeOK ==
    /\ cast \in [Voters -> Candidates \cup {None}]
    /\ sealed \in BOOLEAN
    /\ tx \in [Requests -> TxStates]
    /\ over \in BOOLEAN
    /\ pc \in [Requests -> {"idle"} \cup Running \cup Replies]
    /\ attempt \in [Voters -> Row]
    /\ participations \subseteq Voters
    /\ audit \in [Voters -> Candidates \cup {None}]
    /\ job \in [Jobs -> JobState]
    /\ crashes \in 0..MaxCrashes

OnChainVoters == Voters \ DemoVoters

(* What the backend counts is what the chain holds: a counted vote is the  *)
(* voter's ballot in the contract, with the candidate found there and not  *)
(* the one of some retry, and exactly the counted voters participated.     *)
AuditMatchesChain ==
    /\ \A v \in OnChainVoters : audit[v] \in {None, cast[v]}
    /\ participations = {v \in Voters : audit[v] # None}

(* Retries, the cleanup job and late handlers all record votes, and still  *)
(* the counted votes are a ballot box: nobody is counted twice and no      *)
(* counted vote is changed or lost.                                        *)
Recorded == INSTANCE BallotBox WITH Nullifiers <- Voters, cast <- audit, sealed <- FALSE
RecordedIsBallotBox == Recorded!Spec

(* A voter told "confirmed" has that choice, and no other, in the contract.*)
ConfirmedIsCast ==
    \A r \in Requests :
        pc[r] = "confirmed" /\ VoterOf[r] \in OnChainVoters => cast[VoterOf[r]] = ChoiceOf[r]

(* The lock does its work: of the requests of one voter at most one stands *)
(* between taking the lock and replying, so no two pay for a transaction   *)
(* at once, even while the job works on the row and the server restarts.   *)
PastLock == {"send", "wait", "note", "record", "release"}
OneSender ==
    \A r, s \in Requests :
        VoterOf[r] = VoterOf[s] /\ pc[r] \in PastLock /\ pc[s] \in PastLock => r = s

(* The job gives an attempt up only for good: when none of the voter's     *)
(* transactions was counted or may still be mined.                         *)
FailsOnlyDeadAttempts ==
    [][\A j \in Jobs, v \in Voters :
          JobFail(j) /\ attempt[v].status = "pending" /\ attempt'[v].status = "failed"
          => \A r \in Requests : VoterOf[r] = v => tx[r] \notin {"mempool", "ok"}]_vars

(* However a handler ended, a ballot in the contract ends up counted.      *)
CastIsCounted ==
    \A v \in OnChainVoters : cast[v] # None ~> v \in participations

(* No voter stays locked out: a pending attempt is resolved or expires.    *)
LocksResolve ==
    \A v \in Voters : attempt[v].status = "pending" ~> attempt[v].status # "pending"

=============================================================================
