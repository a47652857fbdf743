----------------------------- MODULE ChainSync -----------------------------
(***************************************************************************)
(* Registering one election of the database in the ElectionRegistryV2      *)
(* contract: syncElectionsToBlockchain (scripts/syncElections.ts), run by  *)
(* several processes, against the administrator's routes that edit the     *)
(* same row (routes/admin/elections.ts) and the chain that mines, reverts  *)
(* or drops what was sent.  Runs are chained inside a process, so each     *)
(* process has one run at a time.  What the properties tell apart of an    *)
(* election is its terms: the closing time and the number of candidates.   *)
(***************************************************************************)
EXTENDS Naturals, Sequences, FiniteSets

CONSTANTS Proc,               \* backend processes and `npm run sync-blockchain`
          End,                \* closing times an election may be given
          MaxCandidates,      \* limit of POST /admin/elections/:id/candidates
          ChainMaxAttempts,   \* CHAIN_MAX_ATTEMPTS
          MaxTime,            \* bound: the clock stops here
          MaxSends,           \* bound: createElection transactions sent
          MaxOthers,          \* bound: elections other senders create
          MaxEdits,           \* bound: edits by the administrator
          MaxFaults,          \* bound: faults in a behaviour
          Faults              \* the faults that may happen

(***************************************************************************)
(* "rpc": a send is refused or a receipt query fails.  "lostAnswer": the   *)
(* node takes the transaction and the answer is lost.  "drop": the mempool *)
(* evicts a transaction, for good.  "unmined": the wait for the receipt    *)
(* ends with the transaction still pooled.  "db": a statement fails.       *)
(* "crash": a process dies.  "slow": a live run keeps a claim longer than  *)
(* STUCK_MS.  "revert": the contract refuses the relayer, or gas runs out. *)
(* "editFailed": the administrator edits a failed row that keeps its hash. *)
(* "adminRace": a claim lands between an editor's check and its write.     *)
(***************************************************************************)
FaultKind == {"rpc", "lostAnswer", "drop", "unmined", "db", "crash", "slow",
              "revert", "editFailed", "adminRace"}

ASSUME ChainSyncAssumption ==
  /\ End \subseteq Nat
  /\ MaxCandidates \in Nat \ {0}
  /\ ChainMaxAttempts \in Nat \ {0}
  /\ {MaxTime, MaxSends, MaxOthers, MaxEdits, MaxFaults} \subseteq Nat
  /\ Faults \subseteq FaultKind

VARIABLES row,        \* the election's row, with its number of candidates
          proc,       \* each process: where its run is, and its locals
          admin,      \* the edit whose check has passed and that is not written
          txs,        \* every createElection transaction ever accepted
          elections,  \* the contract: election id -> transaction, 0 if foreign
          lost,       \* transactions whose hash no process stored
          now, edits, faults

dbVars     == <<row>>
chainVars  == <<txs, elections>>
boundVars  == <<edits, faults>>
vars == <<row, proc, admin, txs, elections, lost, now, edits, faults>>

NoTx   == 0                       \* chain_tx_hash IS NULL
TxId   == 1 .. MaxSends
TxRef  == TxId \cup {NoTx}
NoEdit == [op |-> "none", end |-> 0]

\* The columns of the row; "stuck": claimed more than STUCK_MS ago, "due": the
\* next retry is not in the future, "count": its rows in candidates.
Row == [status : {"pending", "syncing", "synced", "failed"}, stuck : BOOLEAN,
        attempts : 0 .. ChainMaxAttempts, due : BOOLEAN, hash : TxRef, chainId : Nat,
        end : End, count : 0 .. MaxCandidates]

\* A run: the statement or call that is next, and what it has read so far.
Stage == {"idle", "reclaim", "select", "claim", "read", "list", "send", "save",
          "confirm", "record", "fail"}

Run == [at : Stage, end : End \cup {0}, count : 0 .. MaxCandidates,
        attempts : 0 .. ChainMaxAttempts, tx : TxRef, id : Nat,
        why : {"none", "error", "dropped", "invalid"}]

Idle == [at |-> "idle", end |-> 0, count |-> 0, attempts |-> 0, tx |-> NoTx,
         id |-> 0, why |-> "none"]

Transaction == [end : End, count : 0 .. MaxCandidates, id : Nat,
                state : {"pooled", "mined", "reverted", "dropped"}]

\* Throughout: a fault of kind k happens now.
Fault(k) == /\ k \in Faults /\ faults < MaxFaults
            /\ faults' = faults + 1

Init ==
  \E end \in End, count \in 0 .. MaxCandidates :
    /\ row = [status |-> "pending", stuck |-> FALSE, attempts |-> 0, due |-> TRUE,
              hash |-> NoTx, chainId |-> 0, end |-> end, count |-> count]
    /\ proc = [p \in Proc |-> Idle]
    /\ admin = NoEdit
    /\ txs = << >> /\ elections = << >> /\ lost = {}
    /\ now = 0 /\ edits = 0 /\ faults = 0
-----------------------------------------------------------------------------
(* runOnce, one action per statement or call it awaits. *)

GoTo(p, stage) == proc' = [proc EXCEPT ![p].at = stage]

\* The catch block is next, with the kind of error it will tell apart.
Throw(p, why) == proc' = [proc EXCEPT ![p].at = "fail", ![p].why = why]

EndRun(p) == proc' = [proc EXCEPT ![p] = Idle]

\* attempts is only ever compared with CHAIN_MAX_ATTEMPTS: it saturates there.
Incremented(attempts) == IF attempts < ChainMaxAttempts THEN attempts + 1 ELSE attempts

\* The row after each UPDATE of elections in runOnce.
Retried == IF row.status = "failed"
           THEN [row EXCEPT !.status = "pending", !.attempts = 0, !.due = TRUE]
           ELSE row

Reclaimed == IF row.status = "syncing" /\ row.stuck
             THEN [row EXCEPT !.status = "pending", !.stuck = FALSE, !.due = TRUE]
             ELSE row

Claimed == [row EXCEPT !.status = "syncing", !.stuck = FALSE,
                       !.attempts = Incremented(row.attempts)]

Sent(tx) == [row EXCEPT !.hash = tx]

Synced(id) == [row EXCEPT !.status = "synced", !.chainId = id, !.stuck = FALSE, !.due = TRUE]

NotSynced(final, clearHash) ==
  [row EXCEPT !.status = IF final THEN "failed" ELSE "pending", !.stuck = FALSE,
              !.due = final, !.hash = IF clearHash THEN NoTx ELSE @]

\* A run begins; retryFailed is the panel's button and the command line.
RunStart(p, retryFailed) ==
  /\ proc[p].at = "idle"
  /\ GoTo(p, "reclaim")
  /\ row' = IF retryFailed THEN Retried ELSE row
  /\ UNCHANGED <<admin, chainVars, lost, now, boundVars>>

\* Mutant: abandoned rows are left in 'syncing'.
Reclaim_Never(p) ==
  /\ proc[p].at = "reclaim"
  /\ GoTo(p, "select")
  /\ UNCHANGED <<dbVars, admin, chainVars, lost, now, boundVars>>

Reclaim(p) ==
  /\ proc[p].at = "reclaim"
  /\ GoTo(p, "select")
  /\ row' = Reclaimed
  /\ UNCHANGED <<admin, chainVars, lost, now, boundVars>>

Select(p) ==
  /\ proc[p].at = "select"
  /\ IF row.status = "pending" /\ row.due THEN GoTo(p, "claim") ELSE EndRun(p)
  /\ UNCHANGED <<dbVars, admin, chainVars, lost, now, boundVars>>

Claim(p) ==
  /\ proc[p].at = "claim"
  /\ admin # NoEdit => "adminRace" \in Faults
  /\ IF row.status = "pending"
     THEN row' = Claimed /\ GoTo(p, "read")
     ELSE EndRun(p) /\ UNCHANGED row
  /\ UNCHANGED <<admin, chainVars, lost, now, boundVars>>

\* What the run remembers of the row.
Seen(run, stage, why) ==
  [at |-> stage, end |-> row.end, count |-> run.count, attempts |-> row.attempts,
   tx |-> row.hash, id |-> run.id, why |-> why]

\* The row is read after the claim; a stored hash skips the sending.
ReadRow(p) ==
  /\ proc[p].at = "read"
  /\ proc' = [proc EXCEPT ![p] = IF row.hash # NoTx THEN Seen(@, "confirm", "none")
                                ELSE IF row.end <= now THEN Seen(@, "fail", "invalid")
                                ELSE Seen(@, "list", "none")]
  /\ UNCHANGED <<dbVars, admin, chainVars, lost, now, boundVars>>

\* candidatesRoot(candidatos) rejects an empty list.
ReadList(p) ==
  /\ proc[p].at = "list"
  /\ \/ /\ row.count = 0 /\ Throw(p, "invalid") /\ UNCHANGED faults
     \/ /\ row.count > 0
        /\ proc' = [proc EXCEPT ![p].at = "send", ![p].count = row.count]
        /\ UNCHANGED faults
     \/ Fault("db") /\ Throw(p, "error")
  /\ UNCHANGED <<dbVars, admin, chainVars, lost, now, edits>>

\* registry.send: a fixed gas limit, so nothing is estimated before sending.
Accept(p) ==
  /\ Len(txs) < MaxSends
  /\ txs' = Append(txs, [end |-> proc[p].end, count |-> proc[p].count,
                         state |-> "pooled", id |-> 0])

Send(p) ==
  /\ proc[p].at = "send"
  /\ \/ /\ Accept(p)
        /\ proc' = [proc EXCEPT ![p].at = "save", ![p].tx = Len(txs')]
        /\ UNCHANGED <<lost, faults>>
     \/ /\ Accept(p)
        /\ Fault("lostAnswer")
        /\ lost' = lost \cup {Len(txs')}
        /\ Throw(p, "error")
     \/ /\ Fault("rpc")
        /\ Throw(p, "error")
        /\ UNCHANGED <<txs, lost>>
  /\ UNCHANGED <<dbVars, admin, elections, now, edits>>

\* Mutant: the hash is not stored before the receipt is awaited.
SaveHash_Skipped(p) ==
  /\ proc[p].at = "save"
  /\ GoTo(p, "confirm")
  /\ UNCHANGED <<dbVars, admin, chainVars, lost, now, boundVars>>

SaveHash(p) ==
  /\ proc[p].at = "save"
  /\ \/ /\ row' = Sent(proc[p].tx)
        /\ GoTo(p, "confirm")
        /\ UNCHANGED <<lost, faults>>
     \/ /\ Fault("db")
        /\ lost' = lost \cup {proc[p].tx}
        /\ Throw(p, "error")
        /\ UNCHANGED row
  /\ UNCHANGED <<admin, chainVars, now, edits>>

\* registry.confirm(txHash)
Confirm(p) ==
  /\ proc[p].at = "confirm"
  /\ LET tx == txs[proc[p].tx]
     IN  \/ /\ tx.state = "mined"
            /\ proc' = [proc EXCEPT ![p].at = "record", ![p].id = tx.id]
            /\ UNCHANGED faults
         \/ /\ tx.state = "reverted" /\ Throw(p, "error") /\ UNCHANGED faults
         \/ /\ tx.state = "dropped" /\ Throw(p, "dropped") /\ UNCHANGED faults
         \/ /\ tx.state = "pooled" /\ Fault("unmined") /\ Throw(p, "error")
         \/ /\ Fault("rpc") /\ Throw(p, "error")
  /\ UNCHANGED <<dbVars, admin, chainVars, lost, now, edits>>

RecordSynced(p) ==
  /\ proc[p].at = "record"
  /\ \/ row' = Synced(proc[p].id) /\ EndRun(p) /\ UNCHANGED faults
     \/ Fault("db") /\ Throw(p, "error") /\ UNCHANGED row
  /\ UNCHANGED <<admin, chainVars, lost, now, edits>>

\* The catch block: any error but a dropped transaction keeps the hash.
Fail(p) ==
  /\ proc[p].at = "fail"
  /\ LET final == proc[p].attempts >= ChainMaxAttempts \/ proc[p].why = "invalid"
     IN  row' = NotSynced(final, proc[p].why = "dropped")
  /\ EndRun(p)
  /\ UNCHANGED <<admin, chainVars, lost, now, boundVars>>

\* A statement outside the try fails: the error leaves runOnce.
Abort(p) ==
  /\ proc[p].at \in {"reclaim", "select", "claim", "read", "fail"}
  /\ Fault("db")
  /\ EndRun(p)
  /\ UNCHANGED <<dbVars, admin, chainVars, lost, now, edits>>

\* The process dies and starts again; the row stays as the run left it.
Crash(p) ==
  /\ proc[p].at # "idle"
  /\ Fault("crash")
  /\ lost' = IF proc[p].at = "save" THEN lost \cup {proc[p].tx} ELSE lost
  /\ EndRun(p)
  /\ UNCHANGED <<dbVars, admin, chainVars, now, edits>>

RunStep(p) ==
  \/ RunStart(p, FALSE) \/ Reclaim(p) \/ Select(p) \/ Claim(p) \/ ReadRow(p)
  \/ ReadList(p) \/ Send(p) \/ SaveHash(p) \/ Confirm(p) \/ RecordSynced(p) \/ Fail(p)
-----------------------------------------------------------------------------
(* The administrator: each route checks the row and writes it afterwards.  *)

\* Mutant: a row freezes only once it is synced.
IsFrozen_WhenSynced == row.status = "synced"

IsFrozen == \/ row.status \in {"synced", "syncing"}
            \/ row.status = "pending" /\ row.hash # NoTx

EditCheck ==
  /\ admin = NoEdit
  /\ edits < MaxEdits
  /\ ~IsFrozen
  /\ row.status = "failed" /\ row.hash # NoTx => "editFailed" \in Faults
  /\ \/ \E e \in End \ {row.end} : admin' = [op |-> "patch", end |-> e]
     \/ row.count < MaxCandidates /\ admin' = [op |-> "add", end |-> 0]
  /\ edits' = edits + 1
  /\ UNCHANGED <<dbVars, proc, chainVars, lost, now, faults>>

EditWrite ==
  /\ admin # NoEdit
  /\ row' = IF admin.op = "patch" THEN [row EXCEPT !.end = admin.end]
            ELSE [row EXCEPT !.count = @ + 1]
  /\ admin' = NoEdit
  /\ UNCHANGED <<proc, chainVars, lost, now, boundVars>>
-----------------------------------------------------------------------------
(* Time and the chain. *)

Handled == \E p \in Proc : proc[p].at \in {"read", "list", "send", "save", "confirm",
                                           "record", "fail"}

\* STUCK_MS have passed since the claim; a live run is quicker unless "slow".
ClaimGoesStale ==
  /\ row.status = "syncing" /\ ~row.stuck
  /\ Handled => "slow" \in Faults
  /\ row' = [row EXCEPT !.stuck = TRUE]
  /\ UNCHANGED <<proc, admin, chainVars, lost, now, boundVars>>

BackoffElapses ==
  /\ row.status = "pending" /\ ~row.due
  /\ row' = [row EXCEPT !.due = TRUE]
  /\ UNCHANGED <<proc, admin, chainVars, lost, now, boundVars>>

Settle(t, state, id) == txs' = [txs EXCEPT ![t] = [@ EXCEPT !.state = state, !.id = id]]

\* createElection executes: the closing time has to be still to come.
Mine(t) ==
  /\ t \in DOMAIN txs /\ txs[t].state = "pooled"
  /\ \/ /\ txs[t].end > now
        /\ elections' = Append(elections, t)
        /\ Settle(t, "mined", Len(elections'))
        /\ UNCHANGED faults
     \/ /\ txs[t].end <= now
        /\ Settle(t, "reverted", 0)
        /\ UNCHANGED <<elections, faults>>
     \/ /\ Fault("revert")
        /\ Settle(t, "reverted", 0)
        /\ UNCHANGED elections
  /\ UNCHANGED <<dbVars, proc, admin, lost, now, edits>>

Drop(t) ==
  /\ t \in DOMAIN txs /\ txs[t].state = "pooled"
  /\ Fault("drop")
  /\ Settle(t, "dropped", 0)
  /\ UNCHANGED <<dbVars, proc, admin, elections, lost, now, edits>>

Foreign == {i \in DOMAIN elections : elections[i] = NoTx}

\* Another election is registered in the same contract.
OtherCreates ==
  /\ Cardinality(Foreign) < MaxOthers
  /\ elections' = Append(elections, NoTx)
  /\ UNCHANGED <<dbVars, proc, admin, txs, lost, now, boundVars>>

Tick ==
  /\ now < MaxTime
  /\ now' = now + 1
  /\ UNCHANGED <<dbVars, proc, admin, chainVars, lost, boundVars>>

Next ==
  \/ \E p \in Proc : RunStep(p) \/ RunStart(p, TRUE) \/ Abort(p) \/ Crash(p)
  \/ EditCheck \/ EditWrite
  \/ ClaimGoesStale \/ BackoffElapses
  \/ \E t \in TxId : Mine(t) \/ Drop(t)
  \/ OtherCreates \/ Tick

Spec == Init /\ [][Next]_vars

(***************************************************************************)
(* The job of index.ts runs every five minutes and its awaits settle; the  *)
(* administrator finishes an edit; claims age and backoffs elapse; a       *)
(* pooled transaction is mined; the button is pressed while the election   *)
(* is unregistered, hence strong fairness: a run may be under way.         *)
(***************************************************************************)
Fairness ==
  /\ \A p \in Proc : WF_vars(RunStep(p)) /\ SF_vars(RunStart(p, TRUE))
  /\ WF_vars(EditWrite) /\ WF_vars(ClaimGoesStale) /\ WF_vars(BackoffElapses)
  /\ \A t \in TxId : WF_vars(Mine(t))

FairSpec == Spec /\ Fairness
-----------------------------------------------------------------------------
(* Properties.                                                             *)

(* Every variable has its type; a claimed row has counted the attempt,     *)
(* which is what ends the retries (syncElections.ts:273, 342).             *)
TypeOK ==
  /\ row \in Row
  /\ row.status = "syncing" => row.attempts > 0
  /\ proc \in [Proc -> Run]
  /\ admin = NoEdit \/ admin \in [op : {"patch", "add"}, end : End \cup {0}]
  /\ txs \in Seq(Transaction) /\ Len(txs) <= MaxSends
  /\ elections \in Seq(TxRef)
  /\ lost \subseteq TxId
  /\ now \in Nat /\ edits \in Nat /\ faults \in Nat

(* A synced row points at an election that one of its own transactions     *)
(* created, never at one that somebody else registered meanwhile: the id   *)
(* comes from the event of the receipt (syncElections.ts:25-27).           *)
IdIsOwnElection ==
  row.status = "synced" =>
    /\ row.chainId \in DOMAIN elections
    /\ elections[row.chainId] # NoTx
    /\ txs[elections[row.chainId]].id = row.chainId

(* What the contract fixed for a synced election is what the database      *)
(* shows: the closing time, and the number of candidates on which the      *)
(* contract accepts a vote (admin/elections.ts:377-391 and 603-620).       *)
SyncedMatchesContract ==
  row.status = "synced" =>
    LET terms == txs[elections[row.chainId]]
    IN  terms.end = row.end /\ terms.count = row.count

(* The contract holds at most one election for the row, apart from those   *)
(* whose transaction hash never reached the database: the gap which        *)
(* syncElections.ts:40-43 accepts.                                         *)
OneElection ==
  \A i, j \in DOMAIN elections \ Foreign :
    elections[i] \notin lost /\ elections[j] \notin lost => i = j

(* Once synced, always synced with the same id (syncElections.ts:22).      *)
SyncedIsTerminal ==
  [][row.status = "synced" => row'.status = "synced" /\ row'.chainId = row.chainId]_vars

(* The elections that the contract holds for the row, each with the terms  *)
(* it fixed, and what the row shows of one once it is synced.  A hash that *)
(* is on its way to the row, or lost on the way, is not known there.       *)
Known(t) ==
  /\ t \notin {NoTx} \cup lost
  /\ \A p \in Proc : ~(proc[p].at = "save" /\ proc[p].tx = t)

Registered ==
  {[id |-> i, end |-> txs[elections[i]].end, count |-> txs[elections[i]].count] :
     i \in {i \in DOMAIN elections : Known(elections[i])}}

Published ==
  IF row.status = "synced" THEN {[id |-> row.chainId, end |-> row.end, count |-> row.count]}
  ELSE {}

Contract == INSTANCE Registration WITH registered <- Registered, published <- Published

(* The runs, of any processes, with their claims, hashes and retries,      *)
(* implement a registration: the contract gets the election once, and what *)
(* the database then shows of it is what the contract took, for good       *)
(* (syncElections.ts:22-43, admin/elections.ts:377-391).                   *)
SyncIsRegistration == Contract!Spec

(* While it has candidates and is open, an election ends up registered in  *)
(* spite of crashes, lost answers and failed attempts, as the job and the  *)
(* button retry it (app.ts:354, index.ts:240-244), unless its transaction  *)
(* is mined and reverts.                                                   *)
Reverted == row.hash \in DOMAIN txs /\ txs[row.hash].state = "reverted"

Registers == row.count > 0 ~> (row.status = "synced" \/ now >= row.end \/ Reverted)

=============================================================================
