--------------------------- MODULE ChainSyncProofs ---------------------------
(***************************************************************************)
(* Proofs about ChainSync, for all processes, closing times and bounds:    *)
(*   - the type invariant, and that a synced row has the id of an election *)
(*     its own transaction created, whatever Faults happen;                *)
(*   - if claims do not outlive STUCK_MS, synced is terminal and the       *)
(*     contract has no second election that the database knew of;          *)
(*   - if moreover failed rows with a hash are not edited and no claim     *)
(*     lands inside an edit, a synced row says what the contract says, and *)
(*     the whole implements a registration.                                *)
(***************************************************************************)
EXTENDS ChainSync, SequenceTheorems, TLAPS

(* What a run has in hand: a closing time to send, a transaction to wait   *)
(* for, and the id that the receipt of that transaction carried.           *)
Knows(run) ==
  /\ run.at \in {"list", "send"} => run.end \in End
  /\ run.at \in {"save", "confirm", "record"} => run.tx \in DOMAIN txs
  /\ run.at = "record" => txs[run.tx].state = "mined" /\ txs[run.tx].id = run.id

RunKnows == \A p \in Proc : Knows(proc[p])

HashKnown == row.hash = NoTx \/ row.hash \in DOMAIN txs

(* An edit that passed its check can be written.                           *)
EditFits == /\ admin.op = "patch" => admin.end \in End
            /\ admin.op = "add" => row.count < MaxCandidates

(* The contract's elections and the mined transactions correspond.         *)
LogsMatch ==
  /\ \A t \in DOMAIN txs : txs[t].state = "mined" =>
       txs[t].id \in DOMAIN elections /\ elections[txs[t].id] = t
  /\ \A i \in DOMAIN elections : elections[i] # NoTx =>
       /\ elections[i] \in DOMAIN txs
       /\ txs[elections[i]].state = "mined"
       /\ txs[elections[i]].id = i

Inv == TypeOK /\ RunKnows /\ HashKnown /\ EditFits /\ LogsMatch /\ IdIsOwnElection

LEMMA InitInv == Init => Inv
<1> SUFFICES ASSUME Init PROVE Inv
  OBVIOUS
<1>1. row \in Row /\ row.status = "pending" /\ row.hash = NoTx
  BY ChainSyncAssumption DEF Init, Row, TxRef, TxId, NoTx
<1>2. Idle \in Run /\ Idle.at = "idle"
  BY ChainSyncAssumption DEF Idle, Run, TxRef, NoTx, Stage
<1>3. TypeOK
  BY <1>1, <1>2, ChainSyncAssumption DEF Init, TypeOK, NoEdit
<1> QED
  BY <1>1, <1>2, <1>3 DEF Init, Inv, RunKnows, Knows, HashKnown, EditFits, LogsMatch,
     IdIsOwnElection, NoEdit

(***************************************************************************)
(* What the steps of a run do to the other variables.                      *)
(***************************************************************************)
LEMMA Quiet ==
  ASSUME Inv, NEW p \in Proc,
         \/ \E b \in BOOLEAN : RunStart(p, b)
         \/ Reclaim(p) \/ Select(p) \/ Claim(p) \/ ReadRow(p) \/ ReadList(p)
         \/ Confirm(p) \/ RecordSynced(p) \/ Fail(p) \/ Abort(p)
  PROVE  UNCHANGED <<admin, txs, elections, lost>>
BY DEF RunStart, Reclaim, Select, Claim, ReadRow, ReadList, Confirm, RecordSynced, Fail,
   Abort, chainVars

(* What moving a run does to it and to the others.                         *)
Others(p) == \A q \in Proc \ {p} : proc'[q] = proc[q]

LEMMA GoToRun ==
  ASSUME TypeOK, NEW p \in Proc, NEW stage \in Stage, GoTo(p, stage)
  PROVE  /\ proc' \in [Proc -> Run] /\ Others(p)
         /\ proc'[p] = [proc[p] EXCEPT !.at = stage] /\ proc'[p].at = stage
         /\ proc'[p].end = proc[p].end /\ proc'[p].count = proc[p].count
         /\ proc'[p].tx = proc[p].tx /\ proc'[p].id = proc[p].id
<1> DEFINE new == [proc[p] EXCEPT !.at = stage]
<1>1. proc[p] \in Run
  BY DEF TypeOK
<1>2. /\ new \in Run /\ new.at = stage /\ new.end = proc[p].end /\ new.count = proc[p].count
      /\ new.tx = proc[p].tx /\ new.id = proc[p].id
  BY <1>1 DEF Run
<1>3. proc' = [proc EXCEPT ![p] = new]
  BY DEF GoTo
<1> HIDE DEF new
<1>4. proc' \in [Proc -> Run] /\ Others(p) /\ proc'[p] = new
  BY <1>2, <1>3 DEF TypeOK, Others
<1> QED
  BY <1>2, <1>4 DEF new

LEMMA ThrowRun ==
  ASSUME TypeOK, NEW p \in Proc, NEW why \in {"error", "dropped", "invalid"}, Throw(p, why)
  PROVE  /\ proc' \in [Proc -> Run] /\ Others(p)
         /\ proc'[p].at = "fail" /\ proc'[p].why = why /\ proc'[p].tx = proc[p].tx
<1> DEFINE new == [proc[p] EXCEPT !.at = "fail", !.why = why]
<1>1. proc[p] \in Run
  BY DEF TypeOK
<1>2. new \in Run /\ new.at = "fail" /\ new.why = why /\ new.tx = proc[p].tx
  BY <1>1 DEF Run, Stage
<1>3. proc' = [proc EXCEPT ![p] = new]
  BY DEF Throw
<1> HIDE DEF new
<1> QED
  BY <1>2, <1>3 DEF TypeOK, Others

LEMMA EndRunRun ==
  ASSUME TypeOK, NEW p \in Proc, EndRun(p)
  PROVE  proc' \in [Proc -> Run] /\ Others(p) /\ proc'[p] = Idle /\ proc'[p].at = "idle"
<1>1. Idle \in Run /\ Idle.at = "idle"
  BY ChainSyncAssumption DEF Idle, Run, TxRef, NoTx, Stage
<1> HIDE DEF Idle
<1> QED
  BY <1>1 DEF EndRun, TypeOK, Others

(* The rows that the statements of a run write.                            *)
SameTerms(new) == new.end = row.end /\ new.count = row.count

LEMMA RetriedRow ==
  ASSUME TypeOK
  PROVE  /\ Retried \in Row /\ SameTerms(Retried)
         /\ Retried.hash = row.hash /\ Retried.chainId = row.chainId
         /\ row.status = "failed" => Retried.status = "pending"
         /\ row.status # "failed" => Retried = row
<1>1. CASE row.status = "failed"
  <2>1. 0 \in 0 .. ChainMaxAttempts
    BY ChainSyncAssumption
  <2>2. Retried = [row EXCEPT !.status = "pending", !.attempts = 0, !.due = TRUE]
    BY <1>1 DEF Retried
  <2> QED
    BY <1>1, <2>1, <2>2 DEF TypeOK, Row, SameTerms
<1>2. CASE row.status # "failed"
  BY <1>2 DEF TypeOK, Retried, SameTerms
<1> QED
  BY <1>1, <1>2

LEMMA ReclaimedRow ==
  ASSUME TypeOK
  PROVE  /\ Reclaimed \in Row /\ SameTerms(Reclaimed)
         /\ Reclaimed.hash = row.hash /\ Reclaimed.chainId = row.chainId
         /\ row.status = "syncing" /\ row.stuck => Reclaimed.status = "pending"
         /\ ~(row.status = "syncing" /\ row.stuck) => Reclaimed = row
BY DEF TypeOK, Row, Reclaimed, SameTerms

LEMMA ClaimedRow ==
  ASSUME TypeOK
  PROVE  /\ Claimed \in Row /\ SameTerms(Claimed) /\ Claimed.attempts > 0
         /\ Claimed.hash = row.hash /\ Claimed.chainId = row.chainId
         /\ Claimed.status = "syncing" /\ Claimed.stuck = FALSE
<1>1. Incremented(row.attempts) \in 0 .. ChainMaxAttempts /\ Incremented(row.attempts) > 0
  BY SMTT(30), ChainSyncAssumption DEF TypeOK, Row, Incremented
<1> QED
  BY <1>1 DEF TypeOK, Row, Claimed, SameTerms

LEMMA SentRow ==
  ASSUME TypeOK, NEW t \in TxRef
  PROVE  /\ Sent(t) \in Row /\ SameTerms(Sent(t)) /\ Sent(t).attempts = row.attempts
         /\ Sent(t).hash = t /\ Sent(t).chainId = row.chainId
         /\ Sent(t).status = row.status /\ Sent(t).stuck = row.stuck
BY DEF TypeOK, Row, Sent, SameTerms

LEMMA SyncedRow ==
  ASSUME TypeOK, NEW i \in Nat
  PROVE  /\ Synced(i) \in Row /\ SameTerms(Synced(i))
         /\ Synced(i).hash = row.hash /\ Synced(i).chainId = i /\ Synced(i).status = "synced"
BY DEF TypeOK, Row, Synced, SameTerms

LEMMA NotSyncedRow ==
  ASSUME TypeOK, NEW final \in BOOLEAN, NEW clear \in BOOLEAN
  PROVE  LET new == NotSynced(final, clear)
         IN  /\ new \in Row /\ SameTerms(new) /\ new.chainId = row.chainId
             /\ new.status \in {"pending", "failed"}
             /\ new.hash = IF clear THEN NoTx ELSE row.hash
<1>1. NoTx \in TxRef
  BY DEF TxRef
<1>2. CASE final /\ clear
  BY <1>1, <1>2 DEF TypeOK, Row, NotSynced, SameTerms
<1>3. CASE final /\ ~clear
  BY <1>1, <1>3 DEF TypeOK, Row, NotSynced, SameTerms
<1>4. CASE ~final /\ clear
  BY <1>1, <1>4 DEF TypeOK, Row, NotSynced, SameTerms
<1>5. CASE ~final /\ ~clear
  BY <1>1, <1>5 DEF TypeOK, Row, NotSynced, SameTerms
<1> QED
  BY <1>2, <1>3, <1>4, <1>5

(***************************************************************************)
(* What each step of a run changes, in terms of fields.                    *)
(***************************************************************************)
SameChain == UNCHANGED <<admin, txs, elections, lost>>
SameRow   == UNCHANGED row

LEMMA RunStartEffect ==
  ASSUME Inv, NEW p \in Proc, NEW b \in BOOLEAN, RunStart(p, b)
  PROVE  /\ TypeOK' /\ SameChain /\ Others(p) /\ SameTerms(row')
         /\ proc[p].at = "idle" /\ proc'[p].at = "reclaim"
         /\ row'.hash = row.hash /\ row'.chainId = row.chainId
         /\ row' = row \/ (row.status = "failed" /\ row'.status = "pending")
<1> USE DEF Inv
<1>1. Others(p) /\ proc' \in [Proc -> Run] /\ proc[p].at = "idle" /\ proc'[p].at = "reclaim"
  BY GoToRun DEF RunStart, Stage
<1>2. row' = Retried \/ row' = row
  BY DEF RunStart
<1>3. SameChain /\ UNCHANGED <<now, edits, faults>>
  BY DEF RunStart, chainVars, boundVars, SameChain
<1>4. row' = row \/ (row.status = "failed" /\ row'.status = "pending")
  BY <1>2, RetriedRow
<1>5. /\ SameTerms(row') /\ row'.hash = row.hash /\ row'.chainId = row.chainId /\ row' \in Row
      /\ row'.status = "syncing" => row'.attempts > 0
  BY <1>2, <1>4, RetriedRow DEF SameTerms, TypeOK
<1> QED
  BY <1>1, <1>3, <1>4, <1>5 DEF TypeOK, SameChain

LEMMA ReclaimEffect ==
  ASSUME Inv, NEW p \in Proc, Reclaim(p)
  PROVE  /\ TypeOK' /\ SameChain /\ Others(p) /\ SameTerms(row')
         /\ proc[p].at = "reclaim" /\ proc'[p].at = "select"
         /\ row'.hash = row.hash /\ row'.chainId = row.chainId
         /\ row' = row \/ (row.status = "syncing" /\ row.stuck /\ row'.status = "pending")
<1> USE DEF Inv
<1>1. /\ Others(p) /\ proc' \in [Proc -> Run]
      /\ proc[p].at = "reclaim" /\ proc'[p].at = "select"
  BY GoToRun DEF Reclaim, Stage
<1>2. row' = Reclaimed /\ SameChain /\ UNCHANGED <<now, edits, faults>>
  BY DEF Reclaim, chainVars, boundVars, SameChain
<1> QED
  BY <1>1, <1>2, ReclaimedRow DEF TypeOK, SameChain

LEMMA SelectEffect ==
  ASSUME Inv, NEW p \in Proc, Select(p)
  PROVE  /\ TypeOK' /\ SameChain /\ SameRow /\ Others(p)
         /\ proc[p].at = "select" /\ proc'[p].at \in {"claim", "idle"}
<1> USE DEF Inv
<1>1. Others(p) /\ proc' \in [Proc -> Run] /\ proc'[p].at \in {"claim", "idle"}
  BY GoToRun, EndRunRun DEF Select, Stage
<1>2. SameChain /\ SameRow /\ UNCHANGED <<now, edits, faults>> /\ proc[p].at = "select"
  BY DEF Select, chainVars, boundVars, dbVars, SameChain, SameRow
<1> QED
  BY <1>1, <1>2 DEF TypeOK, SameChain, SameRow

LEMMA ClaimEffect ==
  ASSUME Inv, NEW p \in Proc, Claim(p)
  PROVE  /\ TypeOK' /\ SameChain /\ Others(p) /\ SameTerms(row') /\ proc[p].at = "claim"
         /\ row'.hash = row.hash /\ row'.chainId = row.chainId
         /\ \/ row' = row /\ proc'[p].at = "idle"
            \/ /\ row.status = "pending" /\ row'.status = "syncing" /\ row'.stuck = FALSE
               /\ proc'[p].at = "read" /\ (admin = NoEdit \/ "adminRace" \in Faults)
<1> USE DEF Inv
<1>1. SameChain /\ UNCHANGED <<now, edits, faults>> /\ proc[p].at = "claim"
  BY DEF Claim, chainVars, boundVars, SameChain
<1>2. CASE row.status = "pending"
  <2>1. row' = Claimed /\ GoTo(p, "read") /\ (admin = NoEdit \/ "adminRace" \in Faults)
    BY <1>2 DEF Claim
  <2>2. Others(p) /\ proc' \in [Proc -> Run] /\ proc'[p].at = "read"
    BY <2>1, GoToRun DEF Stage
  <2> QED
    BY <1>1, <1>2, <2>1, <2>2, ClaimedRow DEF TypeOK, SameChain
<1>3. CASE row.status # "pending"
  <2>1. row' = row /\ EndRun(p)
    BY <1>3 DEF Claim
  <2>2. Others(p) /\ proc' \in [Proc -> Run] /\ proc'[p].at = "idle"
    BY <2>1, EndRunRun
  <2> QED
    BY <1>1, <2>1, <2>2 DEF TypeOK, SameChain, SameTerms
<1> QED
  BY <1>2, <1>3

(* What a run remembers of the row when it reads it.                       *)
LEMMA SeenRun ==
  ASSUME NEW run \in Run, row \in Row, NEW stage \in Stage, NEW why \in {"none", "invalid"}
  PROVE  LET new == Seen(run, stage, why)
         IN  /\ new \in Run /\ new.at = stage /\ new.why = why
             /\ new.end = row.end /\ new.tx = row.hash
  BY DEF Row, Run, Seen

LEMMA ReadRowEffect ==
  ASSUME Inv, NEW p \in Proc, ReadRow(p)
  PROVE  /\ TypeOK' /\ SameChain /\ SameRow /\ Others(p) /\ proc[p].at = "read"
         /\ proc'[p].tx = row.hash /\ proc'[p].end = row.end
         /\ \/ proc'[p].at = "confirm" /\ row.hash # NoTx
            \/ proc'[p].at = "fail" /\ proc'[p].why = "invalid"
            \/ proc'[p].at = "list" /\ row.hash = NoTx
<1> USE DEF Inv
<1>1. ASSUME NEW stage \in Stage, NEW why \in {"none", "invalid"}
      PROVE  LET new == Seen(proc[p], stage, why)
             IN  /\ new \in Run /\ new.at = stage /\ new.why = why
                 /\ new.end = row.end /\ new.tx = row.hash
  <2>1. proc[p] \in Run /\ row \in Row
    BY DEF TypeOK
  <2> QED
    BY <2>1, SeenRun
<1>2. SameChain /\ SameRow /\ UNCHANGED <<now, edits, faults>> /\ proc[p].at = "read"
  BY DEF ReadRow, chainVars, boundVars, dbVars, SameChain, SameRow
<1>3. PICK new \in Run : /\ proc' = [proc EXCEPT ![p] = new]
                         /\ new.tx = row.hash /\ new.end = row.end
                         /\ \/ new.at = "confirm" /\ row.hash # NoTx
                            \/ new.at = "fail" /\ new.why = "invalid"
                            \/ new.at = "list" /\ row.hash = NoTx
  BY ZenonT(40), <1>1 DEF ReadRow, Stage
<1> QED
  BY <1>2, <1>3 DEF TypeOK, SameChain, SameRow, Others

LEMMA ReadListEffect ==
  ASSUME Inv, NEW p \in Proc, ReadList(p)
  PROVE  /\ TypeOK' /\ SameChain /\ SameRow /\ Others(p) /\ proc[p].at = "list"
         /\ proc'[p].tx = proc[p].tx
         /\ \/ proc'[p].at = "fail" /\ proc'[p].why \in {"invalid", "error"}
            \/ /\ proc'[p].at = "send" /\ proc'[p].end = proc[p].end
               /\ proc'[p].count = row.count
<1> USE DEF Inv
<1>1. /\ SameChain /\ SameRow /\ UNCHANGED <<now, edits>> /\ faults' \in Nat
      /\ proc[p].at = "list"
  BY DEF ReadList, chainVars, dbVars, SameChain, SameRow, Fault, TypeOK
<1>2. CASE \E why \in {"invalid", "error"} : Throw(p, why)
  BY <1>1, <1>2, ThrowRun DEF TypeOK, SameChain, SameRow
<1>3. CASE proc' = [proc EXCEPT ![p].at = "send", ![p].count = row.count]
  <2> DEFINE new == [proc[p] EXCEPT !.at = "send", !.count = row.count]
  <2>1. /\ new \in Run /\ new.at = "send" /\ new.end = proc[p].end
        /\ new.count = row.count /\ new.tx = proc[p].tx
    <3>1. proc[p] \in Run /\ row.count \in 0 .. MaxCandidates
      BY DEF TypeOK, Row
    <3> QED
      BY <3>1 DEF Run, Stage
  <2>2. proc' = [proc EXCEPT ![p] = new]
    BY <1>3
  <2> HIDE DEF new
  <2> QED
    BY <1>1, <2>1, <2>2 DEF TypeOK, SameChain, SameRow, Others
<1> QED
  BY <1>2, <1>3 DEF ReadList

(* A transaction accepted by the node is the last one, still pooled.       *)
LEMMA AcceptEffect ==
  ASSUME Inv, NEW p \in Proc, proc[p].at = "send", Accept(p)
  PROVE  /\ txs' \in Seq(Transaction) /\ Len(txs') <= MaxSends
         /\ Len(txs') = Len(txs) + 1 /\ Len(txs') \in TxId
         /\ \A t \in DOMAIN txs : t \in DOMAIN txs' /\ txs'[t] = txs[t]
         /\ DOMAIN txs' = DOMAIN txs \cup {Len(txs')} /\ Len(txs') \notin DOMAIN txs
         /\ txs'[Len(txs')].end = proc[p].end /\ txs'[Len(txs')].count = proc[p].count
         /\ txs'[Len(txs')].state = "pooled"
<1> DEFINE new == [end |-> proc[p].end, count |-> proc[p].count, state |-> "pooled", id |-> 0]
<1>1. /\ new \in Transaction /\ new.end = proc[p].end /\ new.count = proc[p].count
      /\ new.state = "pooled"
  BY DEF Inv, TypeOK, RunKnows, Knows, Run, Transaction
<1>2. txs \in Seq(Transaction) /\ Len(txs) \in Nat /\ Len(txs) < MaxSends
  BY LenProperties DEF Inv, TypeOK, Accept
<1>3. txs' = Append(txs, new)
  BY DEF Accept
<1> HIDE DEF new
<1>4. /\ txs' \in Seq(Transaction) /\ Len(txs') = Len(txs) + 1
      /\ \A i \in 1 .. Len(txs) : txs'[i] = txs[i]
      /\ txs'[Len(txs) + 1] = new
  BY <1>1, <1>2, <1>3, AppendProperties
<1>5. DOMAIN txs = 1 .. Len(txs) /\ DOMAIN txs' = 1 .. Len(txs')
  BY <1>2, <1>4, LenProperties
<1> QED
  BY <1>1, <1>2, <1>4, <1>5, ChainSyncAssumption DEF TxId

LEMMA SendEffect ==
  ASSUME Inv, NEW p \in Proc, Send(p)
  PROVE  /\ TypeOK' /\ SameRow /\ UNCHANGED <<admin, elections>> /\ Others(p)
         /\ proc[p].at = "send"
         /\ \/ /\ Accept(p) /\ lost' = lost
               /\ proc'[p].at = "save" /\ proc'[p].tx = Len(txs')
            \/ /\ Accept(p) /\ lost' = lost \cup {Len(txs')}
               /\ proc'[p].at = "fail" /\ proc'[p].why = "error"
            \/ /\ UNCHANGED <<txs, lost>>
               /\ proc'[p].at = "fail" /\ proc'[p].why = "error"
<1> USE DEF Inv
<1>1. /\ SameRow /\ UNCHANGED <<admin, elections, now, edits>> /\ faults' \in Nat
      /\ proc[p].at = "send"
  BY DEF Send, dbVars, SameRow, Fault, TypeOK
<1>2. CASE /\ Accept(p) /\ lost' = lost
           /\ proc' = [proc EXCEPT ![p].at = "save", ![p].tx = Len(txs')]
  <2> DEFINE new == [proc[p] EXCEPT !.at = "save", !.tx = Len(txs')]
  <2>1. new \in Run /\ new.at = "save" /\ new.tx = Len(txs')
    <3>1. proc[p] \in Run /\ Len(txs') \in TxRef
      BY <1>1, <1>2, AcceptEffect DEF TypeOK, TxRef
    <3> QED
      BY <3>1 DEF Run, Stage
  <2>2. proc' = [proc EXCEPT ![p] = new]
    BY <1>2
  <2> HIDE DEF new
  <2> QED
    BY ZenonT(40), <1>1, <1>2, <2>1, <2>2, AcceptEffect DEF TypeOK, SameRow, Others
<1>3. CASE Accept(p) /\ lost' = lost \cup {Len(txs')} /\ Throw(p, "error")
  BY <1>1, <1>3, AcceptEffect, ThrowRun DEF TypeOK, SameRow
<1>4. CASE UNCHANGED <<txs, lost>> /\ Throw(p, "error")
  BY <1>1, <1>4, ThrowRun DEF TypeOK, SameRow
<1> QED
  BY <1>2, <1>3, <1>4 DEF Send

LEMMA SaveHashEffect ==
  ASSUME Inv, NEW p \in Proc, SaveHash(p)
  PROVE  /\ TypeOK' /\ UNCHANGED <<admin, txs, elections>> /\ Others(p) /\ SameTerms(row')
         /\ proc[p].at = "save" /\ proc'[p].tx = proc[p].tx
         /\ row'.chainId = row.chainId /\ row'.status = row.status /\ row'.stuck = row.stuck
         /\ \/ row'.hash = proc[p].tx /\ lost' = lost /\ proc'[p].at = "confirm"
            \/ /\ row' = row /\ lost' = lost \cup {proc[p].tx}
               /\ proc'[p].at = "fail" /\ proc'[p].why = "error"
<1> USE DEF Inv
<1>1. /\ UNCHANGED <<admin, txs, elections, now, edits>> /\ faults' \in Nat
      /\ proc[p].at = "save"
  BY DEF SaveHash, chainVars, Fault, TypeOK
<1>2. proc[p].tx \in TxRef /\ proc[p].tx \in TxId
  <2>1. proc[p].tx \in TxRef /\ proc[p].tx \in 1 .. Len(txs) /\ Len(txs) \in Nat
    BY <1>1, LenProperties DEF TypeOK, Run, RunKnows, Knows
  <2> QED
    BY <2>1 DEF TxRef, NoTx
<1>3. CASE row' = Sent(proc[p].tx) /\ GoTo(p, "confirm") /\ lost' = lost
  BY <1>1, <1>2, <1>3, SentRow, GoToRun DEF TypeOK, Stage
<1>4. CASE row' = row /\ lost' = lost \cup {proc[p].tx} /\ Throw(p, "error")
  BY <1>1, <1>2, <1>4, ThrowRun DEF TypeOK, SameTerms
<1> QED
  BY <1>3, <1>4 DEF SaveHash

LEMMA ConfirmEffect ==
  ASSUME Inv, NEW p \in Proc, Confirm(p)
  PROVE  /\ TypeOK' /\ SameChain /\ SameRow /\ Others(p) /\ proc[p].at = "confirm"
         /\ proc'[p].tx = proc[p].tx
         /\ \/ /\ proc'[p].at = "record" /\ txs[proc[p].tx].state = "mined"
               /\ proc'[p].id = txs[proc[p].tx].id
            \/ /\ proc'[p].at = "fail"
               /\ proc'[p].why = "dropped" => txs[proc[p].tx].state = "dropped"
<1> USE DEF Inv
<1>1. /\ SameChain /\ SameRow /\ UNCHANGED <<now, edits>> /\ faults' \in Nat
      /\ proc[p].at = "confirm"
  BY DEF Confirm, chainVars, dbVars, SameChain, SameRow, Fault, TypeOK
<1>2. txs[proc[p].tx] \in Transaction
  BY <1>1 DEF TypeOK, RunKnows, Knows
<1>3. CASE /\ txs[proc[p].tx].state = "mined"
           /\ proc' = [proc EXCEPT ![p].at = "record", ![p].id = txs[proc[p].tx].id]
  <2> DEFINE new == [proc[p] EXCEPT !.at = "record", !.id = txs[proc[p].tx].id]
  <2>1. new \in Run /\ new.at = "record" /\ new.id = txs[proc[p].tx].id /\ new.tx = proc[p].tx
    <3>1. proc[p] \in Run /\ txs[proc[p].tx].id \in Nat
      BY <1>2 DEF TypeOK, Transaction
    <3> QED
      BY <3>1 DEF Run, Stage
  <2>2. proc' = [proc EXCEPT ![p] = new]
    BY <1>3
  <2> HIDE DEF new
  <2> QED
    BY <1>1, <1>3, <2>1, <2>2 DEF TypeOK, SameChain, SameRow, Others
<1>4. CASE txs[proc[p].tx].state = "dropped" /\ Throw(p, "dropped")
  BY <1>1, <1>4, ThrowRun DEF TypeOK, SameChain, SameRow
<1>5. CASE Throw(p, "error")
  BY <1>1, <1>5, ThrowRun DEF TypeOK, SameChain, SameRow
<1> QED
  BY <1>3, <1>4, <1>5 DEF Confirm

LEMMA RecordSyncedEffect ==
  ASSUME Inv, NEW p \in Proc, RecordSynced(p)
  PROVE  /\ TypeOK' /\ SameChain /\ Others(p) /\ SameTerms(row') /\ proc[p].at = "record"
         /\ row'.hash = row.hash
         /\ \/ /\ row'.status = "synced" /\ row'.chainId = proc[p].id
               /\ proc'[p].at = "idle"
            \/ row' = row /\ proc'[p].at = "fail" /\ proc'[p].why = "error"
<1> USE DEF Inv
<1>1. /\ SameChain /\ UNCHANGED <<now, edits>> /\ faults' \in Nat /\ proc[p].at = "record"
  BY DEF RecordSynced, chainVars, SameChain, Fault, TypeOK
<1>2. proc[p].id \in Nat
  BY DEF TypeOK, Run
<1>3. CASE row' = Synced(proc[p].id) /\ EndRun(p)
  BY <1>1, <1>2, <1>3, SyncedRow, EndRunRun DEF TypeOK, SameChain
<1>4. CASE row' = row /\ Throw(p, "error")
  BY <1>1, <1>4, ThrowRun DEF TypeOK, SameChain, SameTerms
<1> QED
  BY <1>3, <1>4 DEF RecordSynced

LEMMA FailEffect ==
  ASSUME Inv, NEW p \in Proc, Fail(p)
  PROVE  /\ TypeOK' /\ SameChain /\ Others(p) /\ SameTerms(row')
         /\ proc[p].at = "fail" /\ proc'[p].at = "idle"
         /\ row'.chainId = row.chainId /\ row'.status \in {"pending", "failed"}
         /\ row'.hash = IF proc[p].why = "dropped" THEN NoTx ELSE row.hash
<1> USE DEF Inv
<1>1. /\ SameChain /\ UNCHANGED <<now, edits, faults>> /\ proc[p].at = "fail"
      /\ EndRun(p)
  BY DEF Fail, chainVars, boundVars, SameChain
<1>2. PICK final \in BOOLEAN, clear \in BOOLEAN :
        row' = NotSynced(final, clear) /\ clear = (proc[p].why = "dropped")
  BY DEF Fail
<1> QED
  BY <1>1, <1>2, NotSyncedRow, EndRunRun DEF TypeOK, SameChain

(* A run that stops, by an error or by the death of its process.           *)
LEMMA StopEffect ==
  ASSUME Inv, NEW p \in Proc, Abort(p) \/ Crash(p)
  PROVE  /\ TypeOK' /\ SameRow /\ UNCHANGED <<admin, txs, elections>> /\ Others(p)
         /\ proc'[p].at = "idle"
         /\ lost' = IF proc[p].at = "save" THEN lost \cup {proc[p].tx} ELSE lost
<1> USE DEF Inv
<1>1. /\ SameRow /\ UNCHANGED <<admin, txs, elections, now, edits>> /\ faults' \in Nat
      /\ EndRun(p)
      /\ lost' = IF proc[p].at = "save" THEN lost \cup {proc[p].tx} ELSE lost
  BY DEF Abort, Crash, SameRow, dbVars, chainVars, Fault, TypeOK
<1>2. proc[p].at = "save" => proc[p].tx \in TxId
  <2>1. txs \in Seq(Transaction) /\ Len(txs) \in Nat /\ Len(txs) <= MaxSends
    BY LenProperties DEF TypeOK
  <2>2. DOMAIN txs = 1 .. Len(txs)
    BY <2>1, LenProperties
  <2> QED
    BY <2>1, <2>2, ChainSyncAssumption DEF RunKnows, Knows, TxId
<1> QED
  BY <1>1, <1>2, EndRunRun DEF TypeOK, SameRow

(***************************************************************************)
(* The administrator, time and the chain.                                  *)
(***************************************************************************)
LEMMA EditCheckEffect ==
  ASSUME Inv, EditCheck
  PROVE  /\ TypeOK' /\ EditFits' /\ UNCHANGED <<row, proc, txs, elections, lost>>
         /\ ~IsFrozen
         /\ row.status = "failed" /\ row.hash # NoTx => "editFailed" \in Faults
<1>1. /\ UNCHANGED <<row, proc, txs, elections, lost, now, faults>> /\ edits' \in Nat
      /\ ~IsFrozen
      /\ row.status = "failed" /\ row.hash # NoTx => "editFailed" \in Faults
      /\ \/ \E e \in End : admin' = [op |-> "patch", end |-> e]
         \/ row.count < MaxCandidates /\ admin' = [op |-> "add", end |-> 0]
  BY DEF EditCheck, dbVars, chainVars, Inv, TypeOK
<1> QED
  BY <1>1 DEF Inv, TypeOK, EditFits

LEMMA EditWriteEffect ==
  ASSUME Inv, EditWrite
  PROVE  /\ TypeOK' /\ EditFits' /\ UNCHANGED <<proc, txs, elections, lost>>
         /\ admin # NoEdit /\ admin' = NoEdit
         /\ row'.status = row.status /\ row'.stuck = row.stuck
         /\ row'.hash = row.hash /\ row'.chainId = row.chainId
<1>1. /\ UNCHANGED <<proc, txs, elections, lost, now, edits, faults>>
      /\ admin # NoEdit /\ admin' = NoEdit
  BY DEF EditWrite, chainVars, boundVars
<1>2. admin.op \in {"patch", "add"}
  BY <1>1 DEF Inv, TypeOK
<1>3. /\ row' \in Row /\ row'.status = row.status /\ row'.stuck = row.stuck
      /\ row'.hash = row.hash /\ row'.chainId = row.chainId /\ row'.attempts = row.attempts
  <2>1. CASE admin.op = "patch"
    <3>1. admin.end \in End /\ row' = [row EXCEPT !.end = admin.end]
      BY <2>1 DEF EditWrite, Inv, EditFits
    <3> QED
      BY <3>1 DEF Inv, TypeOK, Row
  <2>2. CASE admin.op = "add"
    <3>1. row.count + 1 \in 0 .. MaxCandidates
      BY SMTT(30), <2>2, ChainSyncAssumption DEF Inv, EditFits, TypeOK, Row
    <3>2. row' = [row EXCEPT !.count = row.count + 1]
      BY <2>2 DEF EditWrite
    <3> QED
      BY <3>1, <3>2 DEF Inv, TypeOK, Row
  <2> QED
    BY <1>2, <2>1, <2>2
<1>4. EditFits'
  BY <1>1 DEF EditFits, NoEdit
<1> QED
  BY <1>1, <1>3, <1>4 DEF Inv, TypeOK

LEMMA WaitEffect ==
  ASSUME Inv, ClaimGoesStale \/ BackoffElapses
  PROVE  /\ TypeOK' /\ UNCHANGED <<admin, proc, txs, elections, lost>>
         /\ SameTerms(row') /\ row'.status = row.status
         /\ row'.hash = row.hash /\ row'.chainId = row.chainId
         /\ \/ row.status = "pending"
            \/ Handled => "slow" \in Faults
<1>1. UNCHANGED <<admin, proc, txs, elections, lost, now, edits, faults>>
  BY DEF ClaimGoesStale, BackoffElapses, chainVars, boundVars
<1>2. \/ row' = [row EXCEPT !.stuck = TRUE] /\ (Handled => "slow" \in Faults)
      \/ row' = [row EXCEPT !.due = TRUE] /\ row.status = "pending"
  BY DEF ClaimGoesStale, BackoffElapses
<1> QED
  BY <1>1, <1>2 DEF Inv, TypeOK, Row, SameTerms

LEMMA SettleEffect ==
  ASSUME Inv, NEW t \in DOMAIN txs, NEW id \in Nat,
         NEW state \in {"mined", "reverted", "dropped"}, Settle(t, state, id)
  PROVE  /\ txs' \in Seq(Transaction) /\ Len(txs') = Len(txs) /\ DOMAIN txs' = DOMAIN txs
         /\ txs'[t].state = state /\ txs'[t].id = id
         /\ txs'[t].end = txs[t].end /\ txs'[t].count = txs[t].count
         /\ \A u \in DOMAIN txs \ {t} : txs'[u] = txs[u]
<1> DEFINE new == [txs[t] EXCEPT !.state = state, !.id = id]
<1>1. txs \in Seq(Transaction) /\ t \in 1 .. Len(txs) /\ txs[t] \in Transaction
  BY LenProperties DEF Inv, TypeOK
<1>2. /\ new \in Transaction /\ new.state = state /\ new.id = id
      /\ new.end = txs[t].end /\ new.count = txs[t].count
  BY <1>1 DEF Transaction
<1>3. txs' = [txs EXCEPT ![t] = new]
  BY DEF Settle
<1> HIDE DEF new
<1>4. /\ txs' \in Seq(Transaction) /\ Len(txs') = Len(txs)
      /\ \A u \in 1 .. Len(txs) : txs'[u] = IF u = t THEN new ELSE txs[u]
  BY <1>1, <1>2, <1>3, ExceptSeq
<1>5. DOMAIN txs = 1 .. Len(txs) /\ DOMAIN txs' = 1 .. Len(txs')
  BY <1>1, <1>4, LenProperties
<1> QED
  BY <1>1, <1>2, <1>4, <1>5

(* The contract appends an election: of transaction t, or of a stranger.   *)
LEMMA AppendElection ==
  ASSUME Inv, NEW t \in TxRef, elections' = Append(elections, t)
  PROVE  /\ elections' \in Seq(TxRef) /\ Len(elections') = Len(elections) + 1
         /\ Len(elections') \in Nat /\ Len(elections') \notin DOMAIN elections
         /\ DOMAIN elections' = DOMAIN elections \cup {Len(elections')}
         /\ \A i \in DOMAIN elections : elections'[i] = elections[i]
         /\ elections'[Len(elections')] = t
<1>1. elections \in Seq(TxRef) /\ Len(elections) \in Nat
  BY LenProperties DEF Inv, TypeOK
<1>2. /\ elections' \in Seq(TxRef) /\ Len(elections') = Len(elections) + 1
      /\ \A i \in 1 .. Len(elections) : elections'[i] = elections[i]
      /\ elections'[Len(elections) + 1] = t
  BY <1>1, AppendProperties
<1>3. DOMAIN elections = 1 .. Len(elections) /\ DOMAIN elections' = 1 .. Len(elections')
  BY <1>1, <1>2, LenProperties
<1> QED
  BY <1>1, <1>2, <1>3

LEMMA MineEffect ==
  ASSUME Inv, NEW t \in TxId, Mine(t) \/ Drop(t)
  PROVE  /\ TypeOK' /\ UNCHANGED <<row, proc, admin, lost>>
         /\ t \in DOMAIN txs /\ txs[t].state = "pooled" /\ DOMAIN txs' = DOMAIN txs
         /\ txs'[t].end = txs[t].end /\ txs'[t].count = txs[t].count
         /\ \A u \in DOMAIN txs \ {t} : txs'[u] = txs[u]
         /\ \/ /\ txs'[t].state = "mined" /\ elections' = Append(elections, t)
               /\ txs'[t].id = Len(elections')
            \/ txs'[t].state \in {"reverted", "dropped"} /\ elections' = elections
<1>1. /\ UNCHANGED <<row, proc, admin, lost, now, edits>> /\ faults' \in Nat
      /\ t \in DOMAIN txs /\ txs[t].state = "pooled"
  BY DEF Mine, Drop, dbVars, Fault, Inv, TypeOK
<1>2. CASE elections' = Append(elections, t) /\ Settle(t, "mined", Len(elections'))
  <2>1. t \in TxRef
    BY DEF TxRef
  <2> QED
    BY <1>1, <1>2, <2>1, SettleEffect, AppendElection DEF Inv, TypeOK
<1>3. CASE elections' = elections /\ \E state \in {"reverted", "dropped"} : Settle(t, state, 0)
  BY <1>1, <1>3, SettleEffect DEF Inv, TypeOK
<1> QED
  BY <1>2, <1>3 DEF Mine, Drop

LEMMA NextCases ==
  ASSUME [Next]_vars
  PROVE  \/ \E p \in Proc : RunStep(p) \/ RunStart(p, TRUE) \/ Abort(p) \/ Crash(p)
         \/ EditCheck \/ EditWrite \/ ClaimGoesStale \/ BackoffElapses
         \/ \E t \in TxId : Mine(t) \/ Drop(t)
         \/ OtherCreates \/ Tick \/ UNCHANGED vars
BY Zenon DEF Next

(***************************************************************************)
(* The invariant, whatever Faults happen.                                  *)
(***************************************************************************)
(* A step of one run that leaves the old transactions as they were.        *)
LEMMA OthersKnow ==
  ASSUME RunKnows, NEW p \in Proc, Others(p), Knows(proc[p])',
         \A t \in DOMAIN txs : t \in DOMAIN txs' /\ txs'[t] = txs[t]
  PROVE  RunKnows'
BY DEF RunKnows, Knows, Others

(* A step that leaves the chain alone and synchronises nothing.            *)
LEMMA KeepsRest ==
  ASSUME Inv, UNCHANGED <<admin, txs, elections>>, SameTerms(row'),
         row'.hash \in {NoTx, row.hash}, row'.chainId = row.chainId,
         row'.status = "synced" => row.status = "synced"
  PROVE  HashKnown' /\ EditFits' /\ LogsMatch' /\ IdIsOwnElection'
BY DEF Inv, HashKnown, EditFits, LogsMatch, IdIsOwnElection, SameTerms

LEMMA RunInv ==
  ASSUME Inv, NEW p \in Proc, RunStep(p) \/ RunStart(p, TRUE) \/ Abort(p) \/ Crash(p)
  PROVE  Inv'
<1> USE DEF Inv, SameChain, SameRow
<1>0. Knows(proc[p]) /\ row.end \in End /\ SameTerms(row)
  BY DEF RunKnows, TypeOK, Row, SameTerms
<1>1. CASE RunStart(p, FALSE) \/ RunStart(p, TRUE)
  <2>1. /\ TypeOK' /\ SameChain /\ Others(p) /\ SameTerms(row') /\ proc'[p].at = "reclaim"
        /\ row'.hash = row.hash /\ row'.chainId = row.chainId
        /\ row'.status = "synced" => row.status = "synced"
    BY <1>1, RunStartEffect
  <2> QED
    BY <2>1, KeepsRest, OthersKnow DEF Knows
<1>2. CASE Reclaim(p)
  <2>1. /\ TypeOK' /\ SameChain /\ Others(p) /\ SameTerms(row') /\ proc'[p].at = "select"
        /\ row'.hash = row.hash /\ row'.chainId = row.chainId
        /\ row'.status = "synced" => row.status = "synced"
    BY <1>2, ReclaimEffect
  <2> QED
    BY <2>1, KeepsRest, OthersKnow DEF Knows
<1>3. CASE Select(p)
  BY <1>0, <1>3, SelectEffect, KeepsRest, OthersKnow DEF Knows
<1>4. CASE Claim(p)
  <2>1. /\ TypeOK' /\ SameChain /\ Others(p) /\ SameTerms(row') /\ proc'[p].at \in {"idle", "read"}
        /\ row'.hash = row.hash /\ row'.chainId = row.chainId
        /\ row'.status = "synced" => row.status = "synced"
    BY <1>4, ClaimEffect
  <2> QED
    BY <2>1, KeepsRest, OthersKnow DEF Knows
<1>5. CASE ReadRow(p)
  <2>1. /\ TypeOK' /\ SameChain /\ SameRow /\ Others(p)
        /\ proc'[p].end = row.end /\ proc'[p].tx = row.hash
        /\ proc'[p].at \in {"confirm", "fail", "list"}
        /\ proc'[p].at = "confirm" => row.hash # NoTx
    BY <1>5, ReadRowEffect
  <2>2. Knows(proc[p])'
    BY <1>0, <2>1 DEF Knows, HashKnown
  <2> QED
    BY <1>0, <2>1, <2>2, KeepsRest, OthersKnow
<1>6. CASE ReadList(p)
  <2>1. /\ TypeOK' /\ SameChain /\ SameRow /\ Others(p)
        /\ proc[p].at = "list" /\ proc'[p].at \in {"fail", "send"}
        /\ proc'[p].at = "send" => proc'[p].end = proc[p].end
    BY <1>6, ReadListEffect
  <2> QED
    BY <1>0, <2>1, KeepsRest, OthersKnow DEF Knows
<1>7. CASE Send(p)
  <2>1. UNCHANGED <<row, admin, elections>> /\ TypeOK' /\ Others(p)
    BY <1>7, SendEffect
  <2>2. CASE Accept(p)
    <3>1. /\ DOMAIN txs' = DOMAIN txs \cup {Len(txs')}
          /\ \A t \in DOMAIN txs : t \in DOMAIN txs' /\ txs'[t] = txs[t]
          /\ txs'[Len(txs')].state = "pooled"
      BY <1>7, <2>2, SendEffect, AcceptEffect
    <3>2. LogsMatch'
      BY <2>1, <3>1 DEF LogsMatch
    <3>3. RunKnows'
      <4>1. \/ proc'[p].at = "save" /\ proc'[p].tx = Len(txs')
            \/ proc'[p].at = "fail"
        BY <1>7, SendEffect
      <4> QED
        BY <2>1, <3>1, <4>1, OthersKnow DEF Knows
    <3>4. HashKnown' /\ EditFits' /\ IdIsOwnElection'
      BY <2>1, <3>1 DEF HashKnown, EditFits, IdIsOwnElection, LogsMatch
    <3> QED
      BY <2>1, <3>2, <3>3, <3>4
  <2>3. CASE txs' = txs /\ proc'[p].at = "fail"
    BY <1>0, <2>1, <2>3, KeepsRest, OthersKnow DEF Knows
  <2> QED
    BY <1>7, <2>2, <2>3, SendEffect
<1>8. CASE SaveHash(p)
  <2>1. /\ TypeOK' /\ UNCHANGED <<admin, txs, elections>> /\ Others(p) /\ SameTerms(row')
        /\ proc[p].at = "save" /\ proc'[p].tx = proc[p].tx /\ row'.hash \in {row.hash, proc[p].tx}
        /\ row'.chainId = row.chainId /\ row'.status = row.status
        /\ proc'[p].at \in {"confirm", "fail"}
    BY <1>8, SaveHashEffect
  <2>2. HashKnown' /\ EditFits' /\ LogsMatch' /\ IdIsOwnElection'
    BY <1>0, <2>1 DEF Knows, HashKnown, EditFits, LogsMatch, IdIsOwnElection, SameTerms
  <2> QED
    BY <1>0, <2>1, <2>2, OthersKnow DEF Knows
<1>9. CASE Confirm(p)
  <2>1. /\ TypeOK' /\ SameChain /\ SameRow /\ Others(p)
        /\ proc[p].at = "confirm" /\ proc'[p].tx = proc[p].tx
        /\ proc'[p].at \in {"record", "fail"}
        /\ proc'[p].at = "record" =>
             txs[proc[p].tx].state = "mined" /\ proc'[p].id = txs[proc[p].tx].id
    BY <1>9, ConfirmEffect
  <2> QED
    BY <1>0, <2>1, KeepsRest, OthersKnow DEF Knows
<1>10. CASE RecordSynced(p)
  <2>1. /\ TypeOK' /\ SameChain /\ Others(p) /\ SameTerms(row') /\ proc[p].at = "record"
        /\ row'.hash = row.hash /\ proc'[p].at \in {"idle", "fail"}
        /\ row'.chainId = proc[p].id \/ row' = row
    BY <1>10, RecordSyncedEffect
  <2>2. RunKnows'
    BY <2>1, OthersKnow DEF Knows
  <2>3. CASE row' = row
    BY <1>0, <2>1, <2>2, <2>3, KeepsRest
  <2>4. CASE row'.chainId = proc[p].id
    <3>1. proc[p].tx \in DOMAIN txs /\ proc[p].tx # NoTx
      <4>1. txs \in Seq(Transaction)
        BY DEF TypeOK
      <4>2. DOMAIN txs = 1 .. Len(txs) /\ Len(txs) \in Nat
        BY <4>1, LenProperties
      <4> QED
        BY <1>0, <2>1, <4>2 DEF Knows, NoTx
    <3>2. /\ proc[p].id \in DOMAIN elections
          /\ elections[proc[p].id] = proc[p].tx /\ txs[proc[p].tx].id = proc[p].id
      BY <1>0, <2>1, <3>1 DEF Knows, LogsMatch
    <3>3. IdIsOwnElection'
      BY <2>1, <2>4, <3>1, <3>2 DEF IdIsOwnElection
    <3>4. HashKnown' /\ EditFits' /\ LogsMatch'
      BY <2>1 DEF HashKnown, EditFits, LogsMatch, SameTerms
    <3> QED
      BY <2>1, <2>2, <3>3, <3>4
  <2> QED
    BY <2>1, <2>3, <2>4
<1>11. CASE Fail(p)
  <2>1. /\ TypeOK' /\ SameChain /\ Others(p) /\ SameTerms(row') /\ proc'[p].at = "idle"
        /\ row'.hash \in {NoTx, row.hash} /\ row'.chainId = row.chainId
        /\ row'.status # "synced"
    BY <1>11, FailEffect
  <2> QED
    BY <2>1, KeepsRest, OthersKnow DEF Knows
<1>12. CASE Abort(p) \/ Crash(p)
  BY <1>0, <1>12, StopEffect, KeepsRest, OthersKnow DEF Knows
<1> QED
  BY <1>1, <1>2, <1>3, <1>4, <1>5, <1>6, <1>7, <1>8, <1>9, <1>10, <1>11, <1>12 DEF RunStep

LEMMA ChainInv ==
  ASSUME Inv, OtherCreates \/ \E t \in TxId : Mine(t) \/ Drop(t)
  PROVE  Inv'
<1> USE DEF Inv, RunKnows, Knows, HashKnown, EditFits, LogsMatch, IdIsOwnElection
<1>1. CASE OtherCreates
  <2>1. /\ elections' = Append(elections, NoTx)
        /\ UNCHANGED <<row, proc, admin, txs, lost, now, edits, faults>>
    BY <1>1 DEF OtherCreates, dbVars, boundVars
  <2>2. NoTx \in TxRef
    BY DEF TxRef
  <2>3. TypeOK'
    BY <2>1, <2>2, AppendElection DEF TypeOK
  <2> QED
    BY <2>1, <2>2, <2>3, AppendElection
<1>2. ASSUME NEW t \in TxId, Mine(t) \/ Drop(t)
      PROVE  Inv'
  <2>1. /\ TypeOK' /\ UNCHANGED <<row, proc, admin, lost>>
        /\ t \in DOMAIN txs /\ txs[t].state = "pooled" /\ DOMAIN txs' = DOMAIN txs
        /\ \A u \in DOMAIN txs \ {t} : txs'[u] = txs[u]
    BY <1>2, MineEffect
  <2>2. CASE /\ txs'[t].state = "mined" /\ elections' = Append(elections, t)
             /\ txs'[t].id = Len(elections')
    <3>1. /\ Len(elections') \notin DOMAIN elections
          /\ DOMAIN elections' = DOMAIN elections \cup {Len(elections')}
          /\ \A i \in DOMAIN elections : elections'[i] = elections[i]
          /\ elections'[Len(elections')] = t
      <4>1. t \in TxRef
        BY DEF TxRef
      <4> QED
        BY <2>2, <4>1, AppendElection
    <3>2. LogsMatch'
      BY <2>1, <2>2, <3>1
    <3>3. RunKnows' /\ HashKnown' /\ EditFits'
      BY <2>1
    <3>4. IdIsOwnElection'
      <4>1. ASSUME row.status = "synced"
            PROVE  /\ row.chainId \in DOMAIN elections
                   /\ elections[row.chainId] \in DOMAIN txs \ {t}
                   /\ elections[row.chainId] # NoTx
                   /\ txs[elections[row.chainId]].id = row.chainId
        BY <2>1, <4>1
      <4>2. ASSUME row.status = "synced"
            PROVE  /\ row.chainId \in DOMAIN elections'
                   /\ elections'[row.chainId] = elections[row.chainId]
                   /\ txs'[elections[row.chainId]] = txs[elections[row.chainId]]
        BY <2>1, <3>1, <4>1, <4>2
      <4>3. row' = row
        BY <2>1
      <4> QED
        BY <4>1, <4>2, <4>3 DEF IdIsOwnElection
    <3> QED
      BY <2>1, <3>2, <3>3, <3>4
  <2>3. CASE txs'[t].state \in {"reverted", "dropped"} /\ elections' = elections
    BY <2>1, <2>3
  <2> QED
    BY <1>2, <2>2, <2>3, MineEffect
<1> QED
  BY <1>1, <1>2

LEMMA InvStep == Inv /\ [Next]_vars => Inv'
<1> SUFFICES ASSUME Inv, [Next]_vars PROVE Inv'
  OBVIOUS
<1>1. CASE \E p \in Proc : RunStep(p) \/ RunStart(p, TRUE) \/ Abort(p) \/ Crash(p)
  BY <1>1, RunInv
<1>2. CASE OtherCreates \/ \E t \in TxId : Mine(t) \/ Drop(t)
  BY <1>2, ChainInv
<1> USE DEF Inv, RunKnows, Knows, HashKnown, EditFits, LogsMatch, IdIsOwnElection
<1>3. CASE EditCheck
  BY <1>3, EditCheckEffect
<1>4. CASE EditWrite
  BY <1>4, EditWriteEffect
<1>5. CASE ClaimGoesStale \/ BackoffElapses
  BY <1>5, WaitEffect DEF SameTerms
<1>6. CASE Tick
  BY <1>6 DEF Tick, dbVars, chainVars, boundVars, TypeOK
<1>7. CASE UNCHANGED vars
  BY <1>7 DEF vars, TypeOK
<1> QED
  BY <1>1, <1>2, <1>3, <1>4, <1>5, <1>6, <1>7, NextCases

(* Type correctness, and no row is ever given the id of an election that   *)
(* somebody else created, for any number of processes and whatever happens *)
(* (syncElections.ts:25-27).                                               *)
THEOREM SyncedIdIsOwn == Spec => [](TypeOK /\ IdIsOwnElection)
<1>1. Inv => TypeOK /\ IdIsOwnElection
  BY DEF Inv
<1> QED
  BY InitInv, InvStep, <1>1, PTL DEF Spec

(***************************************************************************)
(* If no live run keeps a claim longer than STUCK_MS, a row in 'syncing'   *)
(* has one run working on it, and nobody else writes its status.           *)
(***************************************************************************)
Holding == {"read", "list", "send", "save", "confirm", "record", "fail"}

SoleHolder ==
  \A p \in Proc : proc[p].at \in Holding =>
    /\ row.status = "syncing" /\ row.stuck = FALSE
    /\ \A q \in Proc : proc[q].at \in Holding => q = p

(* The steps that leave who holds the claim as it was, or give it up.      *)
LEMMA HolderKept ==
  ASSUME SoleHolder, NEW p \in Proc, Others(p),
         proc'[p].at \in Holding => proc[p].at \in Holding,
         (row'.status = row.status /\ row'.stuck = row.stuck)
           \/ (\A q \in Proc : proc[q].at \notin Holding)
           \/ (proc[p].at \in Holding /\ proc'[p].at \notin Holding)
  PROVE  SoleHolder'
BY DEF SoleHolder, Others

LEMMA HolderStep ==
  ASSUME Inv, SoleHolder, "slow" \notin Faults, [Next]_vars
  PROVE  SoleHolder'
<1> USE DEF SameChain, SameRow
<1>1. ASSUME NEW p \in Proc, RunStep(p) \/ RunStart(p, TRUE) \/ Abort(p) \/ Crash(p)
      PROVE  SoleHolder'
  <2> USE DEF Holding
  <2>1. CASE RunStart(p, FALSE) \/ RunStart(p, TRUE)
    <3>1. /\ Others(p) /\ proc'[p].at = "reclaim"
          /\ row' = row \/ row.status = "failed"
      BY <2>1, RunStartEffect
    <3> QED
      BY <3>1, HolderKept DEF SoleHolder
  <2>2. CASE Reclaim(p)
    <3>1. /\ Others(p) /\ proc'[p].at = "select"
          /\ row' = row \/ (row.status = "syncing" /\ row.stuck)
      BY <2>2, ReclaimEffect
    <3> QED
      BY <3>1, HolderKept DEF SoleHolder
  <2>3. CASE Select(p)
    <3>1. Others(p) /\ SameRow /\ proc'[p].at \in {"claim", "idle"}
      BY <2>3, SelectEffect
    <3> QED
      BY <3>1, HolderKept
  <2>4. CASE Claim(p)
    <3>1. /\ Others(p) /\ proc[p].at = "claim"
          /\ \/ row' = row /\ proc'[p].at = "idle"
             \/ /\ row.status = "pending" /\ row'.status = "syncing" /\ row'.stuck = FALSE
                /\ proc'[p].at = "read"
      BY <2>4, ClaimEffect
    <3>2. CASE row' = row /\ proc'[p].at = "idle"
      BY <3>1, <3>2, HolderKept
    <3>3. CASE row.status = "pending" /\ row'.status = "syncing" /\ row'.stuck = FALSE
      BY <3>1, <3>3 DEF SoleHolder, Others
    <3> QED
      BY <3>1, <3>2, <3>3
  <2>5. CASE ReadRow(p) \/ ReadList(p) \/ Send(p) \/ Confirm(p)
    <3>1. Others(p) /\ SameRow /\ proc[p].at \in Holding
      BY <2>5, ReadRowEffect, ReadListEffect, SendEffect, ConfirmEffect
    <3> QED
      BY <3>1, HolderKept
  <2>6. CASE SaveHash(p)
    <3>1. /\ Others(p) /\ proc[p].at \in Holding
          /\ row'.status = row.status /\ row'.stuck = row.stuck
      BY <2>6, SaveHashEffect
    <3> QED
      BY <3>1, HolderKept
  <2>7. CASE RecordSynced(p) \/ Fail(p)
    <3>1. /\ Others(p) /\ proc[p].at \in Holding
          /\ proc'[p].at = "idle" \/ row' = row
      BY <2>7, RecordSyncedEffect, FailEffect
    <3> QED
      BY <3>1, HolderKept
  <2>8. CASE Abort(p) \/ Crash(p)
    <3>1. Others(p) /\ SameRow /\ proc'[p].at = "idle"
      BY <2>8, StopEffect
    <3> QED
      BY <3>1, HolderKept
  <2> QED
    BY <1>1, <2>1, <2>2, <2>3, <2>4, <2>5, <2>6, <2>7, <2>8 DEF RunStep
<1>2. CASE EditWrite
  BY <1>2, EditWriteEffect DEF SoleHolder
<1>3. CASE ClaimGoesStale \/ BackoffElapses
  <2>1. proc' = proc /\ (row.status = "pending" \/ ~Handled)
    BY <1>3, WaitEffect
  <2> QED
    BY <2>1 DEF SoleHolder, Handled, Holding
<1>4. CASE UNCHANGED <<row, proc>>
  BY <1>4 DEF SoleHolder
<1>5. EditCheck \/ OtherCreates \/ Tick \/ UNCHANGED vars => UNCHANGED <<row, proc>>
  BY DEF EditCheck, OtherCreates, Tick, vars, dbVars
<1>6. ASSUME NEW t \in TxId, Mine(t) \/ Drop(t) PROVE UNCHANGED <<row, proc>>
  BY <1>6, MineEffect
<1> QED
  BY <1>1, <1>2, <1>3, <1>4, <1>5, <1>6, NextCases

(* An election that is synced stays so, with the id it has: no run of any  *)
(* process takes it back, as long as "slow" is not among the Faults.       *)
THEOREM SyncedStays ==
  ASSUME "slow" \notin Faults
  PROVE  Spec => SyncedIsTerminal
<1>1. Init => SoleHolder
  BY DEF Init, SoleHolder, Idle, Holding
<1>2. ASSUME Inv, SoleHolder, [Next]_vars, row.status = "synced"
      PROVE  row'.status = "synced" /\ row'.chainId = row.chainId
  <2> USE DEF SameChain, SameRow
  <2>1. \A p \in Proc : proc[p].at \notin Holding
    BY <1>2 DEF SoleHolder
  <2>2. ASSUME NEW p \in Proc, RunStep(p) \/ RunStart(p, TRUE) \/ Abort(p) \/ Crash(p)
        PROVE  row'.status = row.status /\ row'.chainId = row.chainId
    <3>1. \/ RunStart(p, FALSE) \/ RunStart(p, TRUE) \/ Reclaim(p) \/ Select(p) \/ Claim(p)
          \/ Abort(p) \/ Crash(p)
      BY <2>1, <2>2 DEF RunStep, ReadRow, ReadList, Send, SaveHash, Confirm, RecordSynced,
         Fail, Holding
    <3> QED
      BY <1>2, <3>1, RunStartEffect, ReclaimEffect, SelectEffect, ClaimEffect, StopEffect
  <2>3. CASE EditWrite \/ ClaimGoesStale \/ BackoffElapses
    BY <1>2, <2>3, EditWriteEffect, WaitEffect
  <2>4. EditCheck \/ OtherCreates \/ Tick \/ UNCHANGED vars => UNCHANGED row
    BY DEF EditCheck, OtherCreates, Tick, vars, dbVars
  <2>5. ASSUME NEW t \in TxId, Mine(t) \/ Drop(t) PROVE UNCHANGED row
    BY <1>2, <2>5, MineEffect
  <2> QED
    BY <1>2, <2>2, <2>3, <2>4, <2>5, NextCases
<1>3. Inv /\ SoleHolder /\ [Next]_vars =>
        [row.status = "synced" => row'.status = "synced" /\ row'.chainId = row.chainId]_vars
  BY <1>2
<1>4. Inv /\ SoleHolder /\ [Next]_vars => SoleHolder'
  BY HolderStep
<1> QED
  BY <1>1, <1>3, <1>4, InitInv, InvStep, PTL DEF Spec, SyncedIsTerminal

(***************************************************************************)
(* No second election.  A transaction the node took and that may be mined  *)
(* is the one of the row's hash, or is about to be stored there, or is     *)
(* lost; and the hash is only cleared when its transaction is dropped.     *)
(***************************************************************************)
HashInHand ==
  \A p \in Proc :
    /\ proc[p].at \in {"list", "send", "save"} => row.hash = NoTx
    /\ proc[p].at \in {"confirm", "record"} => proc[p].tx = row.hash
    /\ proc[p].at = "fail" /\ proc[p].why = "dropped" =>
         row.hash # NoTx /\ txs[row.hash].state = "dropped"

Saved(t) == t = row.hash \/ \E p \in Proc : proc[p].at = "save" /\ proc[p].tx = t

Accounted == \A t \in DOMAIN txs : t \in lost \/ txs[t].state = "dropped" \/ Saved(t)

OnceInv == SoleHolder /\ HashInHand /\ Accounted

(* The runs that do not hold the claim change neither part.                *)
LEMMA HandKept ==
  ASSUME Inv, OnceInv, NEW p \in Proc, Others(p), UNCHANGED <<txs, lost>>,
         row'.hash = row.hash, proc[p].at # "save",
         proc'[p].at \notin {"list", "send", "save", "confirm", "record", "fail"}
  PROVE  HashInHand' /\ Accounted'
BY DEF OnceInv, HashInHand, Accounted, Saved, Others

LEMMA HandStep ==
  ASSUME Inv, OnceInv, NEW p \in Proc,
         RunStep(p) \/ RunStart(p, TRUE) \/ Abort(p) \/ Crash(p)
  PROVE  HashInHand' /\ Accounted'
<1> USE DEF SameChain, SameRow
<1>0. HashInHand /\ Accounted /\ SoleHolder
  BY DEF OnceInv
<1>1. CASE RunStart(p, FALSE) \/ RunStart(p, TRUE) \/ Reclaim(p) \/ Select(p) \/ Claim(p)
  BY <1>1, RunStartEffect, ReclaimEffect, SelectEffect, ClaimEffect, HandKept
<1>2. CASE ReadRow(p)
  <2>1. /\ UNCHANGED <<row, txs, lost>> /\ Others(p) /\ proc[p].at = "read"
        /\ proc'[p].tx = row.hash
        /\ \/ proc'[p].at = "confirm"
           \/ proc'[p].at = "fail" /\ proc'[p].why = "invalid"
           \/ proc'[p].at = "list" /\ row.hash = NoTx
    BY <1>2, ReadRowEffect
  <2> QED
    BY <1>0, <2>1 DEF HashInHand, Accounted, Saved, Others
<1>3. CASE ReadList(p)
  <2>1. /\ UNCHANGED <<row, txs, lost>> /\ Others(p) /\ proc[p].at = "list"
        /\ \/ proc'[p].at = "fail" /\ proc'[p].why # "dropped"
           \/ proc'[p].at = "send"
    BY <1>3, ReadListEffect
  <2> QED
    BY <1>0, <2>1 DEF HashInHand, Accounted, Saved, Others
<1>4. CASE Send(p)
  <2>1. UNCHANGED row /\ Others(p) /\ proc[p].at = "send" /\ row.hash = NoTx
    BY <1>0, <1>4, SendEffect DEF HashInHand
  <2>2. CASE Accept(p)
    <3>1. /\ DOMAIN txs' = DOMAIN txs \cup {Len(txs')}
          /\ \A t \in DOMAIN txs : txs'[t] = txs[t]
      BY <2>1, <2>2, AcceptEffect
    <3>2. \/ lost' = lost /\ proc'[p].at = "save" /\ proc'[p].tx = Len(txs')
          \/ lost' = lost \cup {Len(txs')} /\ proc'[p].at = "fail" /\ proc'[p].why = "error"
          \/ UNCHANGED <<txs, lost>> /\ proc'[p].at = "fail" /\ proc'[p].why = "error"
      BY <1>4, SendEffect
    <3>3. Accounted'
      <4>1. ASSUME NEW t \in DOMAIN txs
            PROVE  t \in lost' \/ txs'[t].state = "dropped" \/ Saved(t)'
        <5>1. t \in lost \/ txs[t].state = "dropped" \/ Saved(t)
          BY <1>0 DEF Accounted
        <5>2. CASE t \in lost \/ txs[t].state = "dropped"
          BY <3>1, <3>2, <5>2
        <5>3. CASE t = row.hash
          BY <2>1, <5>3 DEF Saved
        <5>4. ASSUME NEW q \in Proc, proc[q].at = "save", proc[q].tx = t
              PROVE  Saved(t)'
          <6>1. proc'[q] = proc[q]
            BY <2>1, <5>4 DEF Others
          <6> QED
            BY <5>4, <6>1 DEF Saved
        <5> QED
          BY <5>1, <5>2, <5>3, <5>4 DEF Saved
      <4>2. PICK n : n = Len(txs')
        OBVIOUS
      <4>3. n \in lost' \/ Saved(n)' \/ txs' = txs
        BY <3>2, <4>2 DEF Saved
      <4> QED
        BY <3>1, <4>1, <4>2, <4>3 DEF Accounted
    <3>4. HashInHand'
      <4>1. row.hash \notin DOMAIN txs => row.hash = NoTx
        BY DEF Inv, HashKnown
      <4> QED
        BY <1>0, <2>1, <3>1, <3>2, <4>1 DEF HashInHand, Others
    <3> QED
      BY <3>3, <3>4
  <2>3. CASE UNCHANGED <<txs, lost>> /\ proc'[p].at = "fail" /\ proc'[p].why = "error"
    BY <1>0, <2>1, <2>3 DEF HashInHand, Accounted, Saved, Others
  <2> QED
    BY <1>4, <2>2, <2>3, SendEffect
<1>5. CASE SaveHash(p)
  <2>1. /\ UNCHANGED txs /\ Others(p) /\ proc[p].at = "save" /\ proc'[p].tx = proc[p].tx
        /\ row.hash = NoTx
        /\ \/ row'.hash = proc[p].tx /\ lost' = lost /\ proc'[p].at = "confirm"
           \/ /\ row' = row /\ lost' = lost \cup {proc[p].tx}
              /\ proc'[p].at = "fail" /\ proc'[p].why = "error"
    BY <1>0, <1>5, SaveHashEffect DEF HashInHand
  <2>2. \A q \in Proc \ {p} : proc[q].at \notin Holding /\ proc'[q] = proc[q]
    BY <1>0, <2>1 DEF SoleHolder, Holding, Others
  <2>3. HashInHand'
    BY <2>1, <2>2 DEF HashInHand, Holding
  <2>4. NoTx \notin DOMAIN txs
    BY LenProperties DEF Inv, TypeOK, NoTx
  <2>5. Accounted'
    BY <1>0, <2>1, <2>2, <2>4 DEF Accounted, Saved, Holding
  <2> QED
    BY <2>3, <2>5
<1>6. CASE Confirm(p)
  <2>1. /\ UNCHANGED <<row, txs, lost>> /\ Others(p) /\ proc[p].at = "confirm"
        /\ proc'[p].tx = proc[p].tx /\ proc'[p].at \in {"record", "fail"}
        /\ proc'[p].at = "fail" /\ proc'[p].why = "dropped" =>
             txs[proc[p].tx].state = "dropped"
    BY <1>6, ConfirmEffect
  <2>2. proc[p].tx = row.hash /\ proc[p].tx \in DOMAIN txs /\ NoTx \notin DOMAIN txs
    BY <1>0, <2>1, LenProperties DEF HashInHand, Inv, RunKnows, Knows, TypeOK, NoTx
  <2> QED
    BY <1>0, <2>1, <2>2 DEF HashInHand, Accounted, Saved, Others
<1>7. CASE RecordSynced(p)
  <2>1. /\ UNCHANGED <<txs, lost>> /\ Others(p) /\ proc[p].at = "record"
        /\ row'.hash = row.hash
        /\ proc'[p].at = "idle" \/ (proc'[p].at = "fail" /\ proc'[p].why = "error")
    BY <1>7, RecordSyncedEffect
  <2> QED
    BY <1>0, <2>1 DEF HashInHand, Accounted, Saved, Others
<1>8. CASE Fail(p)
  <2>1. /\ UNCHANGED <<txs, lost>> /\ Others(p) /\ proc[p].at = "fail" /\ proc'[p].at = "idle"
        /\ row'.hash = IF proc[p].why = "dropped" THEN NoTx ELSE row.hash
    BY <1>8, FailEffect
  <2>2. \A q \in Proc \ {p} : proc[q].at \notin Holding /\ proc'[q] = proc[q]
    BY <1>0, <2>1 DEF SoleHolder, Holding, Others
  <2>3. HashInHand'
    BY <2>1, <2>2 DEF HashInHand, Holding
  <2>4. Accounted'
    BY <1>0, <2>1, <2>2 DEF Accounted, Saved, HashInHand, Holding
  <2> QED
    BY <2>3, <2>4
<1>9. CASE Abort(p) \/ Crash(p)
  <2>1. /\ UNCHANGED <<row, txs>> /\ Others(p) /\ proc'[p].at = "idle"
        /\ lost' = IF proc[p].at = "save" THEN lost \cup {proc[p].tx} ELSE lost
    BY <1>9, StopEffect
  <2> QED
    BY <1>0, <2>1 DEF HashInHand, Accounted, Saved, Others
<1> QED
  BY <1>1, <1>2, <1>3, <1>4, <1>5, <1>6, <1>7, <1>8, <1>9 DEF RunStep

LEMMA OnceStep ==
  ASSUME Inv, OnceInv, "slow" \notin Faults, [Next]_vars
  PROVE  OnceInv'
<1>0. HashInHand /\ Accounted /\ SoleHolder
  BY DEF OnceInv
<1>1. SoleHolder'
  BY <1>0, HolderStep
<1> SUFFICES HashInHand' /\ Accounted'
  BY <1>1 DEF OnceInv
<1>2. ASSUME NEW p \in Proc, RunStep(p) \/ RunStart(p, TRUE) \/ Abort(p) \/ Crash(p)
      PROVE  HashInHand' /\ Accounted'
  BY <1>2, HandStep
<1>3. ASSUME UNCHANGED <<proc, txs, lost>>, row'.hash = row.hash
      PROVE  HashInHand' /\ Accounted'
  BY <1>0, <1>3 DEF HashInHand, Accounted, Saved
<1>4. ASSUME NEW t \in TxId, Mine(t) \/ Drop(t)
      PROVE  HashInHand' /\ Accounted'
  <2>1. /\ UNCHANGED <<row, proc, lost>> /\ DOMAIN txs' = DOMAIN txs
        /\ txs[t].state = "pooled"
        /\ \A u \in DOMAIN txs \ {t} : txs'[u] = txs[u]
    BY <1>4, MineEffect
  <2>2. \A u \in DOMAIN txs : txs[u].state = "dropped" => txs'[u].state = "dropped"
    BY <2>1
  <2>3. Accounted'
    BY <1>0, <2>1, <2>2 DEF Accounted, Saved
  <2>4. HashInHand'
    BY <1>0, <2>1, <2>2 DEF HashInHand, Inv, HashKnown
  <2> QED
    BY <2>3, <2>4
<1>5. CASE EditWrite \/ ClaimGoesStale \/ BackoffElapses
  <2>1. UNCHANGED <<proc, txs, lost>> /\ row'.hash = row.hash
    <3>1. CASE EditWrite
      BY <3>1, EditWriteEffect
    <3>2. CASE ClaimGoesStale \/ BackoffElapses
      BY <3>2, WaitEffect
    <3> QED
      BY <1>5, <3>1, <3>2
  <2> QED
    BY <1>3, <2>1
<1>6. CASE EditCheck \/ OtherCreates \/ Tick \/ UNCHANGED vars
  <2>1. UNCHANGED <<proc, txs, lost>> /\ row'.hash = row.hash
    BY <1>6 DEF EditCheck, OtherCreates, Tick, vars, dbVars, chainVars
  <2> QED
    BY <1>3, <2>1
<1> QED
  BY <1>2, <1>4, <1>5, <1>6, NextCases

(* The contract never holds two elections for the row, those whose hash    *)
(* never reached the database apart: the stored hash is confirmed instead  *)
(* of sending again, across crashes and retries (syncElections.ts:34-43).  *)
THEOREM NoSecondElection ==
  ASSUME "slow" \notin Faults
  PROVE  Spec => []OneElection
<1>1. Init => OnceInv
  BY DEF Init, OnceInv, SoleHolder, HashInHand, Accounted, Saved, Idle, Holding
<1>2. Inv /\ OnceInv => OneElection
  <2> SUFFICES ASSUME Inv, OnceInv, NEW i \in DOMAIN elections, NEW j \in DOMAIN elections,
                      elections[i] # NoTx, elections[j] # NoTx,
                      elections[i] \notin lost, elections[j] \notin lost
               PROVE  i = j
    BY DEF OneElection, Foreign
  <2>1. /\ elections[i] \in DOMAIN txs /\ txs[elections[i]].state = "mined"
        /\ elections[j] \in DOMAIN txs /\ txs[elections[j]].state = "mined"
        /\ txs[elections[i]].id = i /\ txs[elections[j]].id = j
    BY DEF Inv, LogsMatch
  <2>2. Saved(elections[i]) /\ Saved(elections[j])
    BY <2>1 DEF OnceInv, Accounted
  <2>3. elections[i] = elections[j]
    BY <2>2 DEF Saved, OnceInv, HashInHand, SoleHolder, Holding
  <2> QED
    BY <2>1, <2>3
<1>3. Inv /\ OnceInv /\ [Next]_vars => OnceInv'
  BY OnceStep
<1> QED
  BY <1>1, <1>2, <1>3, InitInv, InvStep, PTL DEF Spec

(***************************************************************************)
(* What was sent is what the row says, as long as nobody edits the row     *)
(* between the sending and the end: EditSafe is what the administrator's   *)
(* check gives when no claim lands inside an edit and no failed row that   *)
(* keeps its hash is edited.                                               *)
(***************************************************************************)
SaysRow(tx) == tx.end = row.end /\ tx.count = row.count

EditSafe == admin # NoEdit => row.status \in {"pending", "failed"} /\ row.hash = NoTx

TermsAgree ==
  /\ row.hash # NoTx => SaysRow(txs[row.hash])
  /\ \A p \in Proc :
       /\ proc[p].at \in {"list", "send"} => proc[p].end = row.end
       /\ proc[p].at = "send" => proc[p].count = row.count
       /\ proc[p].at = "save" => SaysRow(txs[proc[p].tx])

TermsInv == OnceInv /\ EditSafe /\ TermsAgree /\ SyncedMatchesContract

(* A run that does not record anything, with the row's terms and hash kept *)
(* or the hash cleared.                                                    *)
LEMMA TermsKept ==
  ASSUME TermsInv, Inv, NEW p \in Proc, Others(p), UNCHANGED <<admin, txs, elections>>,
         SameTerms(row'), row'.chainId = row.chainId, row'.hash \in {NoTx, row.hash},
         row'.status = "synced" => row.status = "synced",
         proc'[p].at \notin {"list", "send", "save"}
  PROVE  TermsAgree' /\ SyncedMatchesContract'
BY DEF TermsInv, TermsAgree, SyncedMatchesContract, SaysRow, SameTerms, Others

(* The transactions of before are those of after.                          *)
LEMMA OldTransactions ==
  ASSUME Inv, \A t \in DOMAIN txs : txs'[t].end = txs[t].end /\ txs'[t].count = txs[t].count
  PROVE  /\ row.hash # NoTx /\ SaysRow(txs[row.hash]) =>
              txs'[row.hash].end = row.end /\ txs'[row.hash].count = row.count
         /\ \A p \in Proc : proc[p].at = "save" /\ SaysRow(txs[proc[p].tx]) =>
              txs'[proc[p].tx].end = row.end /\ txs'[proc[p].tx].count = row.count
         /\ row.status = "synced" =>
              /\ row.chainId \in DOMAIN elections /\ elections[row.chainId] \in DOMAIN txs
              /\ txs'[elections[row.chainId]].end = txs[elections[row.chainId]].end
              /\ txs'[elections[row.chainId]].count = txs[elections[row.chainId]].count
BY DEF Inv, HashKnown, RunKnows, Knows, SaysRow, IdIsOwnElection, LogsMatch

LEMMA TermsRunStep ==
  ASSUME Inv, TermsInv, NEW p \in Proc,
         RunStep(p) \/ RunStart(p, TRUE) \/ Abort(p) \/ Crash(p)
  PROVE  TermsAgree' /\ SyncedMatchesContract'
<1> USE DEF SameChain, SameRow
<1>0. /\ TermsAgree /\ SyncedMatchesContract /\ SoleHolder /\ HashInHand
      /\ SameTerms(row)
  BY DEF TermsInv, OnceInv, SameTerms
<1>1. CASE RunStart(p, FALSE) \/ RunStart(p, TRUE)
  <2>1. /\ SameChain /\ Others(p) /\ SameTerms(row') /\ proc'[p].at = "reclaim"
        /\ row'.hash = row.hash /\ row'.chainId = row.chainId
        /\ row'.status = "synced" => row.status = "synced"
    BY <1>1, RunStartEffect
  <2> QED
    BY <2>1, TermsKept
<1>2. CASE Reclaim(p)
  <2>1. /\ SameChain /\ Others(p) /\ SameTerms(row') /\ proc'[p].at = "select"
        /\ row'.hash = row.hash /\ row'.chainId = row.chainId
        /\ row'.status = "synced" => row.status = "synced"
    BY <1>2, ReclaimEffect
  <2> QED
    BY <2>1, TermsKept
<1>3. CASE Select(p)
  BY <1>0, <1>3, SelectEffect, TermsKept
<1>4. CASE Claim(p)
  <2>1. /\ SameChain /\ Others(p) /\ SameTerms(row') /\ proc'[p].at \in {"idle", "read"}
        /\ row'.hash = row.hash /\ row'.chainId = row.chainId
        /\ row'.status = "synced" => row.status = "synced"
    BY <1>4, ClaimEffect
  <2> QED
    BY <2>1, TermsKept
<1>5. CASE ReadRow(p)
  <2>1. /\ SameChain /\ SameRow /\ Others(p) /\ proc'[p].end = row.end
        /\ proc'[p].at \in {"confirm", "fail", "list"}
    BY <1>5, ReadRowEffect
  <2> QED
    BY <1>0, <2>1 DEF TermsAgree, SyncedMatchesContract, SaysRow, Others
<1>6. CASE ReadList(p)
  <2>1. /\ SameChain /\ SameRow /\ Others(p) /\ proc[p].at = "list"
        /\ \/ proc'[p].at = "fail"
           \/ /\ proc'[p].at = "send" /\ proc'[p].end = proc[p].end
              /\ proc'[p].count = row.count
    BY <1>6, ReadListEffect
  <2> QED
    BY <1>0, <2>1 DEF TermsAgree, SyncedMatchesContract, SaysRow, Others
<1>7. CASE Send(p)
  <2>1. UNCHANGED <<row, admin, elections>> /\ Others(p) /\ proc[p].at = "send"
    BY <1>7, SendEffect
  <2>2. CASE Accept(p)
    <3>1. /\ \A t \in DOMAIN txs : txs'[t] = txs[t]
          /\ txs'[Len(txs')].end = row.end /\ txs'[Len(txs')].count = row.count
      BY <1>0, <2>1, <2>2, AcceptEffect DEF TermsAgree
    <3>2. proc'[p].at = "fail" \/ (proc'[p].at = "save" /\ proc'[p].tx = Len(txs'))
      BY <1>7, SendEffect
    <3>3. SyncedMatchesContract'
      BY <1>0, <2>1, <3>1, OldTransactions DEF SyncedMatchesContract
    <3>4. TermsAgree'
      BY <1>0, <2>1, <3>1, <3>2, OldTransactions DEF TermsAgree, SaysRow, Others
    <3> QED
      BY <3>3, <3>4
  <2>3. CASE UNCHANGED <<txs, lost>> /\ proc'[p].at = "fail"
    BY <1>0, <2>1, <2>3, TermsKept
  <2> QED
    BY <1>7, <2>2, <2>3, SendEffect
<1>8. CASE SaveHash(p)
  <2>1. /\ UNCHANGED <<txs, elections>> /\ Others(p) /\ SameTerms(row') /\ proc[p].at = "save"
        /\ row'.chainId = row.chainId /\ row'.status = row.status
        /\ row'.hash \in {row.hash, proc[p].tx} /\ proc'[p].at \in {"confirm", "fail"}
    BY <1>8, SaveHashEffect
  <2> QED
    BY <1>0, <2>1 DEF TermsAgree, SyncedMatchesContract, SaysRow, SameTerms, Others
<1>9. CASE Confirm(p)
  <2>1. SameChain /\ SameRow /\ Others(p) /\ proc'[p].at \in {"record", "fail"}
    BY <1>9, ConfirmEffect
  <2> QED
    BY <1>0, <2>1, TermsKept
<1>10. CASE RecordSynced(p)
  <2>1. /\ SameChain /\ Others(p) /\ SameTerms(row') /\ proc[p].at = "record"
        /\ row'.hash = row.hash /\ proc'[p].at \in {"idle", "fail"}
        /\ row'.chainId = proc[p].id \/ row' = row
    BY <1>10, RecordSyncedEffect
  <2>2. TermsAgree'
    BY <1>0, <2>1 DEF TermsAgree, SaysRow, SameTerms, Others
  <2>3. CASE row' = row
    BY <1>0, <2>1, <2>2, <2>3 DEF SyncedMatchesContract
  <2>4. CASE row'.chainId = proc[p].id
    <3>1. elections[proc[p].id] = proc[p].tx
      BY <2>1 DEF Inv, RunKnows, Knows, LogsMatch
    <3>2. proc[p].tx = row.hash /\ row.hash # NoTx
      BY <1>0, <2>1, LenProperties DEF HashInHand, Inv, RunKnows, Knows, TypeOK, NoTx
    <3>3. SaysRow(txs[elections[proc[p].id]])
      BY <1>0, <3>1, <3>2 DEF TermsAgree
    <3>4. SyncedMatchesContract'
      BY <2>1, <2>4, <3>3 DEF SyncedMatchesContract, SaysRow, SameTerms
    <3> QED
      BY <2>2, <3>4
  <2> QED
    BY <2>1, <2>3, <2>4
<1>11. CASE Fail(p)
  <2>1. /\ SameChain /\ Others(p) /\ SameTerms(row') /\ proc'[p].at = "idle"
        /\ row'.hash \in {NoTx, row.hash} /\ row'.chainId = row.chainId
        /\ row'.status # "synced"
    BY <1>11, FailEffect
  <2> QED
    BY <2>1, TermsKept
<1>12. CASE Abort(p) \/ Crash(p)
  BY <1>0, <1>12, StopEffect, TermsKept
<1> QED
  BY <1>1, <1>2, <1>3, <1>4, <1>5, <1>6, <1>7, <1>8, <1>9, <1>10, <1>11, <1>12 DEF RunStep

LEMMA EditSafeStep ==
  ASSUME Inv, TermsInv, NEW p \in Proc,
         RunStep(p) \/ RunStart(p, TRUE) \/ Abort(p) \/ Crash(p),
         "adminRace" \notin Faults
  PROVE  EditSafe'
<1> USE DEF SameChain, SameRow
<1>1. admin' = admin
  BY RunStartEffect, ReclaimEffect, SelectEffect, ClaimEffect, ReadRowEffect, ReadListEffect,
     SendEffect, SaveHashEffect, ConfirmEffect, RecordSyncedEffect, FailEffect, StopEffect
     DEF RunStep
<1>2. CASE admin = NoEdit
  BY <1>1, <1>2 DEF EditSafe
<1>3. CASE admin # NoEdit
  <2>1. row.status \in {"pending", "failed"} /\ row.hash = NoTx
    BY <1>3 DEF TermsInv, EditSafe
  <2>2. proc[p].at \notin Holding
    BY <2>1 DEF TermsInv, OnceInv, SoleHolder
  <2>3. \/ RunStart(p, FALSE) \/ RunStart(p, TRUE) \/ Reclaim(p) \/ Select(p) \/ Claim(p)
        \/ Abort(p) \/ Crash(p)
    BY <2>2 DEF RunStep, ReadRow, ReadList, Send, SaveHash, Confirm, RecordSynced, Fail, Holding
  <2>4. row'.status \in {"pending", "failed"} /\ row'.hash = NoTx
    BY <1>3, <2>1, <2>3, RunStartEffect, ReclaimEffect, SelectEffect, ClaimEffect, StopEffect
  <2> QED
    BY <2>4 DEF EditSafe
<1> QED
  BY <1>2, <1>3

LEMMA TermsStep ==
  ASSUME Inv, TermsInv, [Next]_vars, Faults \cap {"slow", "editFailed", "adminRace"} = {}
  PROVE  TermsInv'
<1>0. TermsAgree /\ SyncedMatchesContract /\ EditSafe /\ OnceInv
  BY DEF TermsInv
<1>1. OnceInv'
  BY <1>0, OnceStep
<1> SUFFICES EditSafe' /\ TermsAgree' /\ SyncedMatchesContract'
  BY <1>1 DEF TermsInv
<1>2. ASSUME NEW p \in Proc, RunStep(p) \/ RunStart(p, TRUE) \/ Abort(p) \/ Crash(p)
      PROVE  EditSafe' /\ TermsAgree' /\ SyncedMatchesContract'
  BY <1>2, TermsRunStep, EditSafeStep
<1>3. CASE EditCheck
  <2>1. /\ UNCHANGED <<row, proc, txs, elections>> /\ ~IsFrozen
        /\ ~(row.status = "failed" /\ row.hash # NoTx)
    BY <1>3, EditCheckEffect
  <2>2. EditSafe'
    BY <2>1 DEF EditSafe, IsFrozen, Inv, TypeOK, Row
  <2> QED
    BY <1>0, <2>1, <2>2 DEF TermsAgree, SyncedMatchesContract, SaysRow
<1>4. CASE EditWrite
  <2>1. /\ UNCHANGED <<proc, txs, elections>> /\ admin # NoEdit /\ admin' = NoEdit
        /\ row'.status = row.status /\ row'.hash = row.hash
    BY <1>4, EditWriteEffect
  <2>2. row.status \in {"pending", "failed"} /\ row.hash = NoTx
    BY <1>0, <2>1 DEF EditSafe
  <2>3. \A p \in Proc : proc[p].at \notin Holding
    BY <1>0, <2>2 DEF OnceInv, SoleHolder
  <2> QED
    BY <2>1, <2>2, <2>3 DEF EditSafe, TermsAgree, SyncedMatchesContract, Holding
<1>5. CASE ClaimGoesStale \/ BackoffElapses
  <2>1. /\ UNCHANGED <<admin, proc, txs, elections>> /\ SameTerms(row')
        /\ row'.status = row.status /\ row'.hash = row.hash /\ row'.chainId = row.chainId
    BY <1>5, WaitEffect
  <2> QED
    BY <1>0, <2>1 DEF EditSafe, TermsAgree, SyncedMatchesContract, SaysRow, SameTerms
<1>6. ASSUME NEW t \in TxId, Mine(t) \/ Drop(t)
      PROVE  EditSafe' /\ TermsAgree' /\ SyncedMatchesContract'
  <2>1. /\ UNCHANGED <<row, proc, admin>> /\ t \in TxRef
        /\ \A u \in DOMAIN txs : txs'[u].end = txs[u].end /\ txs'[u].count = txs[u].count
        /\ elections' = elections \/ elections' = Append(elections, t)
    BY <1>6, MineEffect DEF TxRef
  <2>2. \A i \in DOMAIN elections : elections'[i] = elections[i]
    BY <2>1, AppendElection
  <2>3. EditSafe' /\ TermsAgree'
    BY <1>0, <2>1, OldTransactions DEF EditSafe, TermsAgree, SaysRow
  <2>4. SyncedMatchesContract'
    BY <1>0, <2>1, <2>2, OldTransactions DEF SyncedMatchesContract
  <2> QED
    BY <2>3, <2>4
<1>7. CASE OtherCreates
  <2>1. UNCHANGED <<row, proc, admin, txs>> /\ elections' = Append(elections, NoTx)
    BY <1>7 DEF OtherCreates, dbVars
  <2>2. \A i \in DOMAIN elections : elections'[i] = elections[i]
    BY <2>1, AppendElection DEF TxRef
  <2>3. row.status = "synced" => row.chainId \in DOMAIN elections
    BY DEF Inv, IdIsOwnElection
  <2> QED
    BY <1>0, <2>1, <2>2, <2>3 DEF EditSafe, TermsAgree, SyncedMatchesContract, SaysRow
<1>8. CASE Tick \/ UNCHANGED vars
  <2>1. UNCHANGED <<row, proc, admin, txs, elections>>
    BY <1>8 DEF Tick, vars, dbVars, chainVars
  <2> QED
    BY <1>0, <2>1 DEF EditSafe, TermsAgree, SyncedMatchesContract, SaysRow
<1> QED
  BY <1>2, <1>3, <1>4, <1>5, <1>6, <1>7, <1>8, NextCases

(* What the contract fixed is what the database shows of a synced          *)
(* election, through any crashes, retries, lost answers and dropped        *)
(* transactions (admin/elections.ts:377-391, 603-620).  The three Faults   *)
(* left out are those that break it.                                       *)
THEOREM SyncedAgrees ==
  ASSUME Faults \cap {"slow", "editFailed", "adminRace"} = {}
  PROVE  Spec => []SyncedMatchesContract
<1>1. Init => TermsInv
  BY DEF Init, TermsInv, OnceInv, SoleHolder, HashInHand, Accounted, Saved, EditSafe, TermsAgree,
     SyncedMatchesContract, Idle, Holding
<1>2. Inv /\ TermsInv /\ [Next]_vars => TermsInv'
  BY TermsStep
<1>3. TermsInv => SyncedMatchesContract
  BY DEF TermsInv
<1> QED
  BY <1>1, <1>2, <1>3, InitInv, InvStep, PTL DEF Spec

(***************************************************************************)
(* The refinement.  What the contract holds for the row, of the hashes     *)
(* that reached it, is the election of the row's own hash or nothing; it   *)
(* only grows, and the row shows it from the moment it is synced.          *)
(***************************************************************************)
LostApart ==
  /\ row.hash \notin lost
  /\ \A p \in Proc : proc[p].at = "save" => proc[p].tx \notin lost
  /\ lost \subseteq DOMAIN txs

RefInv == TermsInv /\ LostApart

LEMMA NoTxUnused == Inv => NoTx \notin DOMAIN txs
BY LenProperties DEF Inv, TypeOK, NoTx

(* What is lost is lost where it was sent or where it was to be stored.    *)
LEMMA LostApartStep ==
  ASSUME Inv, RefInv, [Next]_vars
  PROVE  LostApart'
<1> USE DEF SameChain, SameRow
<1>0. /\ LostApart /\ HashInHand /\ SoleHolder /\ NoTx \notin DOMAIN txs
      /\ row.hash = NoTx \/ row.hash \in DOMAIN txs
      /\ \A p \in Proc : proc[p].at = "save" => proc[p].tx \in DOMAIN txs
  BY NoTxUnused DEF RefInv, TermsInv, OnceInv, Inv, HashKnown, RunKnows, Knows
<1>1. ASSUME NEW p \in Proc, RunStep(p) \/ RunStart(p, TRUE) \/ Abort(p) \/ Crash(p)
      PROVE  LostApart'
  <2>1. ASSUME UNCHANGED <<txs, lost>>, Others(p), row'.hash \in {NoTx, row.hash},
               proc'[p].at # "save"
        PROVE  LostApart'
    BY <1>0, <2>1 DEF LostApart, Others
  <2>2. CASE \/ RunStart(p, FALSE) \/ RunStart(p, TRUE) \/ Reclaim(p) \/ Select(p)
             \/ Claim(p) \/ ReadRow(p) \/ ReadList(p)
    BY <2>1, <2>2, RunStartEffect, ReclaimEffect, SelectEffect, ClaimEffect, ReadRowEffect,
       ReadListEffect
  <2>3. CASE Confirm(p) \/ RecordSynced(p) \/ Fail(p)
    BY <2>1, <2>3, ConfirmEffect, RecordSyncedEffect, FailEffect
  <2>4. CASE Send(p)
    <3>1. UNCHANGED row /\ Others(p) /\ proc[p].at = "send"
      BY <2>4, SendEffect
    <3>2. CASE Accept(p)
      <4>1. PICK n : n = Len(txs')
        OBVIOUS
      <4>2. DOMAIN txs' = DOMAIN txs \cup {n} /\ n \notin DOMAIN txs /\ n \in Nat \ {0}
        BY <3>1, <3>2, <4>1, AcceptEffect DEF TxId
      <4>3. \/ lost' = lost /\ proc'[p].tx = n
            \/ lost' = lost \cup {n} /\ proc'[p].at = "fail"
            \/ lost' = lost /\ proc'[p].at = "fail"
        BY <2>4, <4>1, SendEffect
      <4>4. row.hash # n
        BY <1>0, <4>2 DEF NoTx
      <4> QED
        BY <1>0, <3>1, <4>2, <4>3, <4>4 DEF LostApart, Others
    <3>3. CASE UNCHANGED <<txs, lost>> /\ proc'[p].at = "fail"
      BY <2>1, <3>1, <3>3
    <3> QED
      BY <2>4, <3>2, <3>3, SendEffect
  <2>5. CASE SaveHash(p)
    <3>1. /\ UNCHANGED txs /\ Others(p) /\ proc[p].at = "save" /\ row.hash = NoTx
          /\ \/ row'.hash = proc[p].tx /\ lost' = lost /\ proc'[p].at = "confirm"
             \/ /\ row' = row /\ lost' = lost \cup {proc[p].tx} /\ proc'[p].at = "fail"
      BY <1>0, <2>5, SaveHashEffect DEF HashInHand
    <3>2. \A q \in Proc \ {p} : proc'[q].at # "save"
      BY <1>0, <3>1 DEF SoleHolder, Holding, Others
    <3> QED
      BY <1>0, <3>1, <3>2 DEF LostApart
  <2>6. CASE Abort(p) \/ Crash(p)
    <3>1. /\ UNCHANGED <<row, txs>> /\ Others(p) /\ proc'[p].at = "idle"
          /\ lost' = IF proc[p].at = "save" THEN lost \cup {proc[p].tx} ELSE lost
      BY <2>6, StopEffect
    <3>2. proc[p].at = "save" => /\ row.hash = NoTx
                                /\ \A q \in Proc \ {p} : proc'[q].at # "save"
      BY <1>0, <3>1 DEF HashInHand, SoleHolder, Holding, Others
    <3> QED
      BY <1>0, <3>1, <3>2 DEF LostApart, Others
  <2> QED
    BY <1>1, <2>2, <2>3, <2>4, <2>5, <2>6 DEF RunStep
<1>2. ASSUME UNCHANGED <<proc, lost>>, row'.hash = row.hash, DOMAIN txs' = DOMAIN txs
      PROVE  LostApart'
  BY <1>0, <1>2 DEF LostApart
<1>3. ASSUME NEW t \in TxId, Mine(t) \/ Drop(t)
      PROVE  LostApart'
  BY <1>2, <1>3, MineEffect
<1>4. CASE EditWrite \/ ClaimGoesStale \/ BackoffElapses
  BY <1>2, <1>4, EditWriteEffect, WaitEffect
<1>5. CASE EditCheck \/ OtherCreates \/ Tick \/ UNCHANGED vars
  BY <1>2, <1>5 DEF EditCheck, OtherCreates, Tick, vars, dbVars, chainVars
<1> QED
  BY <1>1, <1>3, <1>4, <1>5, NextCases

(* What is known is the election of the row's hash.                        *)
LEMMA KnownIsRow ==
  ASSUME Inv, RefInv
  PROVE  \A i \in DOMAIN elections :
           Known(elections[i]) <=> row.hash # NoTx /\ elections[i] = row.hash
<1> TAKE i \in DOMAIN elections
<1>1. elections[i] # NoTx =>
        elections[i] \in DOMAIN txs /\ txs[elections[i]].state = "mined"
  BY DEF Inv, LogsMatch
<1>2. Known(elections[i]) => row.hash # NoTx /\ elections[i] = row.hash
  BY <1>1 DEF Known, RefInv, TermsInv, OnceInv, Accounted, Saved
<1>3. row.hash # NoTx => Known(row.hash)
  BY DEF Known, RefInv, LostApart, TermsInv, OnceInv, HashInHand
<1> QED
  BY <1>2, <1>3

Entry(i) == [id |-> i, end |-> txs[elections[i]].end, count |-> txs[elections[i]].count]

LEMMA RegisteredOnce ==
  ASSUME Inv, RefInv
  PROVE  /\ \A e \in Registered : Registered = {e}
         /\ \A i \in DOMAIN elections : elections[i] = row.hash /\ row.hash # NoTx =>
              Registered = {Entry(i)}
<1>1. ASSUME NEW i \in DOMAIN elections, elections[i] = row.hash, row.hash # NoTx
      PROVE  Registered = {Entry(i)}
  <2>1. \A j \in DOMAIN elections : Known(elections[j]) <=> j = i
    BY <1>1, KnownIsRow DEF Inv, LogsMatch
  <2> QED
    BY <2>1 DEF Registered, Entry
<1>2. ASSUME NEW e \in Registered
      PROVE  Registered = {e}
  <2>1. PICK i \in DOMAIN elections : Known(elections[i]) /\ e = Entry(i)
    BY <1>2 DEF Registered, Entry
  <2> QED
    BY <1>1, <2>1, KnownIsRow
<1> QED
  BY <1>1, <1>2

AtMostOne == \A e \in Registered : Registered = {e}

LEMMA RegisteredAtMostOne == Inv /\ RefInv => AtMostOne
BY RegisteredOnce DEF AtMostOne

(* A synced row shows what is registered.                                  *)
LEMMA PublishedIsRegistered ==
  ASSUME Inv, RefInv, row.status = "synced", row.hash # NoTx,
         row.chainId \in DOMAIN elections, elections[row.chainId] = row.hash
  PROVE  Published = Registered
<1>1. Registered = {Entry(row.chainId)}
  BY RegisteredOnce
<1> QED
  BY <1>1 DEF Entry, Published, RefInv, TermsInv, SyncedMatchesContract

(* What is known stays known, and says what it said.                       *)
LEMMA RegisteredKept ==
  ASSUME Inv, RefInv, Inv', RefInv',
         \A t \in DOMAIN txs : /\ txs'[t].end = txs[t].end /\ txs'[t].count = txs[t].count
                               /\ Known(t) => Known(t)',
         \A i \in DOMAIN elections : i \in DOMAIN elections' /\ elections'[i] = elections[i]
  PROVE  \/ UNCHANGED Registered
         \/ \E e \in Registered' : Registered = {} /\ Registered' = {e}
<1>1. ASSUME NEW i \in DOMAIN elections, Known(elections[i])
      PROVE  Entry(i) \in Registered'
  <2>1. PICK t : t = elections[i]
    OBVIOUS
  <2>2. t \in DOMAIN txs /\ Known(t)
    BY <1>1, <2>1 DEF Inv, LogsMatch, Known
  <2>3. i \in DOMAIN elections' /\ elections'[i] = t /\ Known(t)'
    BY <2>1, <2>2
  <2>4. Entry(i) = [id |-> i, end |-> txs'[t].end, count |-> txs'[t].count]
    BY <2>1, <2>2 DEF Entry
  <2> QED
    BY <2>3, <2>4 DEF Registered, Known
<1>2. AtMostOne /\ AtMostOne'
  BY RegisteredAtMostOne, PTL
<1>3. \A e \in Registered : e \in Registered'
  BY <1>1 DEF Registered, Entry
<1>4. CASE Registered = {}
  BY <1>2, <1>4 DEF AtMostOne
<1>5. CASE \E e \in Registered : TRUE
  <2>1. PICK e \in Registered : Registered = {e} /\ Registered' = {e}
    BY <1>2, <1>3, <1>5 DEF AtMostOne
  <2> QED
    BY <2>1
<1> QED
  BY <1>4, <1>5

(* What every step does to both, told apart by the step that publishes.    *)
LEMMA RegistrationRunStep ==
  ASSUME Inv, RefInv, Inv', RefInv', NEW p \in Proc,
         RunStep(p) \/ RunStart(p, TRUE) \/ Abort(p) \/ Crash(p)
  PROVE  [Contract!Next]_(Contract!vars)
<1> USE DEF SameChain, SameRow
<1>0. /\ SoleHolder /\ HashInHand /\ LostApart /\ NoTx \notin DOMAIN txs
      /\ \A t \in DOMAIN txs : txs'[t].end = txs[t].end /\ txs'[t].count = txs[t].count
      /\ UNCHANGED elections
  <2>1. CASE Send(p)
    <3>1. UNCHANGED elections /\ proc[p].at = "send" /\ (txs' = txs \/ Accept(p))
      BY <2>1, SendEffect
    <3> QED
      BY <3>1, AcceptEffect, NoTxUnused DEF RefInv, TermsInv, OnceInv
  <2>2. CASE ~Send(p)
    <3>1. UNCHANGED <<txs, elections>>
      BY <2>2, RunStartEffect, ReclaimEffect, SelectEffect, ClaimEffect, ReadRowEffect,
         ReadListEffect, SaveHashEffect, ConfirmEffect, RecordSyncedEffect, FailEffect, StopEffect
         DEF RunStep
    <3> QED
      BY <3>1, NoTxUnused DEF RefInv, TermsInv, OnceInv
  <2> QED
    BY <2>1, <2>2
<1>1. CASE RecordSynced(p) /\ row' # row
  <2>1. /\ UNCHANGED <<txs, lost>> /\ Others(p) /\ proc[p].at = "record"
        /\ proc'[p].at = "idle" /\ row'.hash = row.hash
        /\ row'.status = "synced" /\ row'.chainId = proc[p].id
    BY <1>1, RecordSyncedEffect
  <2>2. row.status = "syncing" /\ proc[p].tx = row.hash /\ proc[p].tx \in DOMAIN txs
    BY <1>0, <2>1 DEF SoleHolder, Holding, HashInHand, Inv, RunKnows, Knows
  <2>3. proc[p].id \in DOMAIN elections /\ elections[proc[p].id] = row.hash /\ row.hash # NoTx
    BY <1>0, <2>1, <2>2 DEF Inv, RunKnows, Knows, LogsMatch
  <2>4. Registered' = Registered
    <3>1. \A i \in DOMAIN elections : elections[i] \in TxRef
      BY DEF Inv, TypeOK
    <3>2. \A i \in DOMAIN elections : Known(elections[i])' = Known(elections[i])
      BY <1>0, <2>1, <3>1 DEF Known, Others
    <3> QED
      BY <1>0, <2>1, <3>2 DEF Registered
  <2>5. Registered = {Entry(proc[p].id)}
    BY <2>3, RegisteredOnce
  <2>6. Published = {}
    BY <2>2 DEF Published
  <2>7. Published' = Registered
    <3>1. /\ row'.end = txs[elections[proc[p].id]].end
          /\ row'.count = txs[elections[proc[p].id]].count
      BY <1>0, <2>1 DEF RefInv, TermsInv, SyncedMatchesContract
    <3> QED
      BY <2>1, <2>5, <3>1 DEF Published, Entry
  <2> QED
    BY <2>4, <2>5, <2>6, <2>7 DEF Contract!Next, Contract!Publish
<1>2. CASE ~RecordSynced(p) \/ row' = row
  <2>1. Published' = Published
    <3>1. row'.status = "synced" <=> row.status = "synced"
      <4>1. CASE row' = row
        BY <4>1
      <4>2. CASE RunStart(p, FALSE) \/ RunStart(p, TRUE) \/ Reclaim(p) \/ Claim(p)
        BY <4>2, RunStartEffect, ReclaimEffect, ClaimEffect
      <4>3. CASE SaveHash(p)
        BY <4>3, SaveHashEffect
      <4>4. CASE Fail(p)
        BY <1>0, <4>4, FailEffect DEF SoleHolder, Holding
      <4> QED
        BY <1>2, <4>1, <4>2, <4>3, <4>4, SelectEffect, ReadRowEffect, ReadListEffect,
           SendEffect, ConfirmEffect, StopEffect DEF RunStep
    <3>2. row'.end = row.end /\ row'.count = row.count /\ row'.chainId = row.chainId
      BY <1>2, RunStartEffect, ReclaimEffect, SelectEffect, ClaimEffect, ReadRowEffect,
         ReadListEffect, SendEffect, SaveHashEffect, ConfirmEffect, FailEffect, StopEffect
         DEF RunStep, SameTerms
    <3> QED
      BY <3>1, <3>2 DEF Published
  <2>2. ASSUME NEW t \in DOMAIN txs, Known(t)
        PROVE  Known(t)'
    <3>1. CASE Send(p)
      <4>1. Others(p) /\ proc[p].at = "send"
        BY <3>1, SendEffect
      <4>2. PICK n : n = Len(txs')
        OBVIOUS
      <4>3. \/ n \notin DOMAIN txs /\ lost' = lost /\ proc'[p].tx = n
            \/ n \notin DOMAIN txs /\ lost' = lost \cup {n} /\ proc'[p].at = "fail"
            \/ lost' = lost /\ proc'[p].at = "fail"
        BY <3>1, <4>1, <4>2, SendEffect, AcceptEffect
      <4>4. t \notin lost' /\ (proc'[p].at = "save" => proc'[p].tx # t)
        BY <2>2, <4>3 DEF Known
      <4> QED
        BY <2>2, <4>1, <4>4 DEF Known, Others
    <3>2. CASE SaveHash(p) \/ Abort(p) \/ Crash(p)
      <4>1. /\ Others(p) /\ proc'[p].at # "save"
            /\ lost' = lost \/ (lost' = lost \cup {proc[p].tx} /\ proc[p].at = "save")
        BY <3>2, SaveHashEffect, StopEffect
      <4> QED
        BY <2>2, <4>1 DEF Known, Others
    <3>3. CASE ~(Send(p) \/ SaveHash(p) \/ Abort(p) \/ Crash(p))
      <4>1. CASE RunStart(p, FALSE) \/ RunStart(p, TRUE) \/ Reclaim(p) \/ Select(p) \/ Claim(p)
        BY <2>2, <4>1, RunStartEffect, ReclaimEffect, SelectEffect, ClaimEffect DEF Known, Others
      <4>2. CASE ReadRow(p) \/ ReadList(p)
        BY <2>2, <4>2, ReadRowEffect, ReadListEffect DEF Known, Others
      <4>3. CASE Confirm(p) \/ RecordSynced(p) \/ Fail(p)
        BY <2>2, <4>3, ConfirmEffect, RecordSyncedEffect, FailEffect DEF Known, Others
      <4> QED
        BY <3>3, <4>1, <4>2, <4>3 DEF RunStep
    <3> QED
      BY <3>1, <3>2, <3>3
  <2>3. \/ UNCHANGED Registered
        \/ \E e \in Registered' : Registered = {} /\ Registered' = {e}
    BY <1>0, <2>2, RegisteredKept
  <2> QED
    BY <2>1, <2>3 DEF Contract!Next, Contract!Register, Contract!vars
<1> QED
  BY <1>1, <1>2

LEMMA RegistrationStep ==
  ASSUME Inv, RefInv, Inv', RefInv', [Next]_vars
  PROVE  [Contract!Next]_(Contract!vars)
<1>1. ASSUME NEW p \in Proc, RunStep(p) \/ RunStart(p, TRUE) \/ Abort(p) \/ Crash(p)
      PROVE  [Contract!Next]_(Contract!vars)
  BY <1>1, RegistrationRunStep
<1>2. ASSUME UNCHANGED <<proc, lost>>, row'.status = row.status,
             row.status = "synced" => SameTerms(row') /\ row'.chainId = row.chainId,
             \A t \in DOMAIN txs : txs'[t].end = txs[t].end /\ txs'[t].count = txs[t].count,
             \A i \in DOMAIN elections : i \in DOMAIN elections' /\ elections'[i] = elections[i]
      PROVE  [Contract!Next]_(Contract!vars)
  <2>1. Published' = Published
    BY <1>2 DEF Published, SameTerms
  <2>2. \A t \in DOMAIN txs : Known(t) => Known(t)'
    BY <1>2 DEF Known
  <2>3. \/ UNCHANGED Registered
        \/ \E e \in Registered' : Registered = {} /\ Registered' = {e}
    BY <1>2, <2>2, RegisteredKept
  <2> QED
    BY <2>1, <2>3 DEF Contract!Next, Contract!Register, Contract!vars
<1>3. CASE EditWrite
  <2>1. row.status # "synced"
    BY <1>3, EditWriteEffect DEF RefInv, TermsInv, EditSafe
  <2> QED
    BY <1>2, <1>3, <2>1, EditWriteEffect
<1>4. CASE ClaimGoesStale \/ BackoffElapses
  BY <1>2, <1>4, WaitEffect
<1>5. ASSUME NEW t \in TxId, Mine(t) \/ Drop(t)
      PROVE  [Contract!Next]_(Contract!vars)
  <2>1. /\ UNCHANGED <<row, proc, lost>> /\ t \in TxRef
        /\ \A u \in DOMAIN txs : txs'[u].end = txs[u].end /\ txs'[u].count = txs[u].count
        /\ elections' = elections \/ elections' = Append(elections, t)
    BY <1>5, MineEffect DEF TxRef
  <2>2. \A i \in DOMAIN elections : i \in DOMAIN elections' /\ elections'[i] = elections[i]
    BY <2>1, AppendElection
  <2> QED
    BY <1>2, <2>1, <2>2 DEF SameTerms
<1>6. CASE OtherCreates
  <2>1. UNCHANGED <<row, proc, txs, lost>> /\ elections' = Append(elections, NoTx)
    BY <1>6 DEF OtherCreates, dbVars
  <2>2. \A i \in DOMAIN elections : i \in DOMAIN elections' /\ elections'[i] = elections[i]
    BY <2>1, AppendElection DEF TxRef
  <2> QED
    BY <1>2, <2>1, <2>2 DEF SameTerms
<1>7. CASE EditCheck \/ Tick \/ UNCHANGED vars
  BY <1>2, <1>7 DEF EditCheck, Tick, vars, dbVars, chainVars, SameTerms
<1> QED
  BY <1>1, <1>3, <1>4, <1>5, <1>6, <1>7, NextCases

(* Whatever the processes try, repeat and lose, the pair of contract and   *)
(* row behaves like one registration: the contract takes the election      *)
(* once, the row then shows what it took, and neither changes any more     *)
(* (syncElections.ts:22-43, admin/elections.ts:377-391).                   *)
THEOREM SyncImplementsRegistration ==
  ASSUME Faults \cap {"slow", "editFailed", "adminRace"} = {}
  PROVE  Spec => SyncIsRegistration
<1>1. Init => RefInv
  BY DEF Init, RefInv, LostApart, TermsInv, OnceInv, SoleHolder, HashInHand, Accounted, Saved,
     EditSafe, TermsAgree, SyncedMatchesContract, Idle, Holding
<1>2. Inv /\ RefInv /\ [Next]_vars => RefInv'
  BY TermsStep, LostApartStep DEF RefInv
<1>3. Init => Contract!Init
  BY DEF Init, Contract!Init, Registered, Published
<1>4. Inv /\ RefInv /\ Inv' /\ RefInv' /\ [Next]_vars => [Contract!Next]_(Contract!vars)
  BY RegistrationStep
<1> QED
  BY <1>1, <1>2, <1>3, <1>4, InitInv, InvStep, PTL DEF Spec, SyncIsRegistration, Contract!Spec
==============================================================================
