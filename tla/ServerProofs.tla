----------------------------- MODULE ServerProofs -----------------------------
(***************************************************************************)
(* Proofs about two things that the server does beside its requests: the   *)
(* nonces of the relayer and the salt of an election.  For any votes,      *)
(* elections, nonces, voters and bounds:                                   *)
(*   - as long as the node drops nothing, no step of the server, the chain *)
(*     sync or the operator leaves a gap in the nonces;                    *)
(*   - whatever is sent again, no vote is in the node at two nonces;       *)
(*   - no vote is recorded with a nullifier without salt, unless the end   *)
(*     of the election was moved after it had passed.                      *)
(***************************************************************************)
EXTENDS Relayer, Closing, SequenceTheorems, TLAPS

-------------------------------------------------------------------------------
(* The relayer.                                                            *)

(* Transactions that are on their way to the node or in it.                *)
Load == Votes \cup Elections \cup {Cancel}

TypeOK ==
    /\ latest \in Nonces
    /\ slots \in [Nonces -> Load \cup {Null}]
    /\ currentNonce \in Nat \cup {Null}
    /\ queue \in Seq(Votes)
    /\ op \in [Votes -> [at : {"new", "queued", "send", "sent", "failed"}, nonce : Nonces]]
    /\ sync \in [Elections -> [at : {"idle", "send", "sent"}, nonce : Nonces]]
    /\ script \in [at : {"idle", "send"}, nonce : Nonces, load : Load]
    /\ dropped \in BOOLEAN
    /\ repairs \in Nat /\ faults \in Nat

(* Everything below n is mined or waits: a transaction with nonce n leaves *)
(* no gap.                                                                 *)
Filled(n) == \A m \in Nonces : m < n => slots[m] # Null

(* A vote that has its nonce is at the head of the queue, and the cache    *)
(* holds the nonce after it.                                               *)
SenderLeads ==
    \A v \in Votes : op[v].at = "send" =>
        Turn(v) /\ currentNonce = op[v].nonce + 1

(* Without a vote under way, the cache does not run ahead of the node.     *)
CacheFilled ==
    currentNonce # Null /\ (\A v \in Votes : op[v].at # "send") => Filled(currentNonce)

(* Nobody holds a nonce that lies beyond a gap.                            *)
HeldFilled ==
    /\ Filled(latest)
    /\ \A v \in Votes : op[v].at = "send" => Filled(op[v].nonce)
    /\ \A e \in Elections : sync[e].at = "send" => Filled(sync[e].nonce)
    /\ script.at = "send" => Filled(script.nonce)

NonceInv == TypeOK /\ SenderLeads /\ (~dropped => NoGap /\ HeldFilled /\ CacheFilled)

-------------------------------------------------------------------------------
LEMMA NullIsNothing == Null \notin Load /\ Null \notin Nat
BY RelayerAssumption DEF Load

LEMMA InitNonceInv == RelayerInit => NonceInv
<1> SUFFICES ASSUME RelayerInit PROVE NonceInv
  OBVIOUS
<1> USE NullIsNothing DEF RelayerInit, Nonces
<1>1. 0 \in Nonces
  BY RelayerAssumption
<1>2. TypeOK
  <2>1. slots \in [Nonces -> Load \cup {Null}] /\ queue \in Seq(Votes)
    OBVIOUS
  <2>2. op \in [Votes -> [at : {"new", "queued", "send", "sent", "failed"}, nonce : Nonces]]
    BY <1>1
  <2>3. sync \in [Elections -> [at : {"idle", "send", "sent"}, nonce : Nonces]]
    BY <1>1
  <2>4. script \in [at : {"idle", "send"}, nonce : Nonces, load : Load]
    BY <1>1 DEF Load
  <2> HIDE DEF Nonces, Load
  <2> QED
    BY <1>1, <2>1, <2>2, <2>3, <2>4 DEF TypeOK
<1>3. SenderLeads /\ NoGap /\ HeldFilled /\ CacheFilled
  BY DEF SenderLeads, NoGap, HeldFilled, CacheFilled, Filled
<1> QED
  BY <1>2, <1>3 DEF NonceInv

(* A transaction at a nonce that lies beyond no gap leaves none, and what  *)
(* was filled stays so.                                                    *)
LEMMA Accepted ==
  ASSUME TypeOK, NEW n \in Nonces, NEW load \in Load, Accepts(n, load)
  PROVE  /\ slots' \in [Nonces -> Load \cup {Null}]
         /\ \A k : Filled(k) => Filled(k)'
         /\ Filled(n) => Filled(n + 1)'
         /\ NoGap /\ Filled(n) /\ ~dropped /\ UNCHANGED dropped => NoGap'
<1> USE NullIsNothing DEF TypeOK
<1>1. slots' = [slots EXCEPT ![n] = load] /\ load # Null
  BY DEF Accepts
<1>2. slots' \in [Nonces -> Load \cup {Null}]
  BY <1>1
<1>3. \A m \in Nonces : slots[m] # Null => slots'[m] # Null
  BY <1>1
<1>4. \A k : Filled(k) => Filled(k)'
  BY <1>3 DEF Filled
<1>5. Filled(n) => Filled(n + 1)'
  BY <1>1, <1>3, RelayerAssumption DEF Filled, Nonces
<1>6. ASSUME NoGap, Filled(n), ~dropped PROVE NoGap'
  <2> SUFFICES ASSUME NEW m \in Nonces, NEW k \in Nonces, m < k, slots'[k] # Null
               PROVE  slots'[m] # Null
    BY DEF NoGap
  <2>1. CASE k = n
    BY <1>3, <1>6, <2>1 DEF Filled
  <2>2. CASE k # n
    BY <1>1, <1>3, <1>6, <2>2 DEF NoGap
  <2> QED
    BY <2>1, <2>2
<1> QED
  BY <1>2, <1>4, <1>5, <1>6

(* The pending count of a node without gaps lies beyond none.              *)
LEMMA PendingFilled ==
  ASSUME TypeOK, NEW p \in Nonces, IsPending(p), Filled(latest)
  PROVE  Filled(p)
BY RelayerAssumption DEF IsPending, Filled, TypeOK, Nonces

(* What does not touch the node touches neither what is filled nor gaps.   *)
LEMMA NodeStill ==
  ASSUME UNCHANGED node
  PROVE  (\A k : Filled(k)' <=> Filled(k)) /\ (NoGap' <=> NoGap) /\ dropped' = dropped
         /\ slots' = slots /\ latest' = latest
BY DEF node, Filled, NoGap

Operation == [at : {"new", "queued", "send", "sent", "failed"}, nonce : Nonces]

LEMMA OneLeads ==
  ASSUME NonceInv, NEW v \in Votes, Turn(v), NEW w \in Votes, op[w].at = "send"
  PROVE  w = v
BY DEF NonceInv, SenderLeads, Turn

(* A vote moves without the node: its successor state decides what has to  *)
(* hold of its nonce.                                                      *)
LEMMA VoteMoves ==
  ASSUME NonceInv, NEW v \in Votes, NEW new \in Operation, op' = [op EXCEPT ![v] = new],
         UNCHANGED <<sync, script>>, repairs' \in Nat, faults' \in Nat,
         slots' \in [Nonces -> Load \cup {Null}], UNCHANGED <<latest, dropped>>,
         currentNonce' \in Nat \cup {Null}, queue' \in Seq(Votes),
         SenderLeads',
         ~dropped => /\ NoGap' /\ (\A k : Filled(k) => Filled(k)')
                     /\ new.at = "send" => Filled(new.nonce)'
                     /\ CacheFilled'
  PROVE  NonceInv'
<1>1. TypeOK'
  BY DEF NonceInv, TypeOK, Operation
<1>2. ASSUME ~dropped PROVE HeldFilled'
  <2>1. ASSUME NEW w \in Votes, op'[w].at = "send" PROVE Filled(op[w].nonce)' 
    BY <1>2, <2>1 DEF NonceInv, TypeOK, HeldFilled
  <2> QED
    BY <1>2, <2>1 DEF NonceInv, HeldFilled
<1> QED
  BY <1>1, <1>2 DEF NonceInv

LEMMA EnqueueStep ==
  ASSUME NonceInv, NEW v \in Votes, Enqueue(v)
  PROVE  NonceInv'
<1> USE DEF NonceInv, TypeOK
<1> DEFINE new == [op[v] EXCEPT !.at = "queued"]
<1>1. /\ new \in Operation /\ new.at = "queued" /\ op' = [op EXCEPT ![v] = new]
      /\ UNCHANGED <<node, currentNonce, sync, script, relayerBounds>> /\ queue' = Append(queue, v)
  BY DEF Enqueue, Operation
<1>2. queue' \in Seq(Votes) /\ \A w \in Votes : Turn(w) => Turn(w)'
  BY <1>1 DEF Turn
<1>3. SenderLeads' /\ (~dropped => CacheFilled')
  BY <1>1, <1>2, NodeStill DEF SenderLeads, CacheFilled, Enqueue
<1> QED
  BY <1>1, <1>2, <1>3, VoteMoves, NodeStill DEF node, relayerBounds

LEMMA TakeNonceStep ==
  ASSUME NonceInv, NEW v \in Votes, TakeNonce(v)
  PROVE  NonceInv'
<1> USE DEF NonceInv, TypeOK
<1>1. PICK p \in Nonces : /\ IsPending(p) /\ NextNonce(p) < MaxNonce
                         /\ op' = [op EXCEPT ![v] = [at |-> "send", nonce |-> NextNonce(p)]]
                         /\ currentNonce' = NextNonce(p) + 1
  BY DEF TakeNonce
<1>2. /\ op[v].at = "queued" /\ Turn(v) /\ UNCHANGED <<node, queue, sync, script, relayerBounds>>
  BY DEF TakeNonce
<1>0. PICK n : n = NextNonce(p)
  OBVIOUS
<1> DEFINE new == [at |-> "send", nonce |-> n]
<1>3. \A w \in Votes : op[w].at # "send"
  BY <1>2, OneLeads
<1>4. n \in Nonces /\ new \in Operation
  BY <1>0, <1>1, RelayerAssumption DEF NextNonce, Nonces, Operation
<1>5. ~dropped => Filled(n)
  BY <1>0, <1>1, <1>3, PendingFilled DEF NextNonce, CacheFilled, HeldFilled
<1>6. SenderLeads'
  BY <1>0, <1>1, <1>2, <1>3 DEF SenderLeads, Turn
<1>7. CacheFilled'
  BY <1>0, <1>1 DEF CacheFilled
<1>8. /\ UNCHANGED <<sync, script, latest, dropped, slots, queue, repairs, faults>>
      /\ currentNonce' \in Nat
  BY <1>0, <1>1, <1>2, <1>4 DEF node, relayerBounds, Nonces
<1>9. ~dropped => NoGap' /\ (\A k : Filled(k) => Filled(k)') /\ Filled(new.nonce)'
  BY <1>2, <1>5, NodeStill
<1> HIDE DEF new
<1>10. op' = [op EXCEPT ![v] = new]
  BY <1>0, <1>1 DEF new
<1> QED
  BY <1>4, <1>6, <1>7, <1>8, <1>9, <1>10, VoteMoves

(* Whoever fails leads the queue: nobody has a nonce any more, and the     *)
(* cache is empty.                                                         *)
LEMMA FailsStep ==
  ASSUME NonceInv, NEW v \in Votes, Turn(v), Fails(v), UNCHANGED <<sync, script>>,
         repairs' \in Nat, faults' \in Nat, UNCHANGED <<latest, dropped>>,
         slots' \in [Nonces -> Load \cup {Null}],
         ~dropped => NoGap' /\ (\A k : Filled(k) => Filled(k)')
  PROVE  NonceInv'
<1> DEFINE new == [op[v] EXCEPT !.at = "failed"]
<1>1. new \in Operation /\ new.at = "failed" /\ op' = [op EXCEPT ![v] = new]
  BY DEF Fails, NonceInv, TypeOK, Operation
<1>2. currentNonce' = Null /\ queue' \in Seq(Votes)
  BY DEF Fails, Leave, AfterError, Turn, NonceInv, TypeOK
<1>3. \A w \in Votes : op'[w].at # "send"
  BY <1>1, OneLeads DEF NonceInv, TypeOK
<1>4. SenderLeads' /\ CacheFilled'
  BY <1>2, <1>3 DEF SenderLeads, CacheFilled
<1> QED
  BY <1>1, <1>2, <1>4, VoteMoves

LEMMA TakeNonceFailsStep ==
  ASSUME NonceInv, NEW v \in Votes, TakeNonceFails(v)
  PROVE  NonceInv'
<1>1. /\ Turn(v) /\ Fails(v) /\ UNCHANGED <<node, sync, script, repairs>>
      /\ faults' \in Nat
  BY DEF TakeNonceFails, Fault, NonceInv, TypeOK
<1> QED
  BY <1>1, FailsStep, NodeStill DEF node, NonceInv, TypeOK

LEMMA SendStep ==
  ASSUME NonceInv, NEW v \in Votes, Send(v)
  PROVE  NonceInv'
<1> USE DEF NonceInv, TypeOK
<1> DEFINE new == [op[v] EXCEPT !.at = "sent"]
           n == op[v].nonce
<1>1. /\ op[v].at = "send" /\ Accepts(n, v) /\ op' = [op EXCEPT ![v] = new]
      /\ UNCHANGED <<latest, dropped, currentNonce, sync, script, relayerBounds>> /\ Leave(v)
      /\ new \in Operation /\ new.at = "sent" /\ n \in Nonces /\ v \in Load
  BY DEF Send, Operation, Load
<1>2. Turn(v) /\ currentNonce = n + 1
  BY <1>1 DEF SenderLeads
<1>3. queue' \in Seq(Votes)
  BY <1>1, <1>2 DEF Leave, Turn
<1>4. \A w \in Votes : op'[w].at # "send"
  BY <1>1, <1>2, OneLeads
<1>5. SenderLeads'
  BY <1>4 DEF SenderLeads
<1>6. ASSUME ~dropped PROVE /\ NoGap' /\ (\A k : Filled(k) => Filled(k)') /\ Filled(n + 1)'
  BY <1>1, <1>6, Accepted DEF HeldFilled
<1>7. ~dropped => CacheFilled'
  BY <1>1, <1>2, <1>6 DEF CacheFilled
<1>8. slots' \in [Nonces -> Load \cup {Null}]
  BY <1>1, Accepted
<1> QED
  BY <1>1, <1>3, <1>5, <1>6, <1>7, <1>8, VoteMoves DEF relayerBounds

LEMMA SendRefusedStep ==
  ASSUME NonceInv, NEW v \in Votes, SendRefused(v)
  PROVE  NonceInv'
<1>1. /\ Turn(v) /\ Fails(v) /\ UNCHANGED <<node, sync, script, relayerBounds>>
  BY DEF SendRefused, NonceInv, SenderLeads
<1> QED
  BY <1>1, FailsStep, NodeStill DEF node, relayerBounds, NonceInv, TypeOK

LEMMA SendFailsStep ==
  ASSUME NonceInv, NEW v \in Votes, SendFails(v)
  PROVE  NonceInv'
<1> DEFINE n == op[v].nonce
<1>1. /\ Turn(v) /\ Fails(v) /\ UNCHANGED <<latest, dropped, sync, script, repairs>>
      /\ faults' \in Nat /\ op[v].at = "send" /\ n \in Nonces /\ v \in Load
      /\ UNCHANGED slots \/ Accepts(n, v)
  BY DEF SendFails, Fault, NonceInv, TypeOK, SenderLeads, Load
<1>2. /\ slots' \in [Nonces -> Load \cup {Null}]
      /\ ~dropped => NoGap' /\ (\A k : Filled(k) => Filled(k)')
  BY <1>1, Accepted, NodeStill DEF node, NonceInv, HeldFilled, TypeOK
<1> QED
  BY <1>1, <1>2, FailsStep DEF NonceInv, TypeOK

(***************************************************************************)
(* The chain sync, the operator and the node.                              *)
(***************************************************************************)

(* The rest of the key's users leave the queue and its cache alone.        *)
LEMMA ServerStill ==
  ASSUME NonceInv, UNCHANGED server, ~dropped => \A k : Filled(k) => Filled(k)'
  PROVE  SenderLeads' /\ (~dropped => CacheFilled')
BY DEF NonceInv, server, SenderLeads, CacheFilled, Turn

SyncState == [at : {"idle", "send", "sent"}, nonce : Nonces]

LEMMA SyncTakesNonceStep ==
  ASSUME NonceInv, NEW e \in Elections, SyncTakesNonce(e)
  PROVE  NonceInv'
<1> USE DEF NonceInv, TypeOK
<1>1. PICK p \in Nonces : /\ IsPending(p)
                         /\ sync' = [sync EXCEPT ![e] = [at |-> "send", nonce |-> p]]
  BY DEF SyncTakesNonce
<1>2. UNCHANGED <<node, server, script, relayerBounds>>
  BY DEF SyncTakesNonce
<1>3. ~dropped => Filled(p)
  BY <1>1, PendingFilled DEF HeldFilled
<1>4. sync' \in [Elections -> SyncState]
  BY <1>1 DEF SyncState
<1>5. \A k : Filled(k)' <=> Filled(k)
  BY <1>2, NodeStill
<1>6. ~dropped => NoGap' /\ HeldFilled'
  <2> SUFFICES ASSUME ~dropped PROVE NoGap' /\ HeldFilled'
    OBVIOUS
  <2>1. ASSUME NEW d \in Elections, sync'[d].at = "send" PROVE Filled(sync[d].nonce)'
    BY <1>1, <1>3, <1>5, <2>1 DEF HeldFilled
  <2> QED
    BY <1>2, <1>5, <2>1, NodeStill DEF HeldFilled, server
<1>7. SenderLeads' /\ (~dropped => CacheFilled')
  BY <1>2, <1>5, ServerStill
<1>8. TypeOK'
  BY <1>2, <1>4 DEF SyncState, node, server, relayerBounds
<1> QED
  BY <1>2, <1>6, <1>7, <1>8, NodeStill

(* A transaction that reaches the node from outside the queue.             *)
LEMMA SentBeside ==
  ASSUME NonceInv, NEW n \in Nonces, NEW load \in Load, ~dropped => Filled(n),
         Accepts(n, load) \/ UNCHANGED slots, UNCHANGED <<latest, dropped>>
  PROVE  /\ slots' \in [Nonces -> Load \cup {Null}]
         /\ ~dropped => NoGap' /\ (\A k : Filled(k) => Filled(k)')
<1>1. CASE Accepts(n, load)
  BY <1>1, Accepted DEF NonceInv
<1>2. CASE UNCHANGED slots
  BY <1>2, NodeStill DEF NonceInv, TypeOK, node
<1> QED
  BY <1>1, <1>2

LEMMA SyncSendsStep ==
  ASSUME NonceInv, NEW e \in Elections,
         SyncSends(e) \/ SyncRefused(e) \/ SyncFails(e) \/ SyncDropped(e)
  PROVE  NonceInv'
<1> USE DEF NonceInv, TypeOK
<1>1. /\ UNCHANGED <<latest, dropped, server, script, repairs>> /\ faults' \in Nat
      /\ (sync[e].at = "send" /\ Accepts(sync[e].nonce, e)) \/ UNCHANGED slots
      /\ sync[e].nonce \in Nonces /\ e \in Load
  BY DEF SyncSends, SyncRefused, SyncFails, SyncDropped, Fault, node, relayerBounds, Load
<1>2. \/ sync' = [sync EXCEPT ![e].at = "sent"]
      \/ sync' = [sync EXCEPT ![e] = [at |-> "idle", nonce |-> 0]]
  BY DEF SyncSends, SyncRefused, SyncFails, SyncDropped, TriesAgain
<1>3. /\ slots' \in [Nonces -> Load \cup {Null}]
      /\ ~dropped => NoGap' /\ (\A k : Filled(k) => Filled(k)')
  <2>1. CASE sync[e].at = "send"
    BY <1>1, <2>1, SentBeside DEF HeldFilled
  <2>2. CASE UNCHANGED slots
    BY <1>1, <2>2, NodeStill DEF node
  <2> QED
    BY <1>1, <2>1, <2>2
<1>4. /\ sync' \in [Elections -> SyncState]
      /\ \A d \in Elections : sync'[d].at = "send" => sync'[d] = sync[d]
  <2>1. 0 \in Nonces
    BY RelayerAssumption DEF Nonces
  <2>2. CASE sync' = [sync EXCEPT ![e].at = "sent"]
    BY <2>2 DEF SyncState
  <2>3. CASE sync' = [sync EXCEPT ![e] = [at |-> "idle", nonce |-> 0]]
    BY <2>1, <2>3 DEF SyncState
  <2> QED
    BY <1>2, <2>2, <2>3
<1>5. SenderLeads' /\ (~dropped => CacheFilled')
  BY <1>1, <1>3, ServerStill
<1>6. ~dropped => HeldFilled'
  BY <1>1, <1>3, <1>4 DEF HeldFilled, server
<1>7. TypeOK'
  BY <1>1, <1>3, <1>4 DEF SyncState, server
<1> QED
  BY <1>1, <1>3, <1>5, <1>6, <1>7

(* The operator picks a nonce below the pending count.                     *)
LEMMA ScriptStarts ==
  ASSUME NonceInv, NEW n \in Nonces, NEW load \in Load, BelowPending(n),
         script' = [at |-> "send", nonce |-> n, load |-> load],
         repairs' = repairs + 1, UNCHANGED <<node, server, sync, faults>>
  PROVE  NonceInv'
<1> USE DEF NonceInv, TypeOK
<1>1. ~dropped => Filled(n)
  <2>1. PICK p \in Nonces : IsPending(p) /\ n < p
    BY DEF BelowPending
  <2>2. ~dropped => Filled(p)
    BY <2>1, PendingFilled DEF HeldFilled
  <2> QED
    BY <2>1, <2>2, RelayerAssumption DEF Filled, Nonces
<1>2. \A k : Filled(k)' <=> Filled(k)
  BY NodeStill
<1>3. ~dropped => NoGap' /\ HeldFilled'
  BY <1>1, <1>2, NodeStill DEF HeldFilled, server
<1>4. SenderLeads' /\ (~dropped => CacheFilled')
  BY <1>2, ServerStill
<1>5. TypeOK'
  BY DEF node, server
<1> QED
  BY <1>3, <1>4, <1>5, NodeStill

LEMMA ScriptStep ==
  ASSUME NonceInv, NEW n \in Nonces, ScriptCancel(n) \/ ScriptSpeedup(n)
  PROVE  NonceInv'
<1>1. CASE ScriptCancel(n)
  BY <1>1, ScriptStarts DEF ScriptCancel, Load
<1>2. CASE ScriptSpeedup(n)
  <2>1. slots[n] \in Load
    BY <1>2 DEF ScriptSpeedup, NonceInv, TypeOK
  <2> QED
    BY <1>2, <2>1, ScriptStarts DEF ScriptSpeedup
<1> QED
  BY <1>1, <1>2

LEMMA ScriptSendsStep ==
  ASSUME NonceInv, ScriptSends
  PROVE  NonceInv'
<1> USE DEF NonceInv, TypeOK
<1>1. /\ script.at = "send" /\ UNCHANGED <<latest, dropped, server, sync, relayerBounds>>
      /\ Accepts(script.nonce, script.load) \/ UNCHANGED slots
      /\ script.nonce \in Nonces /\ script.load \in Load
  BY DEF ScriptSends
<1>2. script' \in [at : {"idle", "send"}, nonce : Nonces, load : Load] /\ script'.at = "idle"
  BY DEF ScriptSends
<1>3. /\ slots' \in [Nonces -> Load \cup {Null}]
      /\ ~dropped => NoGap' /\ (\A k : Filled(k) => Filled(k)')
  BY <1>1, SentBeside DEF HeldFilled
<1>4. SenderLeads' /\ (~dropped => CacheFilled')
  BY <1>1, <1>3, ServerStill
<1>5. ~dropped => HeldFilled'
  BY <1>1, <1>2, <1>3 DEF HeldFilled, server
<1>6. TypeOK'
  BY <1>1, <1>2, <1>3 DEF server, relayerBounds
<1> QED
  BY <1>1, <1>3, <1>4, <1>5, <1>6

LEMMA MineStep == NonceInv /\ Mine => NonceInv'
<1> SUFFICES ASSUME NonceInv, Mine PROVE NonceInv'
  OBVIOUS
<1> USE DEF NonceInv, TypeOK
<1>1. /\ latest \in Nonces /\ slots[latest] # Null /\ latest < MaxNonce /\ latest' = latest + 1
      /\ UNCHANGED <<slots, dropped, server, sync, script, relayerBounds>>
  BY DEF Mine, Live
<1>2. \A k : Filled(k)' <=> Filled(k)
  BY <1>1 DEF Filled
<1>3. Filled(latest) => Filled(latest')
  BY <1>1, RelayerAssumption DEF Filled, Nonces
<1>4. ~dropped => NoGap' /\ HeldFilled'
  BY <1>1, <1>2, <1>3 DEF HeldFilled, NoGap, server
<1>5. SenderLeads' /\ (~dropped => CacheFilled')
  BY <1>1, <1>2, ServerStill
<1>6. latest' \in Nonces
  BY <1>1, RelayerAssumption DEF Nonces
<1> QED
  BY <1>1, <1>4, <1>5, <1>6 DEF server, relayerBounds

LEMMA DropStep ==
  ASSUME NonceInv, NEW n \in Nonces, Drop(n)
  PROVE  NonceInv'
<1> USE DEF NonceInv, TypeOK
<1>1. /\ slots' \in [Nonces -> Load \cup {Null}] /\ dropped' = TRUE /\ faults' \in Nat
      /\ UNCHANGED <<latest, server, sync, script, repairs>>
  BY DEF Drop, Fault
<1> QED
  BY <1>1 DEF server, SenderLeads, Turn

LEMMA CrashStep == NonceInv /\ RelayerStops => NonceInv'
<1> SUFFICES ASSUME NonceInv, RelayerStops PROVE NonceInv'
  OBVIOUS
<1> USE DEF NonceInv, TypeOK
<1>1. /\ currentNonce' = Null /\ queue' = <<>> /\ UNCHANGED <<node, script, repairs>>
      /\ faults' \in Nat
  BY DEF RelayerStops, Fault
<1>2. op' \in [Votes -> Operation] /\ \A v \in Votes : op'[v].at # "send"
  BY DEF RelayerStops, Operation
<1>3. sync' \in [Elections -> SyncState] /\ \A e \in Elections : sync'[e].at # "send"
  <2>1. 0 \in Nonces
    BY RelayerAssumption DEF Nonces
  <2> QED
    BY <2>1 DEF RelayerStops, SyncState
<1>4. SenderLeads' /\ CacheFilled'
  BY <1>1, <1>2 DEF SenderLeads, CacheFilled
<1>5. ~dropped => NoGap' /\ HeldFilled'
  BY <1>1, <1>2, <1>3, NodeStill DEF HeldFilled
<1>6. TypeOK'
  BY <1>1, <1>2, <1>3 DEF Operation, SyncState, node
<1> QED
  BY <1>1, <1>4, <1>5, <1>6, NodeStill

-------------------------------------------------------------------------------
LEMMA StepNonceInv == NonceInv /\ [RelayerNext]_relayerVars => NonceInv'
<1> SUFFICES ASSUME NonceInv, [RelayerNext]_relayerVars PROVE NonceInv'
  OBVIOUS
<1>1. CASE \E v \in Votes : Enqueue(v) \/ Handling(v)
  BY <1>1, EnqueueStep, TakeNonceStep, TakeNonceFailsStep, SendStep, SendRefusedStep,
     SendFailsStep DEF Handling
<1>2. CASE \E e \in Elections : Syncing(e)
  BY <1>2, SyncTakesNonceStep, SyncSendsStep DEF Syncing
<1>3. CASE \E n \in Nonces : ScriptCancel(n) \/ ScriptSpeedup(n) \/ Drop(n)
  BY <1>3, ScriptStep, DropStep
<1>4. CASE UNCHANGED relayerVars
  <2>1. UNCHANGED <<node, server, sync, script, relayerBounds>>
    BY <1>4 DEF relayerVars
  <2>2. SenderLeads' /\ (~dropped => CacheFilled')
    BY <2>1, NodeStill, ServerStill
  <2> QED
    BY <2>1, <2>2, NodeStill DEF NonceInv, TypeOK, HeldFilled, node, server, relayerBounds
<1> QED
  BY <1>1, <1>2, <1>3, <1>4, ScriptSendsStep, MineStep, CrashStep DEF RelayerNext

(* The variables keep their types, and a vote that has taken its nonce     *)
(* leads the queue: the nonces of two votes are never under way at once.   *)
THEOREM OneNonceAtATime == RelayerSpec => [](TypeOK /\ SenderLeads)
<1>1. NonceInv => TypeOK /\ SenderLeads
  BY DEF NonceInv
<1> QED
  BY <1>1, InitNonceInv, StepNonceInv, PTL DEF RelayerSpec

(* As long as the node drops nothing, the key's transactions leave no gap, *)
(* though the chain sync signs beside the queue (voteChain.ts,             *)
(* syncElections.ts), calls fail, answers are lost, an operator replaces   *)
(* transactions and the server restarts.                                   *)
THEOREM NoncesHaveNoGap == RelayerSpec => []NoGap
<1>1. NonceInv => NoGap
  BY DEF NonceInv, NoGap
<1> QED
  BY <1>1, InitNonceInv, StepNonceInv, PTL DEF RelayerSpec


(* A vote that is in the node, or is about to be sent again, has the nonce *)
(* it took, and its request is done.                                       *)
Placed(t, n) == t \in Votes => op[t].nonce = n /\ op[t].at \in {"sent", "failed"}

PlaceInv ==
    /\ \A n \in Nonces : Placed(slots[n], n)
    /\ script.at = "send" => Placed(script.load, script.nonce)

(* Requests that are done stay as they are; what comes to a nonce has it.  *)
LEMMA PlaceMoves ==
  ASSUME PlaceInv,
         \A v \in Votes : op[v].at \in {"sent", "failed"} => op'[v] = op[v],
         \A n \in Nonces : slots'[n] = slots[n] \/ Placed(slots[n], n)',
         script'.at = "send" => \/ script' = script
                                \/ Placed(script.load, script.nonce)'
  PROVE  PlaceInv'
<1>1. \A t, n : Placed(t, n) => Placed(t, n)'
  BY DEF Placed
<1> QED
  BY <1>1 DEF PlaceInv

(* What is no vote has any nonce.                                          *)
LEMMA OthersPlaced ==
  /\ \A n : Placed(Null, n) /\ Placed(Cancel, n)
  /\ \A e \in Elections, n \in Nonces : Placed(e, n)'
BY RelayerAssumption DEF Placed

LEMMA VotesPlace ==
  ASSUME TypeOK, PlaceInv, NEW v \in Votes, Enqueue(v) \/ Handling(v)
  PROVE  PlaceInv'
<1> USE DEF TypeOK
<1>1. /\ op[v].at \notin {"sent", "failed"} /\ UNCHANGED script
      /\ \A w \in Votes \ {v} : op'[w] = op[w]
  BY DEF Enqueue, Handling, TakeNonce, TakeNonceFails, Send, SendRefused, SendFails, Fails
<1>2. CASE UNCHANGED slots
  BY <1>1, <1>2, PlaceMoves
<1>3. CASE Accepts(op[v].nonce, v) /\ op[v].at = "send" /\ (Send(v) \/ SendFails(v))
  <2>1. op'[v].nonce = op[v].nonce /\ op'[v].at \in {"sent", "failed"}
    BY <1>3 DEF Send, SendFails, Fails
  <2>3. \A n \in Nonces : slots'[n] = slots[n] \/ (slots'[n] = v /\ n = op[v].nonce)
    BY <1>3 DEF Accepts
  <2>4. Placed(v, op[v].nonce)'
    BY <2>1 DEF Placed
  <2>5. \A n \in Nonces : slots'[n] = slots[n] \/ Placed(slots[n], n)'
    BY <2>1, <2>3, <2>4 DEF Placed
  <2> QED
    BY <1>1, <2>5, PlaceMoves
<1>4. UNCHANGED slots \/ (Accepts(op[v].nonce, v) /\ op[v].at = "send" /\ (Send(v) \/ SendFails(v)))
  BY DEF Enqueue, Handling, TakeNonce, TakeNonceFails, Send, SendRefused, SendFails, node
<1> QED
  BY <1>2, <1>3, <1>4

LEMMA SyncPlaces ==
  ASSUME TypeOK, PlaceInv, NEW e \in Elections, Syncing(e)
  PROVE  PlaceInv'
<1> USE DEF TypeOK
<1>1. UNCHANGED <<op, script>>
  BY DEF Syncing, SyncTakesNonce, SyncSends, SyncRefused, SyncFails, SyncDropped, server
<1>2. slots' = slots \/ slots' = [slots EXCEPT ![sync[e].nonce] = e]
  BY DEF Syncing, SyncTakesNonce, SyncSends, SyncRefused, SyncFails, SyncDropped, node, Accepts
<1>3. \A n \in Nonces : slots'[n] = slots[n] \/ Placed(slots[n], n)'
  BY <1>2, OthersPlaced DEF Placed
<1> QED
  BY <1>1, <1>3, PlaceMoves

(* The operator sends again what he found at a nonce, with that nonce,     *)
(* whatever became of it since.                                            *)
LEMMA ScriptPlaces ==
  ASSUME TypeOK, PlaceInv,
         ScriptSends \/ \E n \in Nonces : ScriptCancel(n) \/ ScriptSpeedup(n)
  PROVE  PlaceInv'
<1> USE DEF TypeOK
<1>1. CASE ScriptSends
  <2>1. /\ UNCHANGED op /\ script'.at = "idle" /\ Placed(script.load, script.nonce)
        /\ \A n \in Nonces : slots'[n] = slots[n] \/ (slots'[n] = script.load /\ n = script.nonce)
    BY <1>1 DEF ScriptSends, Accepts, server, PlaceInv
  <2>2. \A n \in Nonces : slots'[n] = slots[n] \/ Placed(slots[n], n)'
    BY <2>1 DEF Placed
  <2> QED
    BY <2>1, <2>2, PlaceMoves
<1>2. CASE \E n \in Nonces : ScriptCancel(n) \/ ScriptSpeedup(n)
  <2>1. PICK n \in Nonces : ScriptCancel(n) \/ ScriptSpeedup(n)
    BY <1>2
  <2>2. /\ UNCHANGED <<op, slots>> /\ script'.nonce = n
        /\ script'.load = Cancel \/ script'.load = slots[n]
    BY <2>1 DEF ScriptCancel, ScriptSpeedup, node, server
  <2>3. Placed(slots[n], n) /\ Placed(Cancel, n)
    BY OthersPlaced DEF PlaceInv
  <2>4. Placed(script.load, script.nonce)'
    BY <2>2, <2>3 DEF Placed
  <2> QED
    BY <2>2, <2>4, PlaceMoves
<1> QED
  BY <1>1, <1>2

LEMMA NodePlaces ==
  ASSUME TypeOK, PlaceInv,
         Mine \/ RelayerStops \/ UNCHANGED relayerVars \/ \E n \in Nonces : Drop(n)
  PROVE  PlaceInv'
<1> USE DEF TypeOK
<1>1. CASE Mine \/ UNCHANGED relayerVars
  BY <1>1, PlaceMoves DEF Mine, relayerVars, node, server
<1>2. CASE RelayerStops
  <2>1. /\ \A v \in Votes : op[v].at \in {"sent", "failed"} => op'[v] = op[v]
        /\ UNCHANGED <<slots, script>>
    BY <1>2 DEF RelayerStops, node
  <2> QED
    BY <2>1, PlaceMoves
<1>3. ASSUME NEW n \in Nonces, Drop(n) PROVE PlaceInv'
  <2>1. /\ UNCHANGED <<op, script>>
        /\ \A m \in Nonces : slots'[m] = slots[m] \/ slots'[m] = Null
    BY <1>3 DEF Drop, server
  <2>2. \A m \in Nonces : slots'[m] = slots[m] \/ Placed(slots[m], m)'
    BY <2>1, RelayerAssumption DEF Placed
  <2> QED
    BY <2>1, <2>2, PlaceMoves
<1> QED
  BY <1>1, <1>2, <1>3

(* Whatever fails, restarts or is sent again by the operator, a vote is in *)
(* the node at one nonce, so it can be mined once: the server never sends  *)
(* again what it has sent, and replaceStuckRelayerTx keeps the nonce.      *)
THEOREM VotesHaveOneNonce == RelayerSpec => []OneNonceEach
<1>1. RelayerInit => PlaceInv
  BY OthersPlaced DEF RelayerInit, PlaceInv
<1>2. TypeOK /\ PlaceInv /\ [RelayerNext]_relayerVars => PlaceInv'
  BY VotesPlace, SyncPlaces, ScriptPlaces, NodePlaces DEF RelayerNext
<1>3. PlaceInv => OneNonceEach
  <2> SUFFICES ASSUME PlaceInv, NEW t \in Votes, NEW m \in Nonces, NEW n \in Nonces,
                      slots[m] = t, slots[n] = t
               PROVE  m = n
    BY DEF OneNonceEach
  <2> QED
    BY DEF PlaceInv, Placed
<1> QED
  BY <1>1, <1>2, <1>3, OneNonceAtATime, PTL DEF RelayerSpec

-------------------------------------------------------------------------------
(* The salt.                                                               *)

ClosingTypeOK ==
    /\ row \in Row /\ salter \in {"idle", "count", "destroy"}
    /\ hand \in [Voters -> Hand]
    /\ attempts \in [Voters -> {"none", "failed", "salted", "plain"}]
    /\ votes \in [Voters -> {"none", "salted", "plain"}]

(* The job begins to look at a salt when the election is over, and over it *)
(* remains for who has not read the salt any more: a voter who goes on to  *)
(* the lock has read it, and so do all the attempts and the votes.         *)
SaltLeavesLate ==
    (~row.salt \/ salter # "idle") => time = "over"

HandsSalted ==
    \A v \in Voters : /\ hand[v].at = "read" /\ ~hand[v].salted => time = "over"
                      /\ hand[v].at \in {"lock", "cast"} => hand[v].salted

AttemptsSalted == \A v \in Voters : attempts[v] # "plain"

SaltInv ==
    /\ ClosingTypeOK
    /\ ~reopened => SaltLeavesLate /\ HandsSalted /\ AttemptsSalted /\ VotesAreSalted

LEMMA InitSaltInv == Init => SaltInv
BY DEF Init, SaltInv, ClosingTypeOK, Row, Hand, Away, SaltLeavesLate, HandsSalted,
       AttemptsSalted, VotesAreSalted

(* One voter's request goes on; the election does not change.              *)
LEMMA HandMoves ==
  ASSUME SaltInv, NEW v \in Voters, NEW h \in Hand, hand' = [hand EXCEPT ![v] = h],
         UNCHANGED <<row, time, salter, reopened>>,
         ~reopened => /\ h.at = "read" /\ ~h.salted => time = "over"
                      /\ h.at \in {"lock", "cast"} => h.salted,
         attempts' = attempts
            \/ \E a \in {"none", "failed", "salted", "plain"} :
                  attempts' = [attempts EXCEPT ![v] = a] /\ (~reopened => a # "plain"),
         votes' = votes
            \/ \E a \in {"salted", "plain"} :
                  votes' = [votes EXCEPT ![v] = a] /\ (~reopened => a # "plain")
  PROVE  SaltInv'
<1>1. hand' \in [Voters -> Hand] /\ hand'[v] = h /\ \A w \in Voters : w # v => hand'[w] = hand[w]
  BY DEF SaltInv, ClosingTypeOK
<1>2. /\ attempts' \in [Voters -> {"none", "failed", "salted", "plain"}]
      /\ ~reopened => AttemptsSalted'
  <2>1. CASE attempts' = attempts
    BY <2>1 DEF SaltInv, ClosingTypeOK, AttemptsSalted
  <2>2. ASSUME NEW a \in {"none", "failed", "salted", "plain"},
               attempts' = [attempts EXCEPT ![v] = a], ~reopened => a # "plain"
        PROVE  /\ attempts' \in [Voters -> {"none", "failed", "salted", "plain"}]
               /\ ~reopened => AttemptsSalted'
    BY <2>2 DEF SaltInv, ClosingTypeOK, AttemptsSalted
  <2> QED
    BY <2>1, <2>2
<1>3. /\ votes' \in [Voters -> {"none", "salted", "plain"}]
      /\ ~reopened => \A w \in Voters : votes'[w] # "plain"
  <2>1. CASE votes' = votes
    BY <2>1 DEF SaltInv, ClosingTypeOK, VotesAreSalted
  <2>2. ASSUME NEW a \in {"salted", "plain"},
               votes' = [votes EXCEPT ![v] = a], ~reopened => a # "plain"
        PROVE  /\ votes' \in [Voters -> {"none", "salted", "plain"}]
               /\ ~reopened => \A w \in Voters : votes'[w] # "plain"
    BY <2>2 DEF SaltInv, ClosingTypeOK, VotesAreSalted
  <2> QED
    BY <2>1, <2>2
<1>4. ClosingTypeOK'
  BY <1>1, <1>2, <1>3 DEF SaltInv, ClosingTypeOK
<1>5. ~reopened => SaltLeavesLate' /\ HandsSalted'
  BY <1>1 DEF SaltInv, SaltLeavesLate, HandsSalted
<1> QED
  BY <1>2, <1>3, <1>4, <1>5 DEF SaltInv, VotesAreSalted

LEMMA VoterStep ==
  ASSUME SaltInv, NEW v \in Voters,
         ReadElection(v) \/ Handler(v) \/ Reconcile(v)
  PROVE  SaltInv'
<1>1. /\ hand \in [Voters -> Hand] /\ hand[v] \in Hand /\ row \in Row
      /\ attempts \in [Voters -> {"none", "failed", "salted", "plain"}]
      /\ votes \in [Voters -> {"none", "salted", "plain"}]
  BY DEF SaltInv, ClosingTypeOK
<1>2. Away \in Hand
  BY DEF Away, Hand
<1>3. ~reopened => /\ ~row.salt => time = "over"
                   /\ hand[v].at = "read" /\ ~hand[v].salted => time = "over"
                   /\ hand[v].at \in {"lock", "cast"} => hand[v].salted
                   /\ attempts[v] # "plain"
  BY DEF SaltInv, SaltLeavesLate, HandsSalted, AttemptsSalted
<1>4. CASE ReadElection(v)
  <2> DEFINE h == [at |-> "read", salted |-> row.salt, synced |-> row.chain = "synced"]
  <2>1. h \in Hand /\ h.at = "read" /\ h.salted = row.salt
    BY <1>1 DEF Hand, Row
  <2>2. /\ hand' = [hand EXCEPT ![v] = h]
        /\ UNCHANGED <<row, time, salter, reopened, attempts, votes>>
    BY <1>4 DEF ReadElection
  <2> HIDE DEF h
  <2> QED
    BY <1>3, <2>1, <2>2, HandMoves
<1>5. CASE CheckVoter(v)
  <2>1. UNCHANGED <<row, time, salter, reopened, attempts, votes>> /\ hand[v].at = "read"
    BY <1>5 DEF CheckVoter
  <2>2. CASE Leaves(v)
    BY <1>2, <2>1, <2>2, HandMoves DEF Leaves, Away
  <2>3. CASE time = "open" /\ Goes(v, "lock")
    <3> DEFINE h == [hand[v] EXCEPT !.at = "lock"]
    <3>1. h \in Hand /\ h.at = "lock" /\ h.salted = hand[v].salted /\ hand' = [hand EXCEPT ![v] = h]
      BY <1>1, <2>3 DEF Hand, Goes
    <3> HIDE DEF h
    <3>2. ~reopened => h.salted
      BY <1>1, <1>3, <2>1, <2>3, <3>1 DEF Hand
    <3> QED
      BY <2>1, <3>1, <3>2, HandMoves
  <2> QED
    BY <1>5, <2>2, <2>3 DEF CheckVoter
<1>6. CASE TakeLock(v)
  <2>1. UNCHANGED <<row, time, salter, reopened, votes>> /\ hand[v].at = "lock"
    BY <1>6 DEF TakeLock
  <2>2. CASE Leaves(v) /\ UNCHANGED attempts
    BY <1>2, <2>1, <2>2, HandMoves DEF Leaves, Away
  <2>3. CASE Goes(v, "cast") /\ attempts' = [attempts EXCEPT ![v] = Nullifier(v)]
    <3> DEFINE h == [hand[v] EXCEPT !.at = "cast"]
    <3>1. h \in Hand /\ h.at = "cast" /\ h.salted = hand[v].salted /\ hand' = [hand EXCEPT ![v] = h]
      BY <1>1, <2>3 DEF Hand, Goes
    <3> HIDE DEF h
    <3>2. ~reopened => h.salted
      BY <1>3, <2>1, <3>1
    <3>3. Nullifier(v) \in {"salted", "plain"} /\ (~reopened => Nullifier(v) # "plain")
      BY <1>3, <2>1 DEF Nullifier
    <3> QED
      BY <2>1, <2>3, <3>1, <3>2, <3>3, HandMoves
  <2> QED
    BY <1>6, <2>2, <2>3 DEF TakeLock
<1>7. CASE Cast(v)
  <2>1. UNCHANGED <<row, time, salter, reopened>> /\ hand[v].at = "cast" /\ hand' = [hand EXCEPT ![v] = Away]
    BY <1>7 DEF Cast, Leaves
  <2>2. Nullifier(v) \in {"salted", "plain"} /\ (~reopened => Nullifier(v) # "plain")
    BY <1>3, <2>1 DEF Nullifier
  <2>3. /\ attempts' = attempts \/ \E a \in {"none", "failed"} : attempts' = [attempts EXCEPT ![v] = a]
        /\ votes' = votes \/ votes' = [votes EXCEPT ![v] = Nullifier(v)]
    BY <1>7 DEF Cast
  <2> QED
    BY <1>2, <2>1, <2>2, <2>3, HandMoves DEF Away
<1>8. CASE Reconcile(v)
  <2>1. /\ UNCHANGED <<row, time, salter, reopened, hand>> /\ attempts[v] \in {"salted", "plain"}
        /\ attempts' = attempts \/ \E a \in {"none", "failed"} : attempts' = [attempts EXCEPT ![v] = a]
        /\ votes' = votes \/ votes' = [votes EXCEPT ![v] = attempts[v]]
    BY <1>8 DEF Reconcile, Pending
  <2>2. PICK h : h = hand[v]
    OBVIOUS
  <2>3. hand' = [hand EXCEPT ![v] = h] /\ h \in Hand
    BY <1>1, <2>1, <2>2
  <2>4. PICK a : a = attempts[v]
    OBVIOUS
  <2>5. a \in {"salted", "plain"} /\ (~reopened => a # "plain")
    BY <1>3, <2>1, <2>4
  <2>6. ~reopened => /\ h.at = "read" /\ ~h.salted => time = "over"
                     /\ h.at \in {"lock", "cast"} => h.salted
    BY <1>3, <2>2
  <2>7. attempts' = attempts
           \/ \E b \in {"none", "failed", "salted", "plain"} :
                 attempts' = [attempts EXCEPT ![v] = b] /\ (~reopened => b # "plain")
    BY <2>1
  <2>8. votes' = votes
           \/ \E b \in {"salted", "plain"} :
                 votes' = [votes EXCEPT ![v] = b] /\ (~reopened => b # "plain")
    BY <2>1, <2>4, <2>5
  <2> QED
    BY <2>1, <2>3, <2>6, <2>7, <2>8, HandMoves
<1> QED
  BY <1>4, <1>5, <1>6, <1>7, <1>8 DEF Handler

(* No request of a voter goes on: the row, the clock or the job does.      *)
LEMMA ElectionMoves ==
  ASSUME SaltInv, row' \in Row, salter' \in {"idle", "count", "destroy"},
         UNCHANGED <<attempts, votes>>,
         hand' = hand \/ hand' = [v \in Voters |-> Away],
         ~reopened' => ~reopened /\ SaltLeavesLate' /\ (time = "over" => time' = "over")
  PROVE  SaltInv'
<1>1. Away \in Hand /\ Away.at = "idle"
  BY DEF Away, Hand
<1>2. ClosingTypeOK'
  BY <1>1 DEF SaltInv, ClosingTypeOK
<1>3. ~reopened' => HandsSalted'
  BY <1>1 DEF SaltInv, HandsSalted
<1> QED
  BY <1>2, <1>3 DEF SaltInv, AttemptsSalted, VotesAreSalted

LEMMA SaltJobStep ==
  ASSUME SaltInv, SaltJob
  PROVE  SaltInv'
<1>1. row \in Row /\ (~reopened => (~row.salt => time = "over") /\ (salter # "idle" => time = "over"))
  BY DEF SaltInv, ClosingTypeOK, SaltLeavesLate
<1>2. UNCHANGED <<attempts, votes, hand, reopened, time>>
  BY DEF SaltJob, ReadSalt, CountPending, DestroySalt, voting, SaltInv, ClosingTypeOK
<1>3. CASE ReadSalt
  BY <1>1, <1>2, <1>3, ElectionMoves DEF ReadSalt, SaltMayGo, SaltLeavesLate
<1>4. CASE CountPending
  <2>1. salter = "count" /\ salter' \in {"idle", "destroy"} /\ row' = row
    BY <1>4 DEF CountPending
  <2> QED
    BY <1>1, <1>2, <2>1, ElectionMoves DEF SaltLeavesLate
<1>5. CASE DestroySalt
  <2>1. salter = "destroy" /\ salter' = "idle" /\ row' = [row EXCEPT !.salt = FALSE]
    BY <1>5 DEF DestroySalt
  <2>2. row' \in Row
    BY <1>1, <2>1 DEF Row
  <2> QED
    BY <1>1, <1>2, <2>1, <2>2, ElectionMoves DEF SaltLeavesLate
<1> QED
  BY <1>3, <1>4, <1>5 DEF SaltJob

LEMMA OthersStep ==
  ASSUME SaltInv,
         \/ \E v \in Voters : EnterCensus(v) \/ RemoveAccount(v)
         \/ ToggleActive \/ MoveEnd \/ StartTime \/ EndTime \/ Register \/ Crash
  PROVE  SaltInv'
<1>1. /\ row \in Row /\ salter \in {"idle", "count", "destroy"}
      /\ ~reopened => SaltLeavesLate
  BY DEF SaltInv, ClosingTypeOK
<1>2. CASE \E v \in Voters : EnterCensus(v) \/ RemoveAccount(v)
  <2>1. UNCHANGED <<row, salter, reopened, time, hand, attempts, votes>>
    BY <1>2 DEF EnterCensus, RemoveAccount, voting
  <2> QED
    BY <1>1, <2>1, ElectionMoves DEF SaltLeavesLate
<1>3. CASE ToggleActive \/ Register
  <2>1. UNCHANGED <<salter, reopened, time, hand, attempts, votes>>
    BY <1>3 DEF ToggleActive, Register, voting
  <2>2. row' \in Row /\ row'.salt = row.salt
    BY <1>1, <1>3 DEF ToggleActive, Register, Row
  <2> QED
    BY <1>1, <2>1, <2>2, ElectionMoves DEF SaltLeavesLate
<1>4. CASE MoveEnd
  <2>1. UNCHANGED <<row, salter, hand, attempts, votes>> /\ reopened'
    BY <1>4 DEF MoveEnd, voting
  <2> QED
    BY <1>1, <2>1, ElectionMoves
<1>5. CASE StartTime \/ EndTime
  <2>1. /\ UNCHANGED <<row, salter, reopened, hand, attempts, votes>>
        /\ time # "over" /\ time' \in {"open", "over"}
    BY <1>5 DEF StartTime, EndTime, voting
  <2> QED
    BY <1>1, <2>1, ElectionMoves DEF SaltLeavesLate
<1>6. CASE Crash
  <2>1. /\ UNCHANGED <<row, time, reopened, attempts, votes>> /\ salter' = "idle"
        /\ hand' = [v \in Voters |-> Away]
    BY <1>6 DEF Crash
  <2> QED
    BY <1>1, <2>1, ElectionMoves DEF SaltLeavesLate
<1> QED
  BY <1>2, <1>3, <1>4, <1>5, <1>6

LEMMA StepSaltInv == SaltInv /\ [Next]_vars => SaltInv'
<1> SUFFICES ASSUME SaltInv, [Next]_vars PROVE SaltInv'
  OBVIOUS
<1>1. CASE UNCHANGED vars
  BY <1>1 DEF vars, voting, bounds, SaltInv, ClosingTypeOK, SaltLeavesLate,
              HandsSalted, AttemptsSalted, VotesAreSalted
<1> QED
  BY <1>1, VoterStep, SaltJobStep, OthersStep DEF Next

(* A vote without salt is recorded only where the end of an election was   *)
(* moved after it had passed: the job of the salts begins when the         *)
(* election is over, and POST /register-vote, which read the row before,   *)
(* looks at the clock afterwards.                                          *)
THEOREM SaltOutlivesVotes == Spec => []VotesAreSalted
<1>1. SaltInv => VotesAreSalted
  BY DEF SaltInv, VotesAreSalted
<1> QED
  BY <1>1, InitSaltInv, StepSaltInv, PTL DEF Spec
===============================================================================
