-------------------------------- MODULE Relayer --------------------------------
(* The nonces of the relayer's key.  The votes of the server take theirs    *)
(* one after the other from a queue that caches the next nonce; the         *)
(* registration of elections signs with the same key outside that queue;    *)
(* and an operator may replace a stuck transaction from another process.    *)
(*                                                                          *)
(* The node is external: it accepts a transaction for a nonce that is not   *)
(* mined, at a taken nonce only if it outbids the one that is there, mines  *)
(* in the order of the nonces and may drop what it has not mined.           *)
EXTENDS Naturals, Sequences

CONSTANTS
    Votes,        \* POST /register-vote requests that reach castVote
    Elections,    \* createElection transactions of the chain sync
    Cancel,       \* the empty transaction of an operator
    Null,         \* no transaction, no cached nonce
    MaxNonce,     \* bound: nonces 0 .. MaxNonce - 1 are used
    MaxRepairs,   \* bound: runs of scripts/resolveStuckNonce.ts
    MaxFaults     \* bound: calls that fail, drops and restarts

ASSUME RelayerAssumption ==
    /\ Votes \cap Elections = {}
    /\ Cancel \notin Votes \cup Elections
    /\ Null \notin Votes \cup Elections \cup {Cancel} \cup Nat
    /\ MaxNonce \in Nat /\ MaxRepairs \in Nat /\ MaxFaults \in Nat

VARIABLES
    latest,        \* the node: nonces below are mined
    slots,         \* the node: the transaction of each nonce
    currentNonce,  \* the server: the cached nonce
    queue,         \* the server: castVote calls that wait or run
    op,            \* where each castVote is, and its nonce
    sync,          \* where each createElection is, and its nonce
    script,        \* the operator's script, its nonce and transaction
    dropped,       \* the node has dropped a transaction
    repairs, faults

node          == <<latest, slots, dropped>>
server        == <<currentNonce, queue, op>>
relayerBounds == <<repairs, faults>>
relayerVars   == <<node, server, sync, script, relayerBounds>>

Nonces == 0 .. MaxNonce

RelayerInit ==
    /\ latest = 0
    /\ slots = [n \in Nonces |-> Null]
    /\ currentNonce = Null
    /\ queue = <<>>
    /\ op = [v \in Votes |-> [at |-> "new", nonce |-> 0]]
    /\ sync = [e \in Elections |-> [at |-> "idle", nonce |-> 0]]
    /\ script = [at |-> "idle", nonce |-> 0, load |-> Cancel]
    /\ dropped = FALSE
    /\ repairs = 0 /\ faults = 0

Fault == faults < MaxFaults /\ faults' = faults + 1

-------------------------------------------------------------------------------
(* The node.                                                                *)

Live(n) == n >= latest /\ slots[n] # Null

(* getNonce("pending") is p: mined or waiting up to p, without a gap.       *)
IsPending(p) ==
    /\ p >= latest /\ slots[p] = Null
    /\ \A m \in Nonces : m >= latest /\ m < p => slots[m] # Null

(* A transaction at nonce n: refused when n is mined, or when it is taken   *)
(* and the fee does not outbid the transaction that is there.               *)
Accepts(n, load)  == n >= latest /\ slots' = [slots EXCEPT ![n] = load]
Refuses(n)        == n < latest \/ slots[n] # Null

Mine ==
    /\ Live(latest) /\ latest < MaxNonce
    /\ latest' = latest + 1
    /\ UNCHANGED <<slots, dropped, server, sync, script, relayerBounds>>

Drop(n) ==
    /\ Live(n) /\ Fault
    /\ slots' = [slots EXCEPT ![n] = Null] /\ dropped' = TRUE
    /\ UNCHANGED <<latest, server, sync, script, repairs>>

-------------------------------------------------------------------------------
(* sendRelayerTx: relayer.queue.then(execute, execute).                     *)

Enqueue(v) ==
    /\ op[v].at = "new"
    /\ op' = [op EXCEPT ![v].at = "queued"]
    /\ queue' = Append(queue, v)
    /\ UNCHANGED <<node, currentNonce, sync, script, relayerBounds>>

Turn(v) == queue # <<>> /\ Head(queue) = v

(* The larger of the cached nonce and the node's pending count.             *)
NextNonce(p) == IF currentNonce = Null \/ p > currentNonce THEN p ELSE currentNonce

TakeNonce(v) ==
    /\ op[v].at = "queued" /\ Turn(v)
    /\ \E p \in Nonces :
          /\ IsPending(p) /\ NextNonce(p) < MaxNonce
          /\ op' = [op EXCEPT ![v] = [at |-> "send", nonce |-> NextNonce(p)]]
          /\ currentNonce' = NextNonce(p) + 1
    /\ UNCHANGED <<node, queue, sync, script, relayerBounds>>

(* Whatever fails, the next call asks the node again.                       *)
\* Mutant: the cache survives an error.
AfterError_Kept == currentNonce
AfterError == Null

(* currentOp.catch(() => {}): those behind go on.                           *)
Leave(v) == queue' = Tail(queue)

\* Mutant: the operation that failed stays at the head of the queue.
Fails_HoldsQueue(v) ==
    /\ op' = [op EXCEPT ![v].at = "failed"]
    /\ currentNonce' = AfterError
    /\ UNCHANGED queue
Fails(v) ==
    /\ op' = [op EXCEPT ![v].at = "failed"]
    /\ currentNonce' = AfterError
    /\ Leave(v)

(* getNonce rejects, or there is no nonce left within the bound.            *)
TakeNonceFails(v) ==
    /\ op[v].at = "queued" /\ Turn(v)
    /\ Fault /\ Fails(v)
    /\ UNCHANGED <<node, sync, script, repairs>>

(* castVote(..., { nonce }) with its estimate of the gas.                   *)
Send(v) ==
    /\ op[v].at = "send" /\ Accepts(op[v].nonce, v)
    /\ op' = [op EXCEPT ![v].at = "sent"]
    /\ Leave(v)
    /\ UNCHANGED <<latest, dropped, currentNonce, sync, script, relayerBounds>>

SendRefused(v) ==
    /\ op[v].at = "send" /\ Refuses(op[v].nonce) /\ Fails(v)
    /\ UNCHANGED <<node, sync, script, relayerBounds>>

(* The estimate reverts, the node does not answer, or it has accepted the   *)
(* transaction and its answer is lost.                                      *)
SendFails(v) ==
    /\ op[v].at = "send" /\ Fault /\ Fails(v)
    /\ \/ UNCHANGED slots
       \/ Accepts(op[v].nonce, v)
    /\ UNCHANGED <<latest, dropped, sync, script, repairs>>

-------------------------------------------------------------------------------
(* syncElections.ts signs with a wallet of its own, which asks for the      *)
(* pending count and then sends.  An election whose hash is not in the      *)
(* database is sent again, whatever became of it.                           *)

SyncTakesNonce(e) ==
    /\ sync[e].at = "idle"
    /\ \E p \in Nonces :
          /\ IsPending(p) /\ p < MaxNonce
          /\ sync' = [sync EXCEPT ![e] = [at |-> "send", nonce |-> p]]
    /\ UNCHANGED <<node, server, script, relayerBounds>>

SyncSends(e) ==
    /\ sync[e].at = "send" /\ Accepts(sync[e].nonce, e)
    /\ sync' = [sync EXCEPT ![e].at = "sent"]
    /\ UNCHANGED <<latest, dropped, server, script, relayerBounds>>

(* The election is due again: by itself, or, once CHAIN_MAX_ATTEMPTS are    *)
(* spent, when an administrator asks for it.                                *)
TriesAgain(e) == sync' = [sync EXCEPT ![e] = [at |-> "idle", nonce |-> 0]]

SyncRefused(e) ==
    /\ sync[e].at = "send" /\ Refuses(sync[e].nonce)
    /\ TriesAgain(e)
    /\ UNCHANGED <<node, server, script, relayerBounds>>

(* The node does not answer, its answer is lost, or the UPDATE of the hash  *)
(* fails after the transaction was accepted.                                *)
SyncFails(e) ==
    /\ sync[e].at = "send" /\ Fault
    /\ \/ UNCHANGED slots
       \/ Accepts(sync[e].nonce, e)
    /\ TriesAgain(e)
    /\ UNCHANGED <<latest, dropped, server, script, repairs>>

(* TransactionDroppedError: the node does not know the hash any more.       *)
SyncDropped(e) ==
    /\ sync[e].at = "sent" /\ slots[sync[e].nonce] # e
    /\ TriesAgain(e)
    /\ UNCHANGED <<node, server, script, relayerBounds>>

Syncing(e) ==
    SyncTakesNonce(e) \/ SyncSends(e) \/ SyncRefused(e) \/ SyncFails(e) \/ SyncDropped(e)

-------------------------------------------------------------------------------
(* scripts/resolveStuckNonce.ts, by an operator, in a process of its own.   *)

(* checkRelayerNonceStatus: the nonce must be below the pending count.      *)
BelowPending(n) == \E p \in Nonces : IsPending(p) /\ n < p

ScriptCancel(n) ==
    /\ script.at = "idle" /\ repairs < MaxRepairs
    /\ BelowPending(n)
    /\ script' = [at |-> "send", nonce |-> n, load |-> Cancel]
    /\ repairs' = repairs + 1
    /\ UNCHANGED <<node, server, sync, faults>>

(* "speedup" sends again what the node holds under the hash it is given.    *)
ScriptSpeedup(n) ==
    /\ script.at = "idle" /\ repairs < MaxRepairs
    /\ BelowPending(n) /\ slots[n] # Null
    /\ script' = [at |-> "send", nonce |-> n, load |-> slots[n]]
    /\ repairs' = repairs + 1
    /\ UNCHANGED <<node, server, sync, faults>>

(* replaceStuckRelayerTx, with a fee a fifth above the current one.         *)
ScriptSends ==
    /\ script.at = "send"
    /\ \/ Accepts(script.nonce, script.load)
       \/ Refuses(script.nonce) /\ UNCHANGED slots
    /\ script' = [script EXCEPT !.at = "idle"]
    /\ UNCHANGED <<latest, dropped, server, sync, relayerBounds>>

-------------------------------------------------------------------------------
(* A restart: getRelayer builds a new instance, without queue and cache.    *)
RelayerStops ==
    /\ Fault
    /\ currentNonce' = Null /\ queue' = <<>>
    /\ op' = [v \in Votes |-> IF op[v].at \in {"queued", "send"}
                              THEN [op[v] EXCEPT !.at = "failed"] ELSE op[v]]
    /\ sync' = [e \in Elections |-> IF sync[e].at = "send"
                                    THEN [at |-> "idle", nonce |-> 0] ELSE sync[e]]
    /\ UNCHANGED <<node, script, repairs>>

Handling(v) ==
    TakeNonce(v) \/ TakeNonceFails(v) \/ Send(v) \/ SendRefused(v) \/ SendFails(v)

RelayerNext ==
    \/ \E v \in Votes : Enqueue(v) \/ Handling(v)
    \/ \E e \in Elections : Syncing(e)
    \/ \E n \in Nonces : ScriptCancel(n) \/ ScriptSpeedup(n) \/ Drop(n)
    \/ ScriptSends \/ Mine \/ RelayerStops

(* Every call of ethers ends, with an answer or with its timeout, and the   *)
(* node mines what it can.                                                  *)
RelayerFairness == WF_relayerVars(Mine) /\ \A v \in Votes : WF_relayerVars(Handling(v))

RelayerSpec == RelayerInit /\ [][RelayerNext]_relayerVars /\ RelayerFairness

-------------------------------------------------------------------------------
(* As long as the node drops nothing, the transactions of the key leave no  *)
(* gap, whoever sends and whatever fails: behind a gap nothing is mined.    *)
NoGap ==
    ~dropped => \A m, n \in Nonces : m < n /\ slots[n] # Null => slots[m] # Null

(* A vote in the queue gets its answer: an operation that fails does not    *)
(* hold up those behind it.                                                 *)
QueueMoves == \A v \in Votes : op[v].at = "queued" ~> op[v].at \in {"sent", "failed"}

(* The vote of one request is in the node, or mined, at one nonce: what     *)
(* failed after it was accepted is not sent again, and the operator does it *)
(* with the nonce it has (voteChain.ts, sendRelayerTx and                   *)
(* replaceStuckRelayerTx).  An election may have two: its hash can be lost. *)
OneNonceEach ==
    \A v \in Votes, m, n \in Nonces : slots[m] = v /\ slots[n] = v => m = n

===============================================================================
