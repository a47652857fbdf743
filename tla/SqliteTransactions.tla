-------------------------- MODULE SqliteTransactions --------------------------
(* The transactions of the SQLite adapter: one connection for all requests, *)
(* a queue of promises and a depth.  A transaction that is called while     *)
(* another is open joins it, be it nested or of another request; and so     *)
(* does every statement that is sent outside a transaction.                 *)
EXTENDS Naturals, Sequences, FiniteSets

CONSTANTS
    Callbacks,    \* calls of transaction(fn), at most once each
    Outer,        \* the callback that calls each of them; itself when none does
    Statements,   \* writes that are sent outside any transaction
    Writes        \* the writes of a callback, one after another

ASSUME SqliteAssumption ==
    /\ Outer \in [Callbacks -> Callbacks]
    /\ Writes \in Nat \ {0}
    /\ Statements \cap Callbacks = {}

VARIABLES
    txDepth,
    txQueue,      \* the callbacks whose BEGIN waits for the end of earlier ones
    fn,           \* where each callback is
    written,      \* how much of it is done
    owners,       \* the callbacks that ran a BEGIN
    inTransaction, uncommitted, durable   \* of the connection

connection == <<inTransaction, uncommitted, durable>>
sqliteVars == <<txDepth, txQueue, fn, written, owners, connection>>

SqliteInit ==
    /\ txDepth = 0 /\ txQueue = <<>>
    /\ fn = [c \in Callbacks |-> "new"] /\ written = [c \in Callbacks |-> 0]
    /\ owners = {}
    /\ inTransaction = FALSE /\ uncommitted = {} /\ durable = {}

Nested(c)  == {d \in Callbacks : Outer[d] = c /\ d # c}
Ended(c)   == fn[c] \in {"done", "failed"}
Goes(c, at) == fn' = [fn EXCEPT ![c] = at]

-------------------------------------------------------------------------------
(* The connection: a statement belongs to the open transaction if there is  *)
(* one, and is durable at once if not.                                      *)
Executes(w) ==
    IF inTransaction
    THEN uncommitted' = uncommitted \cup {w} /\ UNCHANGED <<inTransaction, durable>>
    ELSE durable' = durable \cup {w} /\ UNCHANGED <<inTransaction, uncommitted>>

Ends(kept) ==
    /\ inTransaction' = FALSE /\ uncommitted' = {}
    /\ durable' = durable \cup kept

Statement(s) ==
    /\ <<s, 1>> \notin uncommitted \cup durable
    /\ Executes(<<s, 1>>)
    /\ UNCHANGED <<txDepth, txQueue, fn, written, owners>>

-------------------------------------------------------------------------------
(* transaction(fn).                                                         *)

\* Mutant: a nested transaction waits for its turn too.
Joins_Never == FALSE
Joins == txDepth > 0

Call(c) ==
    /\ fn[c] = "new"
    /\ Outer[c] # c => fn[Outer[c]] = "running"
    /\ IF Joins THEN Goes(c, "running") /\ UNCHANGED txQueue
                ELSE Goes(c, "queued") /\ txQueue' = Append(txQueue, c)
    /\ UNCHANGED <<txDepth, written, owners, connection>>

(* BEGIN IMMEDIATE, which another process that writes may refuse.           *)
Begin(c) ==
    /\ txQueue # <<>> /\ c = Head(txQueue) /\ fn[c] = "queued"
    /\ \/ /\ ~inTransaction
          /\ inTransaction' = TRUE /\ UNCHANGED <<uncommitted, durable, txQueue>>
          /\ Goes(c, "begun") /\ owners' = owners \cup {c}
       \/ /\ Goes(c, "failed") /\ txQueue' = Tail(txQueue)
          /\ UNCHANGED <<owners, connection>>
    /\ UNCHANGED <<txDepth, written>>

Enter(c) ==
    /\ fn[c] = "begun"
    /\ txDepth' = txDepth + 1 /\ Goes(c, "running")
    /\ UNCHANGED <<txQueue, written, owners, connection>>

(* The callback: its writes, and what it nests before the last of them.     *)
Write(c) ==
    /\ fn[c] = "running" /\ written[c] < Writes
    /\ written[c] = Writes - 1 => \A d \in Nested(c) : fn[d] = "done"
    /\ Executes(<<c, written[c] + 1>>)
    /\ written' = [written EXCEPT ![c] = @ + 1]
    /\ UNCHANGED <<txDepth, txQueue, fn, owners>>

(* It throws: of itself, or with what it nests.                             *)
\* Mutant: what was written stays.
Throw_Keeps(c) ==
    /\ fn[c] = "running" /\ \A d \in Nested(c) : fn[d] = "new" \/ Ended(d)
    /\ IF c \in owners THEN Goes(c, "leaving") /\ Ends(uncommitted)
                       ELSE Goes(c, "failed") /\ UNCHANGED connection
    /\ UNCHANGED <<txDepth, txQueue, written, owners>>
Throw(c) ==
    /\ fn[c] = "running" /\ \A d \in Nested(c) : fn[d] = "new" \/ Ended(d)
    /\ IF c \in owners THEN Goes(c, "leaving") /\ Ends({})
                       ELSE Goes(c, "failed") /\ UNCHANGED connection
    /\ UNCHANGED <<txDepth, txQueue, written, owners>>

Return(c) ==
    /\ fn[c] = "running" /\ written[c] = Writes
    /\ IF c \in owners THEN Goes(c, "committed") /\ Ends(uncommitted)
                       ELSE Goes(c, "done") /\ UNCHANGED connection
    /\ UNCHANGED <<txDepth, txQueue, written, owners>>

(* After the COMMIT or the ROLLBACK has been answered.                      *)
LeaveTx(c) ==
    /\ fn[c] \in {"committed", "leaving"}
    /\ Goes(c, IF fn[c] = "committed" THEN "done" ELSE "failed")
    /\ txDepth' = txDepth - 1 /\ txQueue' = Tail(txQueue)
    /\ UNCHANGED <<written, owners, connection>>

(* The process ends, and the connection with it.                            *)
Stop ==
    /\ \E c \in Callbacks : fn[c] # "new" /\ ~Ended(c)
    /\ fn' = [c \in Callbacks |-> IF fn[c] = "done" THEN "done" ELSE "failed"]
    /\ txDepth' = 0 /\ txQueue' = <<>>
    /\ Ends({})
    /\ UNCHANGED <<written, owners>>

(* What goes on by itself once a transaction has been called.               *)
Turn(c) ==
    \/ Begin(c) \/ Enter(c) \/ Write(c) \/ Return(c) \/ LeaveTx(c)
    \/ Outer[c] # c /\ Call(c)
    \/ Throw(c) /\ \E d \in Nested(c) : fn[d] = "failed"

SqliteNext ==
    \/ \E s \in Statements : Statement(s)
    \/ \E c \in Callbacks : Call(c) \/ Turn(c) \/ Throw(c)
    \/ Stop

-------------------------------------------------------------------------------
(* A transaction that ran its own BEGIN leaves nothing or all that it and   *)
(* those nested in it write, and all of it once it has been answered,       *)
(* whatever joins it, fails beside it or stops the process.  Of one that    *)
(* joined the transaction of another request nothing is promised.           *)
OwnersAreAtomic ==
    \A c \in owners :
        LET all  == (Nested(c) \cup {c}) \X (1 .. Writes)
        IN  /\ durable \cap all \in {{}, all}
            /\ fn[c] = "done" => all \subseteq durable

(* Every transaction comes to an end, as long as what is asked of the       *)
(* connection is answered: the nested ones do not wait for themselves, and  *)
(* one that fails does not hold those behind it.                            *)
EveryTransactionEnds == \A c \in Callbacks : fn[c] # "new" ~> Ended(c)

===============================================================================
