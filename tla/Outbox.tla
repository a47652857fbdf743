-------------------------------- MODULE Outbox --------------------------------
(***************************************************************************)
(* What a queue of outgoing mail promises, whatever works it off: a        *)
(* message is queued once and closed once; copies of it leave only while   *)
(* it is queued and not closed; of a message that must not arrive twice    *)
(* there is one copy at most; and one that is closed as sent has left.     *)
(*                                                                         *)
(* EmailQueue implements it.                                               *)
(***************************************************************************)
EXTENDS Naturals

CONSTANTS Message,
          Once          \* the messages that must not arrive twice

VARIABLES outbox,       \* what became of each message
          copies        \* how many copies of it were delivered

vars == <<outbox, copies>>

Closings == {"sent", "dead", "skipped"}

Init == /\ outbox = [m \in Message |-> "new"]
        /\ copies = [m \in Message |-> 0]

Queue(m) == /\ outbox[m] = "new"
            /\ outbox' = [outbox EXCEPT ![m] = "waiting"]
            /\ UNCHANGED copies

Deliver(m) == /\ outbox[m] = "waiting"
              /\ m \in Once => copies[m] = 0
              /\ copies' = [copies EXCEPT ![m] = @ + 1]
              /\ UNCHANGED outbox

Close(m, how) == /\ outbox[m] = "waiting"
                 /\ how = "sent" => copies[m] > 0
                 /\ outbox' = [outbox EXCEPT ![m] = how]
                 /\ UNCHANGED copies

Next == \E m \in Message : \/ Queue(m) \/ Deliver(m)
                           \/ \E how \in Closings : Close(m, how)

Spec == Init /\ [][Next]_vars

===============================================================================
