--------------------------- MODULE EmailQueueProofs ---------------------------
(***************************************************************************)
(* Proofs about EmailQueue, for all processes, messages and bounds:        *)
(*   - the type invariant, and that no plain message reaches a mailbox     *)
(*     twice, whatever Faults happen;                                      *)
(*   - if no live worker outlives STUCK_MS, final states are final and     *)
(*     the queue implements Outbox;                                        *)
(*   - two links of a line work at once only where the transactions that   *)
(*     issued them overlap, and never with one backend process.            *)
(***************************************************************************)
EXTENDS EmailQueue, SequenceTheorems, FiniteSetTheorems, TLAPS

FreeStage == {"idle", "select", "claim"}

(* Links are issued for messages that have one, and only those get a token. *)
LinkInHand ==
  \A w \in Worker :
    /\ worker[w].at \in {"prepare", "issue"} => worker[w].msg \subseteq Links
    /\ worker[w].token # NoToken => worker[w].msg \subseteq Links

(* Every attempt of a plain message repeats its key and contents.          *)
PlainKey ==
  \A d \in delivered : d.msg \in Plain => d.key = 0 /\ d.token = NoToken

Inv == TypeOK /\ LinkInHand /\ PlainKey

LEMMA IdleCycle ==
  /\ Idle \in Cycle /\ Idle.at = "idle" /\ Idle.msg = {} /\ Idle.token = NoToken
BY DEF Idle, Cycle, Stage, NoToken

LEMMA InitInv == Init => Inv
<1> SUFFICES ASSUME Init PROVE Inv
  OBVIOUS
<1>1. email \in [Message -> Row]
  BY DEF Init, Row
<1>2. worker \in [Worker -> Cycle] /\ \A w \in Worker : worker[w] = Idle
  BY IdleCycle DEF Init
<1>3. TypeOK
  BY <1>1, <1>2, IdleCycle, EmailQueueAssumption DEF Init, TypeOK
<1> QED
  BY <1>2, <1>3, IdleCycle DEF Init, Inv, LinkInHand, PlainKey

(***************************************************************************)
(* What the steps do to the worker, and what they write in a row.          *)
(***************************************************************************)
Others(w) == \A v \in Worker \ {w} : worker'[v] = worker[v]

KeepsHold(w) == worker'[w].msg = worker[w].msg

LetsGo(w) == worker'[w].msg = {} /\ worker'[w].token = NoToken

LEMMA WorkerMoves ==
  ASSUME TypeOK, NEW w \in Worker, NEW new \in Cycle, worker' = [worker EXCEPT ![w] = new]
  PROVE  worker' \in [Worker -> Cycle] /\ worker'[w] = new /\ Others(w)
BY DEF TypeOK, Others

LEMMA InHand ==
  ASSUME TypeOK, NEW w \in Worker, worker[w].at \notin FreeStage
  PROVE  \E m \in Message : worker[w].msg = {m}
BY DEF TypeOK, FreeStage, Has

LEMMA EndCycleWorker ==
  ASSUME TypeOK, NEW w \in Worker, EndCycle(w)
  PROVE  /\ worker' \in [Worker -> Cycle] /\ Others(w) /\ LetsGo(w)
         /\ worker'[w].at = "idle"
BY IdleCycle, WorkerMoves DEF EndCycle, LetsGo

LEMMA ReclaimedRow ==
  ASSUME NEW r \in Row
  PROVE  /\ Reclaimed(r) \in Row
         /\ ~(r.status = "sending" /\ r.stuck) => Reclaimed(r) = r
         /\ r.status = "sending" /\ r.stuck => Reclaimed(r).status = "queued"
BY DEF Row, Reclaimed, Final

LEMMA ClaimedRow ==
  ASSUME NEW r \in Row
  PROVE  Claimed(r) \in Row /\ Claimed(r).status = "sending" /\ ~Claimed(r).stuck
<1>1. r.attempts \in Nat /\ r.attempts + 1 \in Nat
  BY DEF Row
<1>2. \A n \in Nat : LET new == [r EXCEPT !.status = "sending", !.attempts = n, !.stuck = FALSE]
                    IN  new \in Row /\ new.status = "sending" /\ new.stuck = FALSE
  BY DEF Row
<1> QED
  BY <1>1, <1>2 DEF Claimed

LEMMA ClosedRow ==
  ASSUME TypeOK, NEW m \in Message, NEW s \in Final
  PROVE  Closed(m, s) \in Row /\ Closed(m, s).status = s
<1>1. email[m] \in Row /\ (m \in Links) \in BOOLEAN
  BY DEF TypeOK
<1> QED
  BY <1>1 DEF Row, Closed

LEMMA PostponedRow ==
  ASSUME TypeOK, NEW m \in Message
  PROVE  Postponed(m) \in Row /\ Postponed(m).status = "queued"
<1>1. email[m] \in Row
  BY DEF TypeOK
<1> QED
  BY <1>1 DEF Row, Postponed

(* Everything is typed if the worker that moved is, and has one row in     *)
(* hand or none.                                                           *)
LEMMA TypeKept ==
  ASSUME TypeOK, NEW w \in Worker, worker' \in [Worker -> Cycle], Others(w),
         \/ worker'[w].at \in FreeStage /\ worker'[w].msg = {}
         \/ worker'[w].at \notin FreeStage /\ \E m \in Message : worker'[w].msg = {m},
         email' \in [Message -> Row], tokens' \in Seq(Token), void' = void,
         delivered' \subseteq Delivery, faults' \in Nat
  PROVE  TypeOK'
<1>1. \A v \in Worker : IF worker'[v].at \in FreeStage
                        THEN worker'[v].msg = {}
                        ELSE \E m \in Message : worker'[v].msg = {m}
  BY DEF TypeOK, Others, FreeStage, Has
<1> QED
  BY <1>1 DEF TypeOK, FreeStage, Has

(***************************************************************************)
(* What each step of a cycle changes.                                      *)
(***************************************************************************)
LEMMA ReclaimEffect ==
  ASSUME Inv, NEW w \in Worker, ReclaimStuck(w)
  PROVE  /\ TypeOK' /\ Others(w) /\ KeepsHold(w) /\ worker'[w].at = "select"
         /\ worker'[w].token = worker[w].token /\ UNCHANGED <<tokens, void, delivered>>
         /\ \A m \in Message : email'[m] = email[m] \/ email'[m] = Reclaimed(email[m])
<1> USE DEF Inv
<1> DEFINE new == [worker[w] EXCEPT !.at = "select"]
<1>1. new \in Cycle /\ new.at = "select" /\ new.msg = worker[w].msg /\ new.token = worker[w].token
  BY DEF TypeOK, Cycle, Stage
<1>2. worker' = [worker EXCEPT ![w] = new] /\ worker[w].at = "idle"
  BY DEF ReclaimStuck
<1> HIDE DEF new
<1>3. /\ worker' \in [Worker -> Cycle] /\ worker'[w] = new /\ Others(w)
  BY <1>1, <1>2, WorkerMoves
<1>4. worker[w].msg = {}
  BY <1>2 DEF TypeOK
<1>5. /\ email' \in [Message -> Row] /\ faults' \in Nat
      /\ \A m \in Message : email'[m] = email[m] \/ email'[m] = Reclaimed(email[m])
  BY ReclaimedRow DEF ReclaimStuck, TypeOK, Fault
<1>6. UNCHANGED <<tokens, void, delivered>>
  BY DEF ReclaimStuck
<1>7. TypeOK'
  BY <1>1, <1>3, <1>4, <1>5, <1>6, TypeKept DEF TypeOK, FreeStage
<1> QED
  BY <1>1, <1>3, <1>5, <1>6, <1>7 DEF KeepsHold

LEMMA SelectEffect ==
  ASSUME Inv, NEW w \in Worker, SelectDue(w)
  PROVE  /\ TypeOK' /\ Others(w) /\ worker'[w].msg = {} /\ worker'[w].at \in {"claim", "idle"}
         /\ worker'[w].token \in {NoToken, worker[w].token}
         /\ UNCHANGED <<email, tokens, void, delivered>>
<1> USE DEF Inv
<1>1. UNCHANGED <<email, tokens, void, delivered>> /\ faults' \in Nat /\ worker[w].at = "select"
  BY DEF SelectDue, TypeOK, Fault
<1>2. CASE EndCycle(w)
  BY <1>1, <1>2, EndCycleWorker, TypeKept DEF LetsGo, FreeStage, TypeOK
<1>3. ASSUME NEW due \in SUBSET Message,
             worker' = [worker EXCEPT ![w].at = "claim", ![w].todo = due]
      PROVE  /\ TypeOK' /\ Others(w) /\ worker'[w].msg = {} /\ worker'[w].at = "claim"
             /\ worker'[w].token = worker[w].token
  <2> DEFINE new == [worker[w] EXCEPT !.at = "claim", !.todo = due]
  <2>1. new \in Cycle /\ new.at = "claim" /\ new.msg = {} /\ new.token = worker[w].token
    BY <1>1 DEF TypeOK, Cycle, Stage
  <2>2. worker' = [worker EXCEPT ![w] = new]
    BY <1>3
  <2> HIDE DEF new
  <2>3. worker' \in [Worker -> Cycle] /\ worker'[w] = new /\ Others(w)
    BY <2>1, <2>2, WorkerMoves
  <2>4. TypeOK'
    BY <1>1, <2>1, <2>3, TypeKept DEF TypeOK, FreeStage
  <2> QED
    BY <2>1, <2>3, <2>4
<1> QED
  BY <1>1, <1>2, <1>3, EndCycleWorker DEF SelectDue, LetsGo

(* A step that only moves a worker that has a row in hand.                 *)
LEMMA HolderMoves ==
  ASSUME TypeOK, NEW w \in Worker, NEW new \in Cycle, worker[w].at \notin FreeStage,
         worker' = [worker EXCEPT ![w] = new], new.msg = worker[w].msg,
         new.at \notin FreeStage, UNCHANGED <<email, void>>, tokens' \in Seq(Token),
         delivered' \subseteq Delivery, faults' \in Nat
  PROVE  TypeOK' /\ Others(w) /\ worker'[w] = new /\ KeepsHold(w)
<1>1. worker' \in [Worker -> Cycle] /\ worker'[w] = new /\ Others(w)
  BY WorkerMoves
<1>2. \E m \in Message : worker'[w].msg = {m}
  BY <1>1, InHand
<1>3. TypeOK'
  BY <1>1, <1>2, TypeKept DEF TypeOK
<1> QED
  BY <1>1, <1>3 DEF KeepsHold

LEMMA ClaimEffect ==
  ASSUME Inv, NEW w \in Worker, ClaimNext(w)
  PROVE  /\ TypeOK' /\ Others(w) /\ UNCHANGED <<tokens, void, delivered>>
         /\ worker[w].msg = {}
         /\ \/ /\ worker'[w].msg = {} /\ worker'[w].at \in FreeStage /\ email' = email
            \/ /\ worker'[w].at = "read" /\ worker'[w].token = NoToken
               /\ \E m \in Message :
                    /\ email[m].status = "queued"
                    /\ email' = [email EXCEPT ![m] = Claimed(email[m])]
                    /\ worker'[w].msg = {m}
<1> USE DEF Inv
<1>1. /\ worker[w].at = "claim" /\ worker[w].msg = {} /\ UNCHANGED <<tokens, void, delivered>>
      /\ worker[w] \in Cycle
  BY DEF ClaimNext, TypeOK
<1>2. ASSUME NEW m \in Message, email[m].status = "queued", UNCHANGED faults,
             email' = [email EXCEPT ![m] = Claimed(email[m])],
             worker' = [worker EXCEPT ![w] = [Idle EXCEPT !.at = "read", !.msg = {m}]]
      PROVE  /\ TypeOK' /\ Others(w) /\ worker'[w].at = "read" /\ worker'[w].msg = {m}
             /\ worker'[w].token = NoToken
  <2> DEFINE new == [Idle EXCEPT !.at = "read", !.msg = {m}]
  <2>1. new \in Cycle /\ new.at = "read" /\ new.msg = {m} /\ new.token = NoToken
    BY <1>2 DEF Idle, Cycle, Stage, NoToken
  <2>2. worker' = [worker EXCEPT ![w] = new]
    BY <1>2
  <2> HIDE DEF new
  <2>3. worker' \in [Worker -> Cycle] /\ worker'[w] = new /\ Others(w)
    BY <2>1, <2>2, WorkerMoves
  <2>4. email' \in [Message -> Row]
    BY <1>2, ClaimedRow DEF TypeOK
  <2>5. TypeOK'
    BY <1>1, <1>2, <2>1, <2>3, <2>4, TypeKept DEF TypeOK, FreeStage
  <2> QED
    BY <2>1, <2>3, <2>5
<1>3. ASSUME NEW m \in Message, PassOver(w, m), UNCHANGED email, faults' \in Nat
      PROVE  /\ TypeOK' /\ Others(w) /\ worker'[w].msg = {} /\ worker'[w].at \in FreeStage
  <2> DEFINE new == IF worker[w].todo = {m} THEN Idle
                    ELSE [worker[w] EXCEPT !.todo = worker[w].todo \ {m}]
  <2>1. new \in Cycle /\ new.at \in FreeStage /\ new.msg = {}
    <3>1. CASE worker[w].todo = {m}
      BY <3>1, IdleCycle DEF FreeStage
    <3>2. CASE worker[w].todo # {m}
      BY <1>1, <3>2 DEF Cycle, FreeStage
    <3> QED
      BY <3>1, <3>2
  <2>2. worker' = [worker EXCEPT ![w] = new]
    BY <1>3 DEF PassOver, EndCycle
  <2> HIDE DEF new
  <2>3. worker' \in [Worker -> Cycle] /\ worker'[w] = new /\ Others(w)
    BY <2>1, <2>2, WorkerMoves
  <2>4. TypeOK'
    BY <1>1, <1>3, <2>1, <2>3, TypeKept DEF TypeOK
  <2> QED
    BY <2>1, <2>3, <2>4
<1>4. worker[w].todo \subseteq Message
  BY <1>1 DEF Cycle
<1>5. faults \in Nat /\ (Fault("db") => faults' \in Nat)
  BY DEF TypeOK, Fault
<1>6. PICK m \in worker[w].todo :
        \/ /\ email[m].status = "queued"
           /\ email' = [email EXCEPT ![m] = Claimed(email[m])]
           /\ worker' = [worker EXCEPT ![w] = [Idle EXCEPT !.at = "read", !.msg = {m}]]
           /\ UNCHANGED faults
        \/ PassOver(w, m) /\ UNCHANGED email /\ faults' \in Nat
  BY <1>5 DEF ClaimNext
<1> QED
  BY <1>1, <1>2, <1>3, <1>4, <1>6

LEMMA ReadRowEffect ==
  ASSUME Inv, NEW w \in Worker, ReadRow(w)
  PROVE  /\ TypeOK' /\ Others(w) /\ UNCHANGED <<email, tokens, void, delivered>>
         /\ \/ LetsGo(w) /\ worker'[w].at = "idle"
            \/ /\ KeepsHold(w) /\ worker'[w].token = worker[w].token
               /\ worker'[w].at \in {"send", "skip", "prepare"}
               /\ worker'[w].at = "prepare" => worker[w].msg \subseteq Links
<1> USE DEF Inv
<1>1. /\ worker[w].at = "read" /\ UNCHANGED <<email, tokens, void, delivered>>
      /\ worker[w] \in Cycle /\ faults' \in Nat
  BY DEF ReadRow, TypeOK, Fault
<1>2. PICK m \in Message : worker[w].msg = {m}
  BY <1>1, InHand DEF FreeStage
<1>3. ASSUME NEW n \in Nat, NEW stage \in {"send", "skip", "prepare"},
             stage = "prepare" => m \in Links,
             worker' = [worker EXCEPT ![w] = [worker[w] EXCEPT !.attempts = n, !.at = stage]]
      PROVE  /\ TypeOK' /\ Others(w) /\ KeepsHold(w) /\ worker'[w].token = worker[w].token
             /\ worker'[w].at \in {"send", "skip", "prepare"}
             /\ worker'[w].at = "prepare" => worker[w].msg \subseteq Links
  <2> DEFINE new == [worker[w] EXCEPT !.attempts = n, !.at = stage]
  <2>1. /\ new \in Cycle /\ new.at = stage /\ new.msg = worker[w].msg
        /\ new.token = worker[w].token
    BY <1>1 DEF Cycle, Stage
  <2>2. worker' = [worker EXCEPT ![w] = new]
    BY <1>3
  <2> HIDE DEF new
  <2> QED
    BY ZenonT(40), <1>1, <1>2, <1>3, <2>1, <2>2, HolderMoves DEF TypeOK, FreeStage
<1>4. CASE EndCycle(w)
  BY <1>1, <1>4, EndCycleWorker, TypeKept DEF LetsGo, FreeStage, TypeOK
<1>5. CASE worker' = [worker EXCEPT ![w].attempts = email[m].attempts,
                                    ![w].at = IF m \in Plain THEN "send" ELSE "prepare"]
  <2> DEFINE stage == IF m \in Plain THEN "send" ELSE "prepare"
  <2>1. stage \in {"send", "skip", "prepare"} /\ (stage = "prepare" => m \in Links)
    BY DEF Message
  <2>2. email[m].attempts \in Nat
    BY DEF TypeOK, Row
  <2>3. worker' = [worker EXCEPT ![w] = [worker[w] EXCEPT !.attempts = email[m].attempts,
                                                          !.at = stage]]
    BY <1>5
  <2> HIDE DEF stage
  <2> QED
    BY <1>1, <1>3, <2>1, <2>2, <2>3
<1>6. CASE worker' = [worker EXCEPT ![w].at = "skip"]
  <2>1. /\ worker[w].attempts \in Nat
        /\ worker' = [worker EXCEPT ![w] = [worker[w] EXCEPT !.attempts = worker[w].attempts,
                                                             !.at = "skip"]]
    BY <1>1, <1>6 DEF Cycle
  <2> QED
    BY <1>1, <1>3, <2>1
<1> QED
  BY <1>1, <1>2, <1>4, <1>5, <1>6 DEF ReadRow

LEMMA PrepareEffect ==
  ASSUME Inv, NEW w \in Worker, PrepareLink(w)
  PROVE  /\ TypeOK' /\ Others(w) /\ KeepsHold(w) /\ UNCHANGED <<email, tokens, void, delivered>>
         /\ worker[w].at = "prepare" /\ worker'[w].token = worker[w].token
         /\ worker'[w].at \in {"discard", "issue", "failed"}
         /\ worker'[w].at = "issue" =>
              /\ \A m \in worker[w].msg : worker'[w].old = Unused(LineOf[m])
              /\ worker'[w].seen = Len(tokens)
<1> USE DEF Inv
<1>1. /\ worker[w].at = "prepare" /\ UNCHANGED <<email, tokens, void, delivered>>
      /\ worker[w] \in Cycle /\ faults' \in Nat
  BY DEF PrepareLink, TypeOK, Fault
<1>2. PICK m \in Message : worker[w].msg = {m}
  BY <1>1, InHand DEF FreeStage
<1>3. Unused(LineOf[m]) \in SUBSET Nat
  BY LenProperties DEF Unused, TypeOK
<1>4. ASSUME NEW stage \in {"discard", "issue", "failed"}, NEW old \in SUBSET Nat,
             NEW seen \in Nat,
             worker' = [worker EXCEPT ![w] = [worker[w] EXCEPT !.at = stage, !.old = old,
                                                               !.seen = seen]]
      PROVE  /\ TypeOK' /\ Others(w) /\ KeepsHold(w) /\ worker'[w].token = worker[w].token
             /\ worker'[w].at = stage /\ worker'[w].old = old /\ worker'[w].seen = seen
  <2> DEFINE new == [worker[w] EXCEPT !.at = stage, !.old = old, !.seen = seen]
  <2>1. /\ new \in Cycle /\ new.at = stage /\ new.msg = worker[w].msg /\ new.old = old
        /\ new.token = worker[w].token /\ new.seen = seen
    BY <1>1 DEF Cycle, Stage
  <2>2. worker' = [worker EXCEPT ![w] = new]
    BY <1>4
  <2> HIDE DEF new
  <2> QED
    BY <1>1, <2>1, <2>2, HolderMoves DEF TypeOK, FreeStage
<1>5. ASSUME NEW stage \in {"discard", "failed"}, worker' = [worker EXCEPT ![w].at = stage]
      PROVE  worker' = [worker EXCEPT ![w] = [worker[w] EXCEPT !.at = stage,
                                                               !.old = worker[w].old,
                                                               !.seen = worker[w].seen]]
  BY <1>1, <1>5 DEF Cycle
<1>6. \/ worker' = [worker EXCEPT ![w].at = "discard"]
      \/ worker' = [worker EXCEPT ![w].at = "failed"]
      \/ worker' = [worker EXCEPT ![w] = [worker[w] EXCEPT !.at = "issue",
                                                           !.old = Unused(LineOf[m]),
                                                           !.seen = Len(tokens)]]
  BY <1>2 DEF PrepareLink
<1>7. worker[w].old \in SUBSET Nat /\ worker[w].seen \in Nat /\ Len(tokens) \in Nat
  BY <1>1, LenProperties DEF Cycle, TypeOK
<1>8. CASE worker' = [worker EXCEPT ![w] = [worker[w] EXCEPT !.at = "issue",
                                                              !.old = Unused(LineOf[m]),
                                                              !.seen = Len(tokens)]]
  <2>1. /\ TypeOK' /\ Others(w) /\ KeepsHold(w) /\ worker'[w].token = worker[w].token
        /\ worker'[w].at = "issue" /\ worker'[w].old = Unused(LineOf[m])
        /\ worker'[w].seen = Len(tokens)
    BY <1>3, <1>4, <1>7, <1>8
  <2> QED
    BY <1>1, <1>2, <2>1
<1>9. ASSUME NEW stage \in {"discard", "failed"}, worker' = [worker EXCEPT ![w].at = stage]
      PROVE  /\ TypeOK' /\ Others(w) /\ KeepsHold(w) /\ worker'[w].token = worker[w].token
             /\ worker'[w].at = stage
  <2>1. worker' = [worker EXCEPT ![w] = [worker[w] EXCEPT !.at = stage,
                                                          !.old = worker[w].old,
                                                          !.seen = worker[w].seen]]
    BY <1>5, <1>9
  <2> QED
    BY <1>4, <1>7, <2>1
<1> QED
  BY <1>1, <1>6, <1>8, <1>9

(* Issuing a token appends it and marks the ones it saw as used.           *)
LEMMA TokensIssued ==
  ASSUME TypeOK, NEW old \in SUBSET Nat, NEW line \in Line, NEW seen \in Nat,
         tokens' = Append(Used(old), [line |-> line, unused |-> TRUE, seen |-> seen])
  PROVE  /\ tokens' \in Seq(Token) /\ Len(tokens') = Len(tokens) + 1
         /\ Len(tokens) \in Nat /\ Len(tokens') \in Nat /\ Len(tokens') # NoToken
         /\ DOMAIN tokens' = DOMAIN tokens \cup {Len(tokens')}
         /\ \A t \in DOMAIN tokens : /\ t \in Nat /\ t < Len(tokens')
                                     /\ tokens'[t].line = tokens[t].line
                                     /\ tokens'[t].seen = tokens[t].seen
                                     /\ tokens'[t].unused => tokens[t].unused /\ t \notin old
         /\ tokens'[Len(tokens')].line = line /\ tokens'[Len(tokens')].seen = seen
<1> DEFINE new == [line |-> line, unused |-> TRUE, seen |-> seen]
           used == Used(old)
<1>1. new \in Token /\ new.line = line /\ new.seen = seen
  BY DEF Token
<1>2. tokens \in Seq(Token) /\ Len(tokens) \in Nat /\ DOMAIN tokens = 1 .. Len(tokens)
  BY LenProperties DEF TypeOK
<1>3. \A t \in DOMAIN tokens :
        /\ used[t] \in Token /\ used[t].line = tokens[t].line /\ used[t].seen = tokens[t].seen
        /\ used[t].unused => tokens[t].unused /\ t \notin old
  <2> SUFFICES ASSUME NEW t \in DOMAIN tokens
               PROVE  /\ used[t] \in Token /\ used[t].line = tokens[t].line
                      /\ used[t].seen = tokens[t].seen
                      /\ used[t].unused => tokens[t].unused /\ t \notin old
    OBVIOUS
  <2> DEFINE left == tokens[t].unused /\ t \notin old
  <2>1. tokens[t] \in Token /\ left \in BOOLEAN
    BY <1>2, ElementOfSeq DEF Token
  <2>2. used[t] = [tokens[t] EXCEPT !.unused = left]
    BY DEF Used
  <2> HIDE DEF left, used
  <2>3. /\ used[t] \in Token /\ used[t].line = tokens[t].line
        /\ used[t].seen = tokens[t].seen /\ used[t].unused = left
    BY <2>1, <2>2 DEF Token
  <2> QED
    BY <2>3 DEF left
<1>4. used \in [1 .. Len(tokens) -> Token]
  BY <1>2, <1>3 DEF Used
<1>5. used \in Seq(Token) /\ Len(used) = Len(tokens)
  BY <1>2, <1>4, SeqDef, LenProperties
<1>6. tokens' = Append(used, new)
  OBVIOUS
<1> HIDE DEF new, used
<1>7. /\ tokens' \in Seq(Token) /\ Len(tokens') = Len(tokens) + 1
      /\ DOMAIN tokens' = 1 .. Len(tokens) + 1
      /\ \A t \in 1 .. Len(tokens) : tokens'[t] = used[t]
      /\ tokens'[Len(tokens) + 1] = new
  <2>1. /\ Append(used, new) \in Seq(Token) /\ Append(used, new) # << >>
        /\ Len(Append(used, new)) = Len(used) + 1
        /\ \A t \in 1 .. Len(used) : Append(used, new)[t] = used[t]
        /\ Append(used, new)[Len(used) + 1] = new
    BY <1>1, <1>5, AppendProperties
  <2> QED
    BY <1>2, <1>5, <1>6, <2>1, LenProperties
<1> QED
  BY <1>1, <1>2, <1>3, <1>7 DEF NoToken

LEMMA IssueEffect ==
  ASSUME Inv, NEW w \in Worker, IssueToken(w)
  PROVE  /\ TypeOK' /\ Others(w) /\ KeepsHold(w) /\ UNCHANGED <<email, void, delivered>>
         /\ worker[w].at = "issue" /\ worker[w].msg \subseteq Links
         /\ worker'[w].at \in {"send", "failed"}
         /\ \/ UNCHANGED tokens /\ worker'[w].token = worker[w].token
            \/ \E m \in worker[w].msg :
                 tokens' = Append(Used(worker[w].old),
                                  [line |-> LineOf[m], unused |-> TRUE, seen |-> worker[w].seen])
<1> USE DEF Inv
<1>1. /\ worker[w].at = "issue" /\ UNCHANGED <<email, void, delivered>>
      /\ worker[w] \in Cycle /\ worker[w].old \in SUBSET Nat /\ worker[w].token \in Nat
      /\ worker[w].seen \in Nat
      /\ worker[w].msg \subseteq Links /\ {} \in SUBSET Nat
  BY DEF IssueToken, TypeOK, Cycle, LinkInHand
<1>2. PICK m \in Message : worker[w].msg = {m}
  BY <1>1, InHand DEF FreeStage
<1>3. ASSUME NEW stage \in {"send", "failed"}, NEW n \in Nat, tokens' \in Seq(Token),
             faults' \in Nat,
             worker' = [worker EXCEPT ![w] = [worker[w] EXCEPT !.at = stage, !.old = {},
                                                               !.seen = 0, !.token = n]]
      PROVE  /\ TypeOK' /\ Others(w) /\ KeepsHold(w) /\ worker'[w].token = n
             /\ worker'[w].at = stage
  <2> DEFINE new == [worker[w] EXCEPT !.at = stage, !.old = {}, !.seen = 0, !.token = n]
  <2>1. new \in Cycle /\ new.at = stage /\ new.msg = worker[w].msg /\ new.token = n
    BY <1>1 DEF Cycle, Stage
  <2>2. worker' = [worker EXCEPT ![w] = new]
    BY <1>3
  <2> HIDE DEF new
  <2> QED
    BY <1>1, <1>3, <2>1, <2>2, HolderMoves DEF TypeOK, FreeStage
<1>4. CASE /\ tokens' = Append(Used(worker[w].old),
                               [line |-> LineOf[m], unused |-> TRUE, seen |-> worker[w].seen])
           /\ worker' = [worker EXCEPT ![w].at = "send", ![w].old = {}, ![w].seen = 0,
                                       ![w].token = Len(tokens')]
           /\ UNCHANGED faults
  <2>1. LineOf[m] \in Line
    BY <1>1, <1>2, EmailQueueAssumption
  <2>2. tokens' \in Seq(Token) /\ Len(tokens') \in Nat /\ faults' \in Nat
    BY <1>1, <1>4, <2>1, TokensIssued DEF TypeOK
  <2>3. worker' = [worker EXCEPT ![w] = [worker[w] EXCEPT !.at = "send", !.old = {},
                                                          !.seen = 0, !.token = Len(tokens')]]
    BY <1>4
  <2> QED
    BY <1>1, <1>2, <1>3, <1>4, <2>2, <2>3
<1>5. CASE /\ Fault("db") /\ UNCHANGED tokens
           /\ worker' = [worker EXCEPT ![w].at = "failed", ![w].old = {}, ![w].seen = 0]
  <2>1. worker' = [worker EXCEPT ![w] = [worker[w] EXCEPT !.at = "failed", !.old = {},
                                                          !.seen = 0,
                                                          !.token = worker[w].token]]
    BY <1>1, <1>5 DEF Cycle
  <2>2. tokens' \in Seq(Token) /\ faults' \in Nat
    BY <1>5 DEF TypeOK, Fault
  <2> QED
    BY <1>1, <1>3, <1>5, <2>1, <2>2
<1> QED
  BY <1>1, <1>2, <1>4, <1>5 DEF IssueToken

LEMMA SendEffect ==
  ASSUME Inv, NEW w \in Worker, SendRaw(w)
  PROVE  /\ TypeOK' /\ Others(w) /\ KeepsHold(w) /\ UNCHANGED <<email, tokens, void>>
         /\ worker[w].at = "send" /\ worker'[w].token = worker[w].token
         /\ \E m \in worker[w].msg :
              LET new == [msg |-> m, key |-> Key(m, worker[w].attempts),
                          token |-> worker[w].token]
              IN  \/ worker'[w].at = "failed" /\ delivered' \in {delivered, delivered \cup {new}}
                  \/ worker'[w].at = "sent" /\ delivered' = delivered \cup {new}
<1> USE DEF Inv
<1>1. /\ worker[w].at = "send" /\ UNCHANGED <<email, tokens, void>>
      /\ worker[w] \in Cycle /\ faults' \in Nat
  BY DEF SendRaw, TypeOK, Fault
<1>2. PICK m \in Message : worker[w].msg = {m}
  BY <1>1, InHand DEF FreeStage
<1> DEFINE new == [msg |-> m, key |-> Key(m, worker[w].attempts), token |-> worker[w].token]
<1>3. new \in Delivery
  BY <1>1 DEF Delivery, Key, Cycle
<1>4. \/ worker' = [worker EXCEPT ![w].at = "failed"] /\ delivered' = delivered
      \/ worker' = [worker EXCEPT ![w].at = "failed"] /\ delivered' = delivered \cup {new}
      \/ worker' = [worker EXCEPT ![w].at = "sent"] /\ delivered' = delivered \cup {new}
  BY <1>2 DEF SendRaw, Accept
<1>5. delivered' \subseteq Delivery
  BY <1>3, <1>4 DEF TypeOK
<1>6. ASSUME NEW stage \in {"sent", "failed"}, worker' = [worker EXCEPT ![w].at = stage]
      PROVE  /\ TypeOK' /\ Others(w) /\ KeepsHold(w) /\ worker'[w].token = worker[w].token
             /\ worker'[w].at = stage
  <2> DEFINE moved == [worker[w] EXCEPT !.at = stage]
  <2>1. /\ moved \in Cycle /\ moved.at = stage /\ moved.msg = worker[w].msg
        /\ moved.token = worker[w].token
    BY <1>1 DEF Cycle, Stage
  <2>2. worker' = [worker EXCEPT ![w] = moved]
    BY <1>6
  <2> HIDE DEF moved
  <2> QED
    BY <1>1, <1>5, <2>1, <2>2, HolderMoves DEF TypeOK, FreeStage
<1> HIDE DEF new
<1>7. \/ worker'[w].at = "failed" /\ delivered' \in {delivered, delivered \cup {new}}
      \/ worker'[w].at = "sent" /\ delivered' = delivered \cup {new}
  BY <1>4, <1>6
<1>8. TypeOK' /\ Others(w) /\ KeepsHold(w) /\ worker'[w].token = worker[w].token
  BY <1>4, <1>6
<1> QED
  BY <1>1, <1>2, <1>7, <1>8 DEF new

Ends(w) == MarkSent(w) \/ MarkSkipped(w) \/ Discard(w) \/ Failed(w)

LEMMA EndEffect ==
  ASSUME Inv, NEW w \in Worker, Ends(w)
  PROVE  /\ TypeOK' /\ Others(w) /\ LetsGo(w) /\ UNCHANGED <<tokens, void, delivered>>
         /\ worker'[w].at = "select"
         /\ \E m \in Message :
              /\ worker[w].msg = {m}
              /\ \/ email' = email
                 \/ \E row \in Row :
                      /\ email' = [email EXCEPT ![m] = row]
                      /\ row.status \in Final \cup {"queued"}
                      /\ row.status = "sent" => worker[w].at = "sent"
<1> USE DEF Inv
<1>1. worker[w].at \in {"sent", "skip", "discard", "failed"}
  BY DEF Ends, MarkSent, MarkSkipped, Discard, Failed
<1>2. PICK m \in Message : worker[w].msg = {m}
  BY <1>1, InHand DEF FreeStage
<1>3. PICK row \in Row : /\ WriteRow(w, m, row)
                         /\ row.status \in Final \cup {"queued"}
                         /\ row.status = "sent" => worker[w].at = "sent"
  <2>1. CASE MarkSent(w)
    BY <1>2, <2>1, ClosedRow DEF MarkSent, Final
  <2>2. CASE MarkSkipped(w)
    BY <1>2, <2>2, ClosedRow DEF MarkSkipped, Final
  <2>3. CASE Discard(w)
    BY <1>2, <2>3, ClosedRow DEF Discard, Final
  <2>4. CASE Failed(w)
    <3>1. WriteRow(w, m, Closed(m, "dead")) \/ WriteRow(w, m, Postponed(m))
      BY <1>2, <2>4 DEF Failed
    <3> QED
      BY <3>1, ClosedRow, PostponedRow DEF Final
  <2> QED
    BY <2>1, <2>2, <2>3, <2>4 DEF Ends
<1> DEFINE new == [Idle EXCEPT !.at = "select"]
<1>4. new \in Cycle /\ new.at = "select" /\ new.msg = {} /\ new.token = NoToken
  BY DEF Idle, Cycle, Stage, NoToken
<1>5. worker' = [worker EXCEPT ![w] = new] /\ UNCHANGED <<tokens, void, delivered>>
  BY <1>3 DEF WriteRow
<1> HIDE DEF new
<1>6. worker' \in [Worker -> Cycle] /\ worker'[w] = new /\ Others(w)
  BY <1>4, <1>5, WorkerMoves
<1>7. email' = email \/ email' = [email EXCEPT ![m] = row]
  BY <1>3 DEF WriteRow
<1>8. email' \in [Message -> Row] /\ faults' \in Nat
  BY <1>3, <1>7 DEF TypeOK, WriteRow, Fault
<1>9. TypeOK'
  BY <1>4, <1>5, <1>6, <1>8, TypeKept DEF TypeOK, FreeStage
<1> QED
  BY <1>2, <1>3, <1>4, <1>5, <1>6, <1>7, <1>9 DEF LetsGo

LEMMA CrashEffect ==
  ASSUME Inv, NEW w \in Worker, Crash(w)
  PROVE  /\ TypeOK' /\ Others(w) /\ LetsGo(w) /\ UNCHANGED <<email, tokens, void, delivered>>
         /\ worker'[w].at = "idle"
<1> USE DEF Inv
<1>1. UNCHANGED <<email, tokens, void, delivered>> /\ faults' \in Nat /\ EndCycle(w)
  BY DEF Crash, TypeOK, Fault
<1> QED
  BY <1>1, EndCycleWorker, TypeKept DEF LetsGo, FreeStage, TypeOK

(* A row that is not taken by a worker changes by itself.                  *)
RowAlone(m) == Enqueue(m) \/ ClaimGoesStale(m) \/ BackoffElapses(m)

LEMMA RowAloneEffect ==
  ASSUME Inv, NEW m \in Message, RowAlone(m)
  PROVE  /\ TypeOK' /\ UNCHANGED <<worker, tokens, void, delivered>>
         /\ \E row \in Row :
              /\ email' = [email EXCEPT ![m] = row]
              /\ \/ row.status = email[m].status /\ row.stuck = email[m].stuck
                 \/ email[m].status = "none" /\ row.status = "queued"
                 \/ /\ row.status = "sending" /\ email[m].status = "sending"
                    /\ (\E w \in Worker : Has(w, m)) => "slow" \in Faults
<1> USE DEF Inv
<1>1. UNCHANGED <<worker, tokens, void, delivered, faults>>
  BY DEF RowAlone, Enqueue, ClaimGoesStale, BackoffElapses
<1>2. email[m] \in Row
  BY DEF TypeOK
<1>3. PICK row \in Row :
        /\ email' = [email EXCEPT ![m] = row]
        /\ \/ row.status = email[m].status /\ row.stuck = email[m].stuck
           \/ email[m].status = "none" /\ row.status = "queued"
           \/ /\ row.status = "sending" /\ email[m].status = "sending"
              /\ (\E w \in Worker : Has(w, m)) => "slow" \in Faults
  <2>1. CASE Enqueue(m)
    <3>1. Queued \in Row /\ Queued.status = "queued"
      BY DEF Queued, Row
    <3> QED
      BY <2>1, <3>1 DEF Enqueue
  <2>2. CASE ClaimGoesStale(m)
    <3> DEFINE row == [email[m] EXCEPT !.stuck = TRUE]
    <3>1. row \in Row /\ row.status = email[m].status
      BY <1>2 DEF Row
    <3>2. email' = [email EXCEPT ![m] = row]
      BY <2>2 DEF ClaimGoesStale
    <3> HIDE DEF row
    <3> QED
      BY <2>2, <3>1, <3>2 DEF ClaimGoesStale
  <2>3. CASE BackoffElapses(m)
    <3> DEFINE row == [email[m] EXCEPT !.due = TRUE]
    <3>1. row \in Row /\ row.status = email[m].status /\ row.stuck = email[m].stuck
      BY <1>2 DEF Row
    <3>2. email' = [email EXCEPT ![m] = row]
      BY <2>3 DEF BackoffElapses
    <3> HIDE DEF row
    <3> QED
      BY <2>3, <3>1, <3>2
  <2> QED
    BY <2>1, <2>2, <2>3 DEF RowAlone
<1>4. TypeOK'
  BY <1>1, <1>3 DEF TypeOK, Has
<1> QED
  BY <1>1, <1>3, <1>4

(* What is left of a step when the cycles and the rows are set aside.      *)
LEMMA NextCases ==
  ASSUME [Next]_vars
  PROVE  \/ \E w \in Worker : \/ ReclaimStuck(w) \/ SelectDue(w) \/ ClaimNext(w) \/ ReadRow(w)
                              \/ PrepareLink(w) \/ IssueToken(w) \/ SendRaw(w) \/ Ends(w)
                              \/ Crash(w)
         \/ \E m \in Message : RowAlone(m)
         \/ /\ UNCHANGED <<email, worker, tokens, delivered, faults>>
            /\ \/ void' = void
               \/ \E m \in Links : void' = void \cup {m}
BY DEF Next, vars, Step, Ends, RowAlone, RequestLapses

LEMMA InvStep == Inv /\ [Next]_vars => Inv'
<1> SUFFICES ASSUME Inv, [Next]_vars PROVE Inv'
  OBVIOUS
<1>0. TypeOK /\ LinkInHand /\ PlainKey
  BY DEF Inv
<1>1. ASSUME NEW w \in Worker, ReclaimStuck(w) PROVE Inv'
  BY <1>0, <1>1, ReclaimEffect DEF Inv, LinkInHand, PlainKey, Others, KeepsHold
<1>2. ASSUME NEW w \in Worker, SelectDue(w) PROVE Inv'
  BY <1>0, <1>2, SelectEffect DEF Inv, LinkInHand, PlainKey, Others
<1>3. ASSUME NEW w \in Worker, ClaimNext(w) PROVE Inv'
  BY <1>0, <1>3, ClaimEffect DEF Inv, LinkInHand, PlainKey, Others, FreeStage
<1>4. ASSUME NEW w \in Worker, ReadRow(w) PROVE Inv'
  BY <1>0, <1>4, ReadRowEffect DEF Inv, LinkInHand, PlainKey, Others, KeepsHold, LetsGo
<1>5. ASSUME NEW w \in Worker, PrepareLink(w) PROVE Inv'
  BY <1>0, <1>5, PrepareEffect DEF Inv, LinkInHand, PlainKey, Others, KeepsHold
<1>6. ASSUME NEW w \in Worker, IssueToken(w) PROVE Inv'
  BY <1>0, <1>6, IssueEffect DEF Inv, LinkInHand, PlainKey, Others, KeepsHold
<1>7. ASSUME NEW w \in Worker, SendRaw(w) PROVE Inv'
  <2>1. PICK m \in worker[w].msg :
          \A d \in delivered' :
            d \in delivered \/ d = [msg |-> m, key |-> Key(m, worker[w].attempts),
                                    token |-> worker[w].token]
    BY <1>7, SendEffect
  <2>2. PlainKey'
    <3> SUFFICES ASSUME NEW d \in delivered', d \notin delivered, d.msg \in Plain
                 PROVE  d.key = 0 /\ d.token = NoToken
      BY <1>0 DEF PlainKey
    <3>1. d.msg = m /\ d.key = Key(m, worker[w].attempts) /\ d.token = worker[w].token
      BY <2>1
    <3>2. m \notin Links
      BY <3>1, EmailQueueAssumption
    <3> QED
      BY <1>0, <3>1, <3>2 DEF Key, LinkInHand
  <2>3. LinkInHand'
    BY <1>0, <1>7, SendEffect DEF LinkInHand, Others, KeepsHold
  <2> QED
    BY <1>7, <2>2, <2>3, SendEffect DEF Inv
<1>8. ASSUME NEW w \in Worker, Ends(w) \/ Crash(w) PROVE Inv'
  BY <1>0, <1>8, EndEffect, CrashEffect DEF Inv, LinkInHand, PlainKey, Others, LetsGo
<1>9. ASSUME NEW m \in Message, RowAlone(m) PROVE Inv'
  BY <1>0, <1>9, RowAloneEffect DEF Inv, LinkInHand, PlainKey
<1>10. CASE /\ UNCHANGED <<email, worker, tokens, delivered, faults>>
            /\ \/ void' = void
               \/ \E m \in Links : void' = void \cup {m}
  BY <1>0, <1>10 DEF Inv, TypeOK, LinkInHand, PlainKey, Has
<1> QED
  BY <1>1, <1>2, <1>3, <1>4, <1>5, <1>6, <1>7, <1>8, <1>9, <1>10, NextCases

(* The variables keep their types, and each attempt has one row in hand,   *)
(* whatever Faults happen.                                                 *)
THEOREM TypeCorrect == Spec => []TypeOK
BY InitInv, InvStep, PTL DEF Spec, Inv

(* A message without links reaches its recipient at most once, whatever    *)
(* crashes, lost answers, reclaims and slow workers: its key was fixed     *)
(* when it was queued (queue.ts:253-255).                                  *)
THEOREM PlainDeliveredOnce == Spec => []DeliveredOnce
<1>1. Inv => DeliveredOnce
  BY DEF Inv, TypeOK, PlainKey, DeliveredOnce, Delivery
<1> QED
  BY <1>1, InitInv, InvStep, PTL DEF Spec

(***************************************************************************)
(* Without slow workers a claimed row has one worker, and it is not        *)
(* reclaimed while that worker lives.                                      *)
(***************************************************************************)
HolderAlone ==
  \A w \in Worker, m \in Message :
    Has(w, m) => /\ email[m].status = "sending" /\ ~email[m].stuck
                 /\ \A v \in Worker : Has(v, m) => v = w

WasDelivered(m) == \E d \in delivered : d.msg = m

SentWasDelivered ==
  /\ \A w \in Worker, m \in Message :
       worker[w].at = "sent" /\ Has(w, m) => WasDelivered(m)
  /\ \A m \in Message : email[m].status = "sent" => WasDelivered(m)

HoldInv == HolderAlone /\ SentWasDelivered

Finality == \A m \in Message :
              /\ email[m].status \in Final => email'[m].status = email[m].status
              /\ email'[m].status = "sent" => WasDelivered(m)

LEMMA Singletons == ASSUME NEW a, NEW b PROVE {a} = {b} => a = b
OBVIOUS

LEMMA HoldStep ==
  ASSUME Inv, HoldInv, [Next]_vars, "slow" \notin Faults
  PROVE  HoldInv' /\ Finality
<1>0. TypeOK /\ HolderAlone /\ SentWasDelivered
  BY DEF Inv, HoldInv
<1> USE DEF HoldInv, HolderAlone, SentWasDelivered, WasDelivered, Finality, Has
<1>1. ASSUME NEW w \in Worker, ReclaimStuck(w) PROVE HoldInv' /\ Finality
  <2>1. /\ Others(w) /\ KeepsHold(w) /\ worker'[w].at = "select" /\ UNCHANGED delivered
        /\ \A m \in Message : email'[m] = email[m] \/ email'[m] = Reclaimed(email[m])
    BY <1>1, ReclaimEffect
  <2>2. ASSUME NEW m \in Message
        PROVE  \/ email'[m] = email[m]
               \/ /\ email[m].status = "sending" /\ email[m].stuck
                  /\ email'[m].status = "queued"
    BY <2>1, ReclaimedRow, <1>0 DEF TypeOK
  <2>3. \A v \in Worker : worker'[v].msg = worker[v].msg
    BY <2>1 DEF Others, KeepsHold
  <2>4. \A v \in Worker : worker'[v].at = "sent" => worker[v].at = "sent"
    BY <2>1 DEF Others
  <2>5. Finality
    BY <1>0, <2>2 DEF Final
  <2> QED
    BY <1>0, <2>1, <2>2, <2>3, <2>4, <2>5
<1>2. ASSUME NEW w \in Worker, SelectDue(w) \/ Crash(w) \/ ReadRow(w) \/ PrepareLink(w)
                               \/ IssueToken(w)
      PROVE  HoldInv' /\ Finality
  <2>1. /\ Others(w) /\ UNCHANGED <<email, delivered>> /\ worker'[w].at # "sent"
        /\ worker'[w].msg = {} \/ worker'[w].msg = worker[w].msg
    BY <1>2, SelectEffect, CrashEffect, ReadRowEffect, PrepareEffect, IssueEffect
       DEF KeepsHold, LetsGo
  <2>2. /\ \A v \in Worker, m \in Message : worker'[v].msg = {m} => worker[v].msg = {m}
        /\ \A v \in Worker : worker'[v].at = "sent" => worker[v].at = "sent"
    BY <2>1 DEF Others
  <2> QED
    BY <1>0, <2>1, <2>2
<1>3. ASSUME NEW w \in Worker, ClaimNext(w) PROVE HoldInv' /\ Finality
  <2>1. Others(w) /\ UNCHANGED delivered
    BY <1>3, ClaimEffect
  <2>2. CASE worker'[w].msg = {} /\ worker'[w].at \in FreeStage /\ email' = email
    <3>1. /\ \A v \in Worker, m \in Message : worker'[v].msg = {m} => worker[v].msg = {m}
          /\ \A v \in Worker : worker'[v].at = "sent" => worker[v].at = "sent"
      BY <2>1, <2>2 DEF Others, FreeStage
    <3> QED
      BY <1>0, <2>1, <2>2, <3>1
  <2>3. ASSUME worker'[w].at = "read", NEW m \in Message, email[m].status = "queued",
               email' = [email EXCEPT ![m] = Claimed(email[m])], worker'[w].msg = {m}
        PROVE  HoldInv' /\ Finality
    <3>1. /\ email'[m].status = "sending" /\ ~email'[m].stuck
          /\ \A n \in Message \ {m} : email'[n] = email[n]
      BY <1>0, <2>3, ClaimedRow DEF TypeOK
    <3>2. \A v \in Worker : worker[v].msg # {m}
      BY <1>0, <2>3
    <3>3. \A v \in Worker \ {w} : worker'[v] = worker[v]
      BY <2>1 DEF Others
    <3>4. \A n \in Message : worker'[w].msg = {n} => n = m
      BY <2>3, Singletons
    <3>5. Finality
      BY <1>0, <2>3, <3>1 DEF Final
    <3>6. SentWasDelivered'
      BY <1>0, <2>1, <2>3, <3>1, <3>3
    <3>7. HolderAlone'
      BY <1>0, <2>3, <3>1, <3>2, <3>3, <3>4
    <3> QED
      BY <3>5, <3>6, <3>7
  <2> QED
    BY <1>3, <2>2, <2>3, ClaimEffect
<1>4. ASSUME NEW w \in Worker, SendRaw(w) PROVE HoldInv' /\ Finality
  <2>1. Others(w) /\ KeepsHold(w) /\ UNCHANGED email /\ delivered \subseteq delivered'
    BY <1>4, SendEffect
  <2>2. worker'[w].at = "sent" => \E m \in worker[w].msg : \E d \in delivered' : d.msg = m
    <3> SUFFICES ASSUME worker'[w].at = "sent"
                 PROVE  \E m \in worker[w].msg : \E d \in delivered' : d.msg = m
      OBVIOUS
    <3>1. PICK m \in worker[w].msg :
            delivered' = delivered \cup {[msg |-> m, key |-> Key(m, worker[w].attempts),
                                          token |-> worker[w].token]}
      <4> HIDE DEF HoldInv, SentWasDelivered, HolderAlone, Finality
      <4> QED
        BY <1>4, SendEffect
    <3> DEFINE new == [msg |-> m, key |-> Key(m, worker[w].attempts), token |-> worker[w].token]
    <3>2. new \in delivered' /\ new.msg = m
      BY <3>1
    <3> QED
      BY <3>2
  <2>3. \A v \in Worker : worker'[v].msg = worker[v].msg
    BY <2>1 DEF Others, KeepsHold
  <2>4. HolderAlone' /\ Finality
    BY <1>0, <2>1, <2>3
  <2>5. SentWasDelivered'
    BY <1>0, <2>1, <2>2, <2>3, Singletons DEF Others
  <2> QED
    BY <2>4, <2>5
<1>5. ASSUME NEW w \in Worker, Ends(w) PROVE HoldInv' /\ Finality
  <2>1. Others(w) /\ worker'[w].msg = {} /\ UNCHANGED delivered /\ worker'[w].at = "select"
    BY <1>5, EndEffect DEF LetsGo
  <2>2. /\ \A v \in Worker, n \in Message :
             worker'[v].msg = {n} => v # w /\ worker[v].msg = {n}
        /\ \A v \in Worker : worker'[v].at = "sent" => worker[v].at = "sent"
    BY <2>1 DEF Others
  <2>3. PICK m \in Message :
          /\ worker[w].msg = {m}
          /\ \/ email' = email
             \/ \E row \in Row : /\ email' = [email EXCEPT ![m] = row]
                                 /\ row.status \in Final \cup {"queued"}
                                 /\ row.status = "sent" => worker[w].at = "sent"
    BY <1>5, EndEffect
  <2>4. /\ \A n \in Message \ {m} : email'[n] = email[n]
        /\ email'[m] = email[m] \/ (email'[m].status = "sent" => worker[w].at = "sent")
        /\ email[m].status = "sending"
    BY <1>0, <2>3 DEF TypeOK
  <2>5. Finality
    BY <1>0, <2>3, <2>4 DEF Final
  <2>6. SentWasDelivered'
    BY <1>0, <2>1, <2>2, <2>3, <2>4
  <2>7. HolderAlone'
    BY <1>0, <2>2, <2>3, <2>4
  <2> QED
    BY <2>5, <2>6, <2>7
<1>6. ASSUME NEW m \in Message, RowAlone(m) PROVE HoldInv' /\ Finality
  <2>1. UNCHANGED <<worker, delivered>>
    BY <1>6, RowAloneEffect
  <2>2. PICK row \in Row :
          /\ email' = [email EXCEPT ![m] = row]
          /\ \/ row.status = email[m].status /\ row.stuck = email[m].stuck
             \/ email[m].status = "none" /\ row.status = "queued"
             \/ /\ row.status = "sending" /\ email[m].status = "sending"
                /\ \A w \in Worker : worker[w].msg # {m}
    BY <1>6, RowAloneEffect
  <2>3. email'[m] = row /\ \A n \in Message \ {m} : email'[n] = email[n]
    BY <1>0, <2>2 DEF TypeOK
  <2>4. Finality
    BY <1>0, <2>2, <2>3 DEF Final
  <2> QED
    BY <1>0, <2>1, <2>2, <2>3, <2>4
<1>7. CASE UNCHANGED <<email, worker, delivered>>
  BY <1>0, <1>7
<1> QED
  BY <1>1, <1>2, <1>3, <1>4, <1>5, <1>6, <1>7, NextCases

LEMMA InitHold == Init => HoldInv
<1> SUFFICES ASSUME Init PROVE HoldInv
  OBVIOUS
<1>1. /\ \A w \in Worker : worker[w].msg = {} /\ worker[w].at = "idle"
      /\ \A m \in Message : email[m].status = "none"
  BY IdleCycle DEF Init
<1> QED
  BY <1>1 DEF HoldInv, HolderAlone, SentWasDelivered, Has

(* Final states are final and "sent" is true, through crashes, lost        *)
(* answers, failed statements and any number of processes, as long as no   *)
(* live worker keeps a row beyond STUCK_MS.                                *)
THEOREM FinalStatesAreFinal ==
  ASSUME "slow" \notin Faults
  PROVE  Spec => SentIsFinal
<1>1. Inv /\ HoldInv /\ [Next]_vars => HoldInv'
  BY HoldStep
<1>2. Inv /\ HoldInv /\ [Next]_vars =>
        [\A m \in Message :
           /\ email[m].status \in Final => email'[m].status = email[m].status
           /\ email'[m].status = "sent" => \E d \in delivered : d.msg = m]_vars
  BY HoldStep DEF Finality, WasDelivered
<1> QED
  BY <1>1, <1>2, InitHold, InitInv, InvStep, PTL DEF Spec, SentIsFinal

(***************************************************************************)
(* The queue as an outbox: what a step does to the rows and the mailboxes, *)
(* once the claims are set aside.                                          *)
(***************************************************************************)
OnlyRow(m) == \A n \in Message \ {m} : Promised(email'[n].status) = Promised(email[n].status)

Waits(m) == email[m].status \in {"queued", "sending"}

IsQueued(m) == /\ UNCHANGED delivered /\ OnlyRow(m)
               /\ email[m].status = "none" /\ email'[m].status = "queued"

IsClosed(m) == /\ UNCHANGED delivered /\ OnlyRow(m)
               /\ Waits(m) /\ email'[m].status \in Final
               /\ email'[m].status = "sent" => WasDelivered(m)

Leaves(m, d) == /\ UNCHANGED email
                /\ Waits(m) /\ d.msg = m /\ d \notin delivered
                /\ m \in Plain => Copies(m) = {}
                /\ delivered' = delivered \cup {d}

NothingPromised ==
  /\ UNCHANGED delivered
  /\ \A n \in Message : Promised(email'[n].status) = Promised(email[n].status)

LEMMA PlainCopies ==
  ASSUME Inv, NEW m \in Plain, NEW w \in Worker, worker[w].at = "send", Has(w, m),
         [msg |-> m, key |-> Key(m, worker[w].attempts), token |-> worker[w].token]
           \notin delivered
  PROVE  Copies(m) = {}
<1> DEFINE new == [msg |-> m, key |-> Key(m, worker[w].attempts), token |-> worker[w].token]
<1>1. m \notin Links
  BY EmailQueueAssumption
<1>2. new = [msg |-> m, key |-> 0, token |-> NoToken]
  BY <1>1 DEF Inv, LinkInHand, Key, Has
<1>3. \A d \in delivered : d.msg = m => d = new
  BY <1>2 DEF Inv, TypeOK, PlainKey, Delivery
<1> QED
  BY <1>3 DEF Copies

LEMMA OutboxCases ==
  ASSUME Inv, HoldInv, [Next]_vars, "slow" \notin Faults
  PROVE  \/ NothingPromised
         \/ \E m \in Message : IsQueued(m) \/ IsClosed(m)
         \/ \E m \in Message : \E d : Leaves(m, d)
<1>0. TypeOK /\ HolderAlone /\ Finality
  BY HoldStep DEF Inv, HoldInv
<1> USE DEF Promised, Final
<1>1. ASSUME NEW w \in Worker, ReclaimStuck(w) PROVE NothingPromised
  <2>1. ASSUME NEW m \in Message PROVE Promised(email'[m].status) = Promised(email[m].status)
    BY <1>0, <1>1, ReclaimEffect, ReclaimedRow DEF TypeOK
  <2> QED
    BY <1>1, <2>1, ReclaimEffect DEF NothingPromised
<1>2. ASSUME NEW w \in Worker, SelectDue(w) \/ Crash(w) \/ ReadRow(w) \/ PrepareLink(w)
                               \/ IssueToken(w)
      PROVE  NothingPromised
  BY <1>2, SelectEffect, CrashEffect, ReadRowEffect, PrepareEffect, IssueEffect
     DEF NothingPromised
<1>3. ASSUME NEW w \in Worker, ClaimNext(w) PROVE NothingPromised
  <2>1. ASSUME NEW m \in Message, email[m].status = "queued",
               email' = [email EXCEPT ![m] = Claimed(email[m])]
        PROVE  \A n \in Message : Promised(email'[n].status) = Promised(email[n].status)
    BY <1>0, <2>1, ClaimedRow DEF TypeOK
  <2> QED
    BY <1>3, <2>1, ClaimEffect DEF NothingPromised
<1>4. ASSUME NEW w \in Worker, SendRaw(w)
      PROVE  NothingPromised \/ \E m \in Message : \E d : Leaves(m, d)
  <2>1. PICK m \in Message : worker[w].msg = {m}
    BY <1>0, <1>4, SendEffect, InHand DEF FreeStage
  <2> DEFINE new == [msg |-> m, key |-> Key(m, worker[w].attempts), token |-> worker[w].token]
  <2>2. /\ UNCHANGED email /\ worker[w].at = "send"
        /\ delivered' = delivered \/ delivered' = delivered \cup {new}
    BY <1>4, <2>1, SendEffect
  <2>3. CASE delivered' = delivered
    BY <2>2, <2>3 DEF NothingPromised
  <2>4. CASE delivered' = delivered \cup {new} /\ new \notin delivered
    <3>1. Waits(m) /\ Has(w, m)
      BY <1>0, <2>1 DEF HolderAlone, Has, Waits
    <3>2. m \in Plain => Copies(m) = {}
      BY <2>2, <2>4, <3>1, PlainCopies
    <3>3. Leaves(m, new)
      BY <2>2, <2>4, <3>1, <3>2 DEF Leaves
    <3> QED
      BY <3>3
  <2> QED
    BY <2>2, <2>3, <2>4
<1>5. ASSUME NEW w \in Worker, Ends(w)
      PROVE  NothingPromised \/ \E m \in Message : IsClosed(m)
  <2>1. PICK m \in Message :
          /\ worker[w].msg = {m}
          /\ \/ email' = email
             \/ \E row \in Row : /\ email' = [email EXCEPT ![m] = row]
                                 /\ row.status \in Final \cup {"queued"}
    BY <1>5, EndEffect
  <2>2. UNCHANGED delivered /\ email[m].status = "sending"
    BY <1>0, <1>5, <2>1, EndEffect DEF HolderAlone, Has
  <2>3. /\ OnlyRow(m)
        /\ email' = email \/ email'[m].status \in Final \cup {"queued"}
    BY <1>0, <2>1 DEF TypeOK, OnlyRow
  <2>4. CASE email'[m].status \in Final
    BY <1>0, <2>2, <2>3, <2>4 DEF IsClosed, Waits, Finality
  <2>5. CASE email' = email \/ email'[m].status = "queued"
    BY <2>2, <2>3, <2>5 DEF NothingPromised, OnlyRow
  <2> QED
    BY <2>3, <2>4, <2>5
<1>6. ASSUME NEW m \in Message, RowAlone(m) PROVE NothingPromised \/ IsQueued(m)
  <2>1. PICK row \in Row :
          /\ email' = [email EXCEPT ![m] = row]
          /\ \/ row.status = email[m].status
             \/ email[m].status = "none" /\ row.status = "queued"
    BY <1>6, RowAloneEffect
  <2>2. email'[m] = row /\ \A n \in Message \ {m} : email'[n] = email[n]
    BY <1>0, <2>1 DEF TypeOK
  <2>3. UNCHANGED delivered
    BY <1>6, RowAloneEffect
  <2> QED
    BY <2>1, <2>2, <2>3 DEF NothingPromised, IsQueued, OnlyRow
<1>7. CASE UNCHANGED <<email, worker, delivered>>
  BY <1>7 DEF NothingPromised
<1> QED
  BY <1>1, <1>2, <1>3, <1>4, <1>5, <1>6, <1>7, NextCases

(* The rows and the mailboxes of the outbox in the three kinds of steps.   *)
LEMMA OutboxUnmoved ==
  ASSUME NothingPromised
  PROVE  UNCHANGED Box!vars
BY DEF NothingPromised, Kept, Delivered, Copies, Box!vars

LEMMA OutboxRow ==
  ASSUME NEW m \in Message, OnlyRow(m), UNCHANGED delivered
  PROVE  /\ Kept' = [Kept EXCEPT ![m] = Promised(email'[m].status)]
         /\ UNCHANGED Delivered
BY DEF OnlyRow, Kept, Delivered, Copies

LEMMA OutboxCopy ==
  ASSUME NEW m \in Message, NEW d, Leaves(m, d), IsFiniteSet(delivered)
  PROVE  /\ Delivered' = [Delivered EXCEPT ![m] = @ + 1]
         /\ m \in Plain => Delivered[m] = 0
         /\ UNCHANGED Kept
<1>1. IsFiniteSet(Copies(m))
  BY FS_Subset DEF Copies
<1>2. Copies(m)' = Copies(m) \cup {d} /\ d \notin Copies(m)
  BY DEF Copies, Leaves
<1>3. Cardinality(Copies(m))' = Cardinality(Copies(m)) + 1
  BY <1>1, <1>2, FS_AddElement
<1>4. \A n \in Message \ {m} : Copies(n)' = Copies(n)
  BY DEF Copies, Leaves
<1>5. m \in Plain => Cardinality(Copies(m)) = 0
  BY FS_EmptySet DEF Leaves
<1> QED
  BY <1>3, <1>4, <1>5 DEF Delivered, Kept, Leaves

LEMMA OutboxStep ==
  ASSUME Inv, HoldInv, IsFiniteSet(delivered), [Next]_vars, "slow" \notin Faults
  PROVE  IsFiniteSet(delivered)' /\ [Box!Next]_Box!vars
<1>1. CASE NothingPromised
  BY <1>1, OutboxUnmoved DEF NothingPromised
<1>2. ASSUME NEW m \in Message, IsQueued(m) PROVE Box!Queue(m)
  BY <1>2, OutboxRow DEF IsQueued, Promised, Final, Box!Queue, Kept
<1>3. ASSUME NEW m \in Message, IsClosed(m)
      PROVE  \E how \in Box!Closings : Box!Close(m, how)
  <2> DEFINE how == email'[m].status
  <2>1. how \in Box!Closings /\ Promised(how) = how /\ Kept[m] = "waiting"
    BY <1>3 DEF IsClosed, Waits, Final, Promised, Kept, Box!Closings
  <2>2. ASSUME how = "sent" PROVE Delivered[m] > 0
    <3>1. Copies(m) # {}
      BY <1>3, <2>2 DEF IsClosed, WasDelivered, Copies
    <3>2. IsFiniteSet(Copies(m))
      BY FS_Subset DEF Copies
    <3>3. Cardinality(Copies(m)) \in Nat /\ Cardinality(Copies(m)) # 0
      BY <3>1, <3>2, FS_CardinalityType, FS_EmptySet
    <3> QED
      BY <3>3 DEF Delivered
  <2>3. Kept' = [Kept EXCEPT ![m] = how] /\ UNCHANGED Delivered
    BY <1>3, <2>1, OutboxRow DEF IsClosed
  <2> QED
    BY <2>1, <2>2, <2>3 DEF Box!Close
<1>4. ASSUME NEW m \in Message, NEW d, Leaves(m, d)
      PROVE  Box!Deliver(m) /\ IsFiniteSet(delivered)'
  <2>1. Kept[m] = "waiting"
    BY <1>4 DEF Leaves, Waits, Kept, Promised, Final
  <2> QED
    BY <1>4, <2>1, OutboxCopy, FS_AddElement DEF Leaves, Box!Deliver
<1> QED
  BY <1>1, <1>2, <1>3, <1>4, OutboxCases DEF IsQueued, IsClosed, Box!Next

(* Whatever crashes, is lost, is refused or fails, and however many        *)
(* processes work the queue off, it is an outbox: a message without links  *)
(* leaves once, none leaves after its row is final, and "sent" is true, as *)
(* long as no live worker keeps a row beyond STUCK_MS.                     *)
THEOREM QueueImplementsOutbox ==
  ASSUME "slow" \notin Faults
  PROVE  Spec => QueueIsOutbox
<1>1. Init => IsFiniteSet(delivered) /\ Box!Init
  <2> SUFFICES ASSUME Init PROVE IsFiniteSet(delivered) /\ Box!Init
    OBVIOUS
  <2>1. \A m \in Message : Copies(m) = {} /\ email[m].status = "none"
    BY DEF Init, Copies
  <2>2. Kept = [m \in Message |-> "new"] /\ Delivered = [m \in Message |-> 0]
    BY <2>1, FS_EmptySet DEF Kept, Delivered, Promised
  <2> QED
    BY <2>2, FS_EmptySet DEF Init, Box!Init
<1>2. Inv /\ HoldInv /\ [Next]_vars => HoldInv'
  BY HoldStep
<1>3. Inv /\ HoldInv /\ IsFiniteSet(delivered) /\ [Next]_vars =>
        IsFiniteSet(delivered)' /\ [Box!Next]_Box!vars
  BY OutboxStep
<1> QED
  BY <1>1, <1>2, <1>3, InitHold, InitInv, InvStep, PTL DEF Spec, QueueIsOutbox, Box!Spec

(***************************************************************************)
(* A transaction that issues a token marks every unused one of its line    *)
(* that was there when it looked; what another process issues between the  *)
(* look and the commit is not among them.                                  *)
(***************************************************************************)
SeesBefore ==
  \A w \in Worker : worker[w].at = "issue" =>
    /\ worker[w].seen <= Len(tokens)
    /\ \A m \in Message, t \in DOMAIN tokens :
         /\ Has(w, m) /\ tokens[t].line = LineOf[m] /\ tokens[t].unused
         /\ t <= worker[w].seen
         => t \in worker[w].old

OneProcess == \A v, w \in Worker : v = w

(* With one process nothing is issued between the look and the commit.     *)
SeesAll == \A w \in Worker : worker[w].at = "issue" => worker[w].seen = Len(tokens)

LinkInv == SeesBefore /\ OneLiveLink

(* What matters of a step to the links.                                    *)
LeavesLinks(w) == Others(w) /\ UNCHANGED tokens /\ worker'[w].at # "issue"

Looks(w) == /\ Others(w) /\ KeepsHold(w) /\ UNCHANGED tokens
            /\ worker'[w].at = "issue" =>
                 /\ \A m \in worker[w].msg : worker'[w].old = Unused(LineOf[m])
                 /\ worker'[w].seen = Len(tokens)

Issues(w, m) == /\ Others(w) /\ worker[w].at = "issue" /\ worker'[w].at # "issue"
                /\ worker[w].msg = {m}
                /\ Len(tokens) \in Nat /\ Len(tokens') = Len(tokens) + 1
                /\ DOMAIN tokens' = DOMAIN tokens \cup {Len(tokens')}
                /\ \A t \in DOMAIN tokens :
                     /\ t \in Nat /\ t < Len(tokens')
                     /\ tokens'[t].line = tokens[t].line /\ tokens'[t].seen = tokens[t].seen
                     /\ tokens'[t].unused => tokens[t].unused /\ t \notin worker[w].old
                /\ tokens'[Len(tokens')].line = LineOf[m]
                /\ tokens'[Len(tokens')].seen = worker[w].seen

LEMMA LinkCases ==
  ASSUME Inv, [Next]_vars
  PROVE  \/ UNCHANGED <<worker, tokens>>
         \/ \E w \in Worker : LeavesLinks(w) \/ Looks(w) \/ \E m \in Links : Issues(w, m)
<1>0. TypeOK /\ LinkInHand
  BY DEF Inv
<1>1. ASSUME NEW w \in Worker,
             \/ ReclaimStuck(w) \/ SelectDue(w) \/ ClaimNext(w) \/ ReadRow(w) \/ SendRaw(w)
             \/ Ends(w) \/ Crash(w)
      PROVE  LeavesLinks(w)
  BY <1>1, ReclaimEffect, SelectEffect, ClaimEffect, ReadRowEffect, SendEffect, EndEffect,
     CrashEffect DEF FreeStage, LeavesLinks
<1>2. ASSUME NEW w \in Worker, PrepareLink(w) PROVE Looks(w)
  BY <1>2, PrepareEffect DEF Looks
<1>3. ASSUME NEW w \in Worker, IssueToken(w)
      PROVE  LeavesLinks(w) \/ \E m \in Links : Issues(w, m)
  <2>1. Others(w) /\ worker'[w].at # "issue" /\ worker[w].at = "issue" /\ worker[w].msg \subseteq Links
    BY <1>3, IssueEffect
  <2>2. ASSUME NEW m \in worker[w].msg,
               tokens' = Append(Used(worker[w].old),
                                [line |-> LineOf[m], unused |-> TRUE, seen |-> worker[w].seen])
        PROVE  Issues(w, m) /\ m \in Links
    <3>1. /\ m \in Links /\ LineOf[m] \in Line
          /\ worker[w].old \in SUBSET Nat /\ worker[w].seen \in Nat
      BY <1>0, <2>1, EmailQueueAssumption DEF TypeOK, Cycle
    <3>2. worker[w].msg = {m}
      BY <1>0, <2>1, InHand DEF FreeStage
    <3> QED
      BY <1>0, <2>1, <2>2, <3>1, <3>2, TokensIssued DEF Issues
  <2> QED
    BY <1>3, <2>1, <2>2, IssueEffect DEF LeavesLinks
<1>4. ASSUME NEW m \in Message, RowAlone(m) PROVE UNCHANGED <<worker, tokens>>
  BY <1>4, RowAloneEffect
<1> QED
  BY <1>1, <1>2, <1>3, <1>4, NextCases

LEMMA LinkStep ==
  ASSUME Inv, LinkInv, [Next]_vars
  PROVE  LinkInv'
<1>0. SeesBefore /\ OneLiveLink /\ TypeOK
  BY DEF Inv, LinkInv
<1>1. CASE UNCHANGED <<worker, tokens>>
  BY <1>0, <1>1 DEF LinkInv, SeesBefore, OneLiveLink, Has
<1>2. ASSUME NEW w \in Worker, LeavesLinks(w) PROVE LinkInv'
  BY <1>0, <1>2 DEF LinkInv, SeesBefore, OneLiveLink, Has, LeavesLinks, Others
<1>3. ASSUME NEW w \in Worker, Looks(w) PROVE LinkInv'
  <2>1. OneLiveLink'
    BY <1>0, <1>3 DEF OneLiveLink, Looks
  <2>2. Len(tokens) \in Nat
    BY <1>0, LenProperties DEF TypeOK
  <2>3. SeesBefore'
    BY <1>0, <1>3, <2>2 DEF SeesBefore, Has, Looks, Others, KeepsHold, Unused
  <2> QED
    BY <2>1, <2>3 DEF LinkInv
<1>4. ASSUME NEW w \in Worker, NEW m \in Links, Issues(w, m) PROVE LinkInv'
  <2> DEFINE t0 == Len(tokens')
  <2>1. m \in Message /\ Has(w, m)
    BY <1>4 DEF Message, Issues, Has
  <2>2. /\ t0 \in Nat /\ t0 \notin DOMAIN tokens /\ worker[w].seen \in Nat
        /\ \A v \in Worker : worker[v].seen \in Nat
    BY <1>0, <1>4 DEF Issues, TypeOK, Cycle
  <2>3. \A s \in DOMAIN tokens : tokens'[s].line = LineOf[m] /\ tokens'[s].unused
                                  => worker[w].seen < s
    BY <1>0, <1>4, <2>1, <2>2 DEF Issues, SeesBefore
  <2>4. OneLiveLink'
    <3> SUFFICES ASSUME NEW s \in DOMAIN tokens', NEW t \in DOMAIN tokens', s < t,
                        tokens'[s].unused, tokens'[t].unused,
                        tokens'[s].line = tokens'[t].line
                 PROVE  tokens'[t].seen < s
      BY DEF OneLiveLink
    <3>1. CASE t \in DOMAIN tokens
      <4>1. s \in DOMAIN tokens
        BY <1>4, <3>1 DEF Issues
      <4> QED
        BY <1>0, <1>4, <3>1, <4>1 DEF Issues, OneLiveLink
    <3>2. CASE t = t0
      <4>1. s \in DOMAIN tokens
        BY <1>4, <2>2, <3>2 DEF Issues
      <4> QED
        BY <1>4, <2>3, <3>2, <4>1 DEF Issues
    <3> QED
      BY <1>4, <3>1, <3>2 DEF Issues
  <2>5. SeesBefore'
    <3> SUFFICES ASSUME NEW v \in Worker, worker'[v].at = "issue"
                 PROVE  /\ worker'[v].seen <= Len(tokens')
                        /\ \A n \in Message, t \in DOMAIN tokens' :
                             /\ worker'[v].msg = {n} /\ tokens'[t].line = LineOf[n]
                             /\ tokens'[t].unused /\ t <= worker'[v].seen
                             => t \in worker'[v].old
      BY DEF SeesBefore, Has
    <3>1. v # w /\ worker'[v] = worker[v] /\ worker[v].seen <= Len(tokens)
      BY <1>0, <1>4 DEF Issues, Others, SeesBefore
    <3>2. worker'[v].seen < t0
      BY <1>4, <2>2, <3>1 DEF Issues
    <3>3. ASSUME NEW n \in Message, NEW t \in DOMAIN tokens',
                 worker'[v].msg = {n}, tokens'[t].line = LineOf[n],
                 tokens'[t].unused, t <= worker'[v].seen
          PROVE  t \in worker'[v].old
      <4>1. t # t0
        BY <2>2, <3>1, <3>2, <3>3
      <4>2. t \in DOMAIN tokens /\ tokens[t].line = LineOf[n] /\ tokens[t].unused
        BY <1>4, <3>3, <4>1 DEF Issues
      <4> QED
        BY <1>0, <3>1, <3>3, <4>2 DEF SeesBefore, Has
    <3>4. worker'[v].seen <= t0
      BY <2>2, <3>1, <3>2
    <3> QED
      BY <3>3, <3>4
  <2> QED
    BY <2>4, <2>5 DEF LinkInv
<1> QED
  BY <1>1, <1>2, <1>3, <1>4, LinkCases

LEMMA InitLink == Init => LinkInv
<1> SUFFICES ASSUME Init PROVE LinkInv
  OBVIOUS
<1>1. tokens = << >> /\ \A w \in Worker : worker[w].at = "idle"
  BY IdleCycle DEF Init
<1> QED
  BY <1>1 DEF LinkInv, SeesBefore, OneLiveLink

(* Two links of one user and purpose work at once only if the transaction  *)
(* that issued the later one had begun before the earlier one was          *)
(* committed: whatever crashes, fails, is slow or is sent again, and       *)
(* however many messages of the line and processes there are.              *)
THEOREM LinksOverlapOnly == Spec => []OneLiveLink
<1>1. Inv /\ LinkInv /\ [Next]_vars => LinkInv'
  BY LinkStep
<1>2. LinkInv => OneLiveLink
  BY DEF LinkInv
<1> QED
  BY <1>1, <1>2, InitLink, InitInv, InvStep, PTL DEF Spec

(* With one process no token is issued that a transaction has not seen.    *)
LEMMA OneProcessStep ==
  ASSUME Inv, SeesBefore, SeesAll, OneLinkWorks, [Next]_vars, OneProcess
  PROVE  (SeesAll /\ OneLinkWorks)'
<1>0. TypeOK
  BY DEF Inv
<1>1. CASE UNCHANGED <<worker, tokens>>
  BY <1>1 DEF SeesAll, OneLinkWorks
<1>2. ASSUME NEW w \in Worker, LeavesLinks(w) PROVE (SeesAll /\ OneLinkWorks)'
  BY <1>2 DEF SeesAll, OneLinkWorks, LeavesLinks, Others
<1>3. ASSUME NEW w \in Worker, Looks(w) PROVE (SeesAll /\ OneLinkWorks)'
  BY <1>3 DEF SeesAll, OneLinkWorks, Looks, Others
<1>4. ASSUME NEW w \in Worker, NEW m \in Links, Issues(w, m)
      PROVE  (SeesAll /\ OneLinkWorks)'
  <2> DEFINE t0 == Len(tokens')
  <2>1. m \in Message /\ Has(w, m)
    BY <1>4 DEF Message, Issues, Has
  <2>2. SeesAll'
    BY <1>4 DEF SeesAll, Issues, OneProcess
  <2>3. \A s \in DOMAIN tokens : tokens'[s].line = LineOf[m] => ~tokens'[s].unused
    <3> SUFFICES ASSUME NEW s \in DOMAIN tokens, tokens'[s].line = LineOf[m],
                        tokens'[s].unused
                 PROVE  FALSE
      OBVIOUS
    <3>1. s <= worker[w].seen
      BY <1>4 DEF Issues, SeesAll
    <3> QED
      BY <1>4, <2>1, <3>1 DEF Issues, SeesBefore
  <2>4. OneLinkWorks'
    <3> SUFFICES ASSUME NEW s \in DOMAIN tokens', NEW t \in DOMAIN tokens',
                        tokens'[s].unused, tokens'[t].unused,
                        tokens'[s].line = tokens'[t].line
                 PROVE  s = t
      BY DEF OneLinkWorks
    <3>1. CASE s \in DOMAIN tokens /\ t \in DOMAIN tokens
      BY <1>4, <3>1 DEF Issues, OneLinkWorks
    <3>2. CASE s = t0 \/ t = t0
      BY <1>4, <2>3, <3>2 DEF Issues
    <3> QED
      BY <1>4, <3>1, <3>2 DEF Issues
  <2> QED
    BY <2>2, <2>4
<1> QED
  BY <1>1, <1>2, <1>3, <1>4, LinkCases

(* With one backend process at most one link of a user and purpose works:  *)
(* asking for another invalidates those before it (tokens.ts:26-29),       *)
(* whatever fails, crashes or is slow.                                     *)
THEOREM OneProcessOneLink ==
  ASSUME OneProcess
  PROVE  Spec => []OneLinkWorks
<1>1. Init => SeesAll /\ OneLinkWorks
  <2> SUFFICES ASSUME Init PROVE SeesAll /\ OneLinkWorks
    OBVIOUS
  <2>1. tokens = << >> /\ \A w \in Worker : worker[w].at = "idle"
    BY IdleCycle DEF Init
  <2> QED
    BY <2>1 DEF SeesAll, OneLinkWorks
<1>2. Inv /\ LinkInv /\ [Next]_vars => LinkInv'
  BY LinkStep
<1>3. Inv /\ LinkInv /\ SeesAll /\ OneLinkWorks /\ [Next]_vars => (SeesAll /\ OneLinkWorks)'
  BY OneProcessStep DEF LinkInv
<1> QED
  BY <1>1, <1>2, <1>3, InitLink, InitInv, InvStep, PTL DEF Spec
=============================================================================
