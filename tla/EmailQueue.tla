----------------------------- MODULE EmailQueue -----------------------------
(***************************************************************************)
(* The persistent queue of outgoing mail (services/email/queue.ts) with    *)
(* the one-use links that are issued at the moment of sending              *)
(* (link-emails.ts, tokens.ts), worked off by several backend processes,   *)
(* in front of a mail provider that removes duplicates by idempotency key. *)
(* Cycles are chained inside a process, so each process runs one at a      *)
(* time.  A link belongs to a line: one user and one purpose, a password   *)
(* reset or an invitation.                                                 *)
(***************************************************************************)
EXTENDS Naturals, Sequences, FiniteSets

CONSTANTS Worker,        \* backend processes
          Plain,         \* messages queued with their body
          Links,         \* messages whose link is issued when they are sent
          Line,          \* a user and a purpose of a link
          LineOf,        \* the line of each message of Links
          MaxAttempts,   \* MAX_ATTEMPTS
          MaxFaults,     \* bound: faults in a behaviour
          Faults         \* the faults that may happen

(***************************************************************************)
(* "reject": the provider refuses a message or is not reached.             *)
(* "lostAnswer": it takes the message and the answer is lost.  "db": a     *)
(* statement fails.  "crash": a process dies.  "noKey": a process runs     *)
(* without RESEND_API_KEY.  "slow": a live worker keeps a claim longer     *)
(* than STUCK_MS.                                                          *)
(***************************************************************************)
FaultKind == {"reject", "lostAnswer", "db", "crash", "noKey", "slow"}

ASSUME EmailQueueAssumption ==
  /\ Plain \cap Links = {}
  /\ LineOf \in [Links -> Line]
  /\ MaxAttempts \in Nat \ {0}
  /\ MaxFaults \in Nat
  /\ Faults \subseteq FaultKind

Message == Plain \cup Links

VARIABLES email,      \* email_log
          worker,     \* each process: where its cycle is, and its locals
          tokens,     \* the tokens of links, in the order they were issued
          void,       \* link mails whose request is too old or user is gone
          delivered,  \* what the provider put in mailboxes
          faults

vars == <<email, worker, tokens, void, delivered, faults>>

NoToken == 0
Final   == {"sent", "dead", "skipped"}

\* "stuck": claimed more than STUCK_MS ago; "due": the next retry is not in the
\* future; "body": html_body or template_data is there.
Row == [status : {"none", "queued", "sending"} \cup Final, attempts : Nat,
        due : BOOLEAN, stuck : BOOLEAN, body : BOOLEAN]

Stage == {"idle", "select", "claim", "read", "prepare", "issue", "send",
          "sent", "failed", "discard", "skip"}

\* A cycle: what is next, the rows it selected, and the row it has claimed with
\* what it knows of it; "old" are the tokens its transaction saw unused, and
\* "seen" how many there were (a history: nothing reads it but its token).
Cycle == [at : Stage, todo : SUBSET Message, msg : SUBSET Message, attempts : Nat,
          old : SUBSET Nat, seen : Nat, token : Nat]

Idle == [at |-> "idle", todo |-> {}, msg |-> {}, attempts |-> 0, old |-> {},
         seen |-> 0, token |-> NoToken]

Token    == [line : Line, unused : BOOLEAN, seen : Nat]
Delivery == [msg : Message, key : Nat, token : Nat]

\* Throughout: a fault of kind k happens now.
Fault(k) == /\ k \in Faults /\ faults < MaxFaults
            /\ faults' = faults + 1

Init == /\ email = [m \in Message |-> [status |-> "none", attempts |-> 0, due |-> FALSE,
                                       stuck |-> FALSE, body |-> FALSE]]
        /\ worker = [w \in Worker |-> Idle]
        /\ tokens = << >> /\ void = {} /\ delivered = {} /\ faults = 0

\* w has claimed the row of m and not let go of it.
Has(w, m) == worker[w].msg = {m}
-----------------------------------------------------------------------------
(* The rows as the statements leave them.                                  *)

Queued == [status |-> "queued", attempts |-> 0, due |-> TRUE, stuck |-> FALSE, body |-> TRUE]

Claimable(m) == email[m].status = "queued" /\ email[m].body /\ email[m].due

Reclaimed(row) == IF row.status = "sending" /\ row.stuck
                  THEN [row EXCEPT !.status = "queued", !.due = TRUE]
                  ELSE row

Claimed(row) == [row EXCEPT !.status = "sending", !.attempts = @ + 1, !.stuck = FALSE]

\* CLEAR_BODIES leaves template_data, the body of a message with a link.
Closed(m, status) == [email[m] EXCEPT !.status = status, !.stuck = FALSE,
                                      !.body = m \in Links]

Postponed(m) == [email[m] EXCEPT !.status = "queued", !.stuck = FALSE, !.due = FALSE]
-----------------------------------------------------------------------------
(* A cycle of the worker, one action per statement or call it awaits.      *)

Enqueue(m) ==
  /\ email[m].status = "none"
  /\ email' = [email EXCEPT ![m] = Queued]
  /\ UNCHANGED <<worker, tokens, void, delivered, faults>>

\* Mutant: abandoned rows are left in 'sending'.
ReclaimStuck_Never(w) ==
  /\ worker[w].at = "idle"
  /\ worker' = [worker EXCEPT ![w].at = "select"]
  /\ UNCHANGED <<email, tokens, void, delivered, faults>>

\* A cycle begins; a failed UPDATE counts as one that changed nothing.
ReclaimStuck(w) ==
  /\ worker[w].at = "idle"
  /\ worker' = [worker EXCEPT ![w].at = "select"]
  /\ \/ /\ email' = [m \in Message |-> Reclaimed(email[m])]
        /\ UNCHANGED faults
     \/ Fault("db") /\ UNCHANGED email
  /\ UNCHANGED <<tokens, void, delivered>>

EndCycle(w) == worker' = [worker EXCEPT ![w] = Idle]

\* claimNext reads the candidates; none, or an error, ends the cycle.
SelectDue(w) ==
  /\ worker[w].at = "select"
  /\ LET due == {m \in Message : Claimable(m)}
     IN  \/ /\ due # {}
            /\ worker' = [worker EXCEPT ![w].at = "claim", ![w].todo = due]
            /\ UNCHANGED faults
         \/ due = {} /\ EndCycle(w) /\ UNCHANGED faults
         \/ Fault("db") /\ EndCycle(w)
  /\ UNCHANGED <<email, tokens, void, delivered>>

\* The claim of one candidate changed no row: the next one, or the end.
PassOver(w, m) ==
  \/ worker[w].todo = {m} /\ EndCycle(w)
  \/ worker[w].todo # {m} /\ worker' = [worker EXCEPT ![w].todo = @ \ {m}]

ClaimNext(w) ==
  /\ worker[w].at = "claim"
  /\ \E m \in worker[w].todo :
       \/ /\ email[m].status = "queued"
          /\ email' = [email EXCEPT ![m] = Claimed(@)]
          /\ worker' = [worker EXCEPT ![w] = [Idle EXCEPT !.at = "read", !.msg = {m}]]
          /\ UNCHANGED faults
       \/ email[m].status # "queued" /\ PassOver(w, m) /\ UNCHANGED <<email, faults>>
       \/ Fault("db") /\ PassOver(w, m) /\ UNCHANGED email
  /\ UNCHANGED <<tokens, void, delivered>>

\* The claimed row is read; attemptSend branches on the key and on the kind.
ReadRow(w) ==
  /\ worker[w].at = "read"
  /\ \E m \in worker[w].msg :
       \/ /\ worker' = [worker EXCEPT ![w].attempts = email[m].attempts,
                                      ![w].at = IF m \in Plain THEN "send" ELSE "prepare"]
          /\ UNCHANGED faults
       \/ Fault("noKey") /\ worker' = [worker EXCEPT ![w].at = "skip"]
       \/ Fault("db") /\ EndCycle(w)
  /\ UNCHANGED <<email, tokens, void, delivered>>

\* The tokens that are unused, as the UPDATE of issueEmailToken sees them.
Unused(line) == {t \in DOMAIN tokens : tokens[t].line = line /\ tokens[t].unused}

\* prepareLinkEmail discards the message, or begins the transaction.
PrepareLink(w) ==
  /\ worker[w].at = "prepare"
  /\ \E m \in worker[w].msg :
       \/ /\ m \in void
          /\ worker' = [worker EXCEPT ![w].at = "discard"]
          /\ UNCHANGED faults
       \/ /\ m \notin void
          /\ worker' = [worker EXCEPT ![w].at = "issue", ![w].old = Unused(LineOf[m]),
                                         ![w].seen = Len(tokens)]
          /\ UNCHANGED faults
       \/ Fault("db") /\ worker' = [worker EXCEPT ![w].at = "failed"]
  /\ UNCHANGED <<email, tokens, void, delivered>>

\* Mutant: the new token is inserted and the old ones stay.
Used_None(old) == tokens

Used(old) == [t \in DOMAIN tokens |-> [tokens[t] EXCEPT !.unused = @ /\ t \notin old]]

\* The transaction commits: READ COMMITTED, so what another one inserted since
\* is not among the tokens it marked used.
IssueToken(w) ==
  /\ worker[w].at = "issue"
  /\ \E m \in worker[w].msg :
       \/ /\ tokens' = Append(Used(worker[w].old),
                              [line |-> LineOf[m], unused |-> TRUE, seen |-> worker[w].seen])
          /\ worker' = [worker EXCEPT ![w].at = "send", ![w].old = {}, ![w].seen = 0,
                                      ![w].token = Len(tokens')]
          /\ UNCHANGED faults
       \/ /\ Fault("db")
          /\ worker' = [worker EXCEPT ![w].at = "failed", ![w].old = {}, ![w].seen = 0]
          /\ UNCHANGED tokens
  /\ UNCHANGED <<email, void, delivered>>

\* Mutant: a new idempotency key for every attempt.
Key_PerAttempt(m, attempts) == attempts

\* The key fixed when the message was queued, extended by the attempt when the
\* content changes with it.
Key(m, attempts) == IF m \in Links THEN attempts ELSE 0

\* The provider refuses a key it has seen with other contents, and delivers a
\* key once.
Refuses(m, key, token) == \E d \in delivered : d.msg = m /\ d.key = key /\ d.token # token

Accept(m, key, token) ==
  delivered' = IF Refuses(m, key, token) THEN delivered
               ELSE delivered \cup {[msg |-> m, key |-> key, token |-> token]}

SendRaw(w) ==
  /\ worker[w].at = "send"
  /\ \E m \in worker[w].msg :
       LET key == Key(m, worker[w].attempts)
           token == worker[w].token
       IN  \/ /\ Accept(m, key, token)
              /\ worker' = [worker EXCEPT ![w].at = IF Refuses(m, key, token) THEN "failed"
                                                    ELSE "sent"]
              /\ UNCHANGED faults
           \/ /\ Accept(m, key, token)
              /\ Fault("lostAnswer")
              /\ worker' = [worker EXCEPT ![w].at = "failed"]
           \/ /\ Fault("reject")
              /\ worker' = [worker EXCEPT ![w].at = "failed"]
              /\ UNCHANGED delivered
  /\ UNCHANGED <<email, tokens, void>>

\* The UPDATE that ends an attempt, with its error swallowed; then the next row.
WriteRow(w, m, row) ==
  /\ worker' = [worker EXCEPT ![w] = [Idle EXCEPT !.at = "select"]]
  /\ \/ email' = [email EXCEPT ![m] = row] /\ UNCHANGED faults
     \/ Fault("db") /\ UNCHANGED email
  /\ UNCHANGED <<tokens, void, delivered>>

MarkSent(w) ==
  /\ worker[w].at = "sent"
  /\ \E m \in worker[w].msg : WriteRow(w, m, Closed(m, "sent"))

MarkSkipped(w) ==
  /\ worker[w].at = "skip"
  /\ \E m \in worker[w].msg : WriteRow(w, m, Closed(m, "skipped"))

Discard(w) ==
  /\ worker[w].at = "discard"
  /\ \E m \in worker[w].msg : WriteRow(w, m, Closed(m, "dead"))

\* The catch block.
Failed(w) ==
  /\ worker[w].at = "failed"
  /\ \E m \in worker[w].msg :
       WriteRow(w, m, IF worker[w].attempts >= MaxAttempts THEN Closed(m, "dead")
                      ELSE Postponed(m))

Crash(w) ==
  /\ worker[w].at # "idle"
  /\ Fault("crash")
  /\ EndCycle(w)
  /\ UNCHANGED <<email, tokens, void, delivered>>

Step(w) ==
  \/ ReclaimStuck(w) \/ SelectDue(w) \/ ClaimNext(w) \/ ReadRow(w) \/ PrepareLink(w)
  \/ IssueToken(w) \/ SendRaw(w) \/ MarkSent(w) \/ MarkSkipped(w) \/ Discard(w) \/ Failed(w)
-----------------------------------------------------------------------------
(* Time.                                                                   *)

\* STUCK_MS have passed since the claim; a live worker is quicker unless "slow".
ClaimGoesStale(m) ==
  /\ email[m].status = "sending" /\ ~email[m].stuck
  /\ (\E w \in Worker : Has(w, m)) => "slow" \in Faults
  /\ email' = [email EXCEPT ![m].stuck = TRUE]
  /\ UNCHANGED <<worker, tokens, void, delivered, faults>>

BackoffElapses(m) ==
  /\ email[m].status = "queued" /\ ~email[m].due
  /\ email' = [email EXCEPT ![m].due = TRUE]
  /\ UNCHANGED <<worker, tokens, void, delivered, faults>>

\* RESET_TTL_MINUTES have passed since a reset was asked, or the user was deleted.
RequestLapses(m) ==
  /\ m \notin void
  /\ void' = void \cup {m}
  /\ UNCHANGED <<email, worker, tokens, delivered, faults>>

Next ==
  \/ \E w \in Worker : Step(w) \/ Crash(w)
  \/ \E m \in Message : Enqueue(m) \/ ClaimGoesStale(m) \/ BackoffElapses(m)
  \/ \E m \in Links : RequestLapses(m)

Spec == Init /\ [][Next]_vars

(***************************************************************************)
(* Every process starts a cycle every five minutes (index.ts:233-236) and  *)
(* its awaits settle; claims age and backoffs elapse.                      *)
(***************************************************************************)
Fairness ==
  /\ \A w \in Worker : WF_vars(Step(w))
  /\ \A m \in Message : WF_vars(ClaimGoesStale(m)) /\ WF_vars(BackoffElapses(m))

FairSpec == Spec /\ Fairness
-----------------------------------------------------------------------------
(* Properties.                                                             *)

(* Every variable has its type, and a worker has one row in hand from its  *)
(* claim to the end of the attempt, and none otherwise.                    *)
TypeOK ==
  /\ email \in [Message -> Row]
  /\ worker \in [Worker -> Cycle]
  /\ \A w \in Worker : IF worker[w].at \in {"idle", "select", "claim"}
                       THEN worker[w].msg = {}
                       ELSE \E m \in Message : Has(w, m)
  /\ tokens \in Seq(Token)
  /\ void \subseteq Links
  /\ delivered \subseteq Delivery
  /\ faults \in Nat

(* Nobody receives a message without links twice, whatever crashes, is     *)
(* lost or is sent again: the retry repeats the key (queue.ts:36-45).      *)
DeliveredOnce ==
  \A d, e \in delivered : d.msg = e.msg /\ d.msg \in Plain => d = e

(* Issuing a link invalidates those before it (tokens.ts:26-29), whichever *)
(* process sends which message, fails and tries again: two links of one    *)
(* user and purpose work at once only if the transaction of the later one  *)
(* had begun before that of the earlier one committed.                     *)
OneLiveLink ==
  \A s, t \in DOMAIN tokens :
    s < t /\ tokens[s].unused /\ tokens[t].unused /\ tokens[s].line = tokens[t].line
      => tokens[t].seen < s

(* At most one link of a user and purpose works, which is so where one     *)
(* process sends.                                                          *)
OneLinkWorks ==
  \A s, t \in DOMAIN tokens :
    tokens[s].unused /\ tokens[t].unused /\ tokens[s].line = tokens[t].line => s = t

(* A row that says "sent" has been delivered, and one in a final state     *)
(* stays in it: no late or competing worker takes it up again              *)
(* (queue.ts:20-24).                                                       *)
SentIsFinal ==
  [][\A m \in Message :
       /\ email[m].status \in Final => email'[m].status = email[m].status
       /\ email'[m].status = "sent" => \E d \in delivered : d.msg = m]_vars

(* The rows and the mailboxes as an outbox: a row that is taken, or put     *)
(* back, has only been waiting.                                            *)
Promised(status) == IF status = "none" THEN "new"
                    ELSE IF status \in Final THEN status ELSE "waiting"

Copies(m) == {d \in delivered : d.msg = m}

Kept      == [m \in Message |-> Promised(email[m].status)]
Delivered == [m \in Message |-> Cardinality(Copies(m))]

Box == INSTANCE Outbox WITH Once <- Plain, outbox <- Kept, copies <- Delivered

(* Whatever crashes, is lost or is sent again, the queue is an outbox: a   *)
(* message without links leaves once, none leaves after its row is final,  *)
(* and a row that says "sent" is true (queue.ts:20-24, 36-45).             *)
QueueIsOutbox == Box!Spec

(* Every queued message reaches a final state, in spite of crashes in any  *)
(* place: "tras agotar los intentos la fila termina en dead, no            *)
(* reintentándose para siempre" (email-queue.test.ts:159).                 *)
Settles == \A m \in Message : email[m].status = "queued" ~> email[m].status \in Final
=============================================================================
