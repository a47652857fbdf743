--------------------------------- MODULE Booth ---------------------------------
(* The voting booth of one voter, who may have it open in several tabs: the *)
(* check of the eligibility, the choice, its confirmation, the vote and     *)
(* what the page says of it.  What POST /register-vote and the job do to an *)
(* attempt is the abstraction of VoteRecording to one voter.                *)
EXTENDS Naturals, FiniteSets

CONSTANTS
    Tabs,
    Posts,        \* requests of /register-vote
    Candidates,
    None,
    MaxLoads      \* bound: times the booth is opened

ASSUME BoothAssumption ==
    /\ None \notin Posts \cup Candidates
    /\ MaxLoads \in Nat

VARIABLES
    booth,        \* the state of the page in each tab
    eligibility,  \* the handler of GET /elections/:id/eligibility for each tab
    post,         \* the handlers of POST /register-vote
    attempt,      \* vote_attempts: the voter's row
    mempool,      \* the ballots of the voter that may still be mined
    cast,         \* the ballot in the contract
    counted,      \* election_participations and nullifier_audit
    taken,        \* tabs opened after the vote was taken
    loads

pages     == <<booth, eligibility>>
recording == <<attempt, mempool, cast, counted>>
boothVars == <<pages, post, recording, taken, loads>>

Replies == {"confirmed", "pending", "conflict", "notOnChain", "notConfigured", "error"}

Page == [load : {"gone", "eligibility", "election", "done"},
         already : BOOLEAN, barred : BOOLEAN, listed : BOOLEAN,
         selected : Candidates \cup {None}, confirm : BOOLEAN,
         status : {"null", "sending", "confirming", "success", "error"},
         voteError : {"none", "unavailable", "sync", "unknown"},
         receipt : {"none", "pending", "chain"},
         request : Posts \cup {None}, timer : BOOLEAN]

Closed == [load |-> "gone", already |-> FALSE, barred |-> FALSE, listed |-> FALSE,
           selected |-> None, confirm |-> FALSE, status |-> "null",
           voteError |-> "none", receipt |-> "none", request |-> None, timer |-> FALSE]

BoothInit ==
    /\ booth = [t \in Tabs |-> Closed]
    /\ eligibility = [t \in Tabs |-> "idle"]
    /\ post = [p \in Posts |-> [at |-> "new", choice |-> None, reply |-> "error"]]
    /\ attempt = "none" /\ mempool = {} /\ cast = None /\ counted = None
    /\ taken = [t \in Tabs |-> FALSE]
    /\ loads = 0

Shows(t, p) == booth' = [booth EXCEPT ![t] = p]

-------------------------------------------------------------------------------
(* loadElectionData.                                                        *)

VoteTaken == attempt = "pending" \/ counted # None

Open(t) ==
    /\ booth[t].load = "gone" /\ loads < MaxLoads
    /\ loads' = loads + 1
    /\ Shows(t, [Closed EXCEPT !.load = "eligibility"])
    /\ eligibility' = [eligibility EXCEPT ![t] = "lock"]
    /\ taken' = [taken EXCEPT ![t] = VoteTaken]
    /\ UNCHANGED <<post, recording>>

Leave(t) ==
    /\ booth[t].load # "gone" /\ booth[t].request = None
    /\ Shows(t, Closed)
    /\ eligibility' = [eligibility EXCEPT ![t] = "idle"]
    /\ UNCHANGED <<post, recording, taken, loads>>

Eligible(t, already, barred) ==
    /\ Shows(t, [booth[t] EXCEPT !.load = "election", !.already = already, !.barred = barred])
    /\ eligibility' = [eligibility EXCEPT ![t] = "idle"]

(* The election, the account or the census say no; or the request fails.    *)
NotEligible(t) ==
    /\ eligibility[t] = "lock"
    /\ Eligible(t, FALSE, TRUE)
    /\ UNCHANGED <<post, recording, taken, loads>>

\* Mutant: the participation is looked up before the lock.
CheckLock_Last(t) ==
    /\ \/ /\ eligibility[t] = "lock"
          /\ IF counted # None THEN Eligible(t, TRUE, FALSE)
             ELSE UNCHANGED booth /\ eligibility' = [eligibility EXCEPT ![t] = "last"]
       \/ /\ eligibility[t] = "last"
          /\ IF attempt = "pending" THEN Eligible(t, FALSE, TRUE)
             ELSE Eligible(t, FALSE, FALSE)
    /\ UNCHANGED <<post, recording, taken, loads>>

(* First the vote in progress, and then, in another query, whether the      *)
(* voter has participated.                                                  *)
CheckLock(t) ==
    /\ eligibility[t] = "lock"
    /\ IF attempt = "pending"
       THEN Eligible(t, FALSE, TRUE)
       ELSE UNCHANGED booth /\ eligibility' = [eligibility EXCEPT ![t] = "participation"]
    /\ UNCHANGED <<post, recording, taken, loads>>

CheckParticipation(t) ==
    /\ eligibility[t] = "participation"
    /\ Eligible(t, counted # None, FALSE)
    /\ UNCHANGED <<post, recording, taken, loads>>

(* GET /elections/:id, with its candidates, or an error.                    *)
LoadElection(t) ==
    /\ booth[t].load = "election"
    /\ \E ok \in BOOLEAN : Shows(t, [booth[t] EXCEPT !.load = "done", !.listed = ok])
    /\ UNCHANGED <<eligibility, post, recording, taken, loads>>

-------------------------------------------------------------------------------
(* The ballot paper, the dialog and handleVote.                             *)

InProgress(t) == booth[t].status \in {"sending", "confirming"}

Offered(t) ==
    /\ booth[t].load = "done" /\ booth[t].listed
    /\ ~booth[t].already /\ ~booth[t].barred
    /\ ~InProgress(t) /\ booth[t].status # "success"

Select(t, c) ==
    /\ Offered(t) /\ ~booth[t].confirm /\ booth[t].selected # c
    /\ Shows(t, [booth[t] EXCEPT !.selected = c])
    /\ UNCHANGED <<eligibility, post, recording, taken, loads>>

AskToConfirm(t) ==
    /\ Offered(t) /\ booth[t].selected # None /\ ~booth[t].confirm
    /\ Shows(t, [booth[t] EXCEPT !.confirm = TRUE])
    /\ UNCHANGED <<eligibility, post, recording, taken, loads>>

CancelVote(t) ==
    /\ Offered(t) /\ booth[t].confirm
    /\ Shows(t, [booth[t] EXCEPT !.confirm = FALSE])
    /\ UNCHANGED <<eligibility, post, recording, taken, loads>>

HandleVote(t, p) ==
    /\ post[p].at = "new" /\ booth[t].selected # None
    /\ post' = [post EXCEPT ![p] = [at |-> "sent", choice |-> booth[t].selected, reply |-> "error"]]
    /\ Shows(t, [booth[t] EXCEPT !.confirm = FALSE, !.status = "sending",
                                 !.voteError = "none", !.request = p, !.timer = TRUE])
    /\ UNCHANGED <<eligibility, recording, taken, loads>>

ConfirmVote(t, p) == Offered(t) /\ booth[t].confirm /\ HandleVote(t, p)

(* The retry of the amber box goes past the dialog.                         *)
Retry(t, p) ==
    /\ Offered(t) /\ booth[t].voteError = "unavailable" /\ ~booth[t].confirm
    /\ HandleVote(t, p)

TryAgain(t) ==
    /\ booth[t].load = "done" /\ booth[t].voteError = "unknown"
    /\ Shows(t, [booth[t] EXCEPT !.voteError = "none", !.status = "null"])
    /\ UNCHANGED <<eligibility, post, recording, taken, loads>>

(* 300 ms after the request: "confirming".                                  *)
TimerFires(t) ==
    /\ booth[t].timer
    /\ Shows(t, [booth[t] EXCEPT !.timer = FALSE, !.status = "confirming"])
    /\ UNCHANGED <<eligibility, post, recording, taken, loads>>

(* finally: clearTimeout(confirmTimer).                                     *)
Answered(t) == [booth[t] EXCEPT !.request = None, !.timer = FALSE]

Replied(t, r) ==
    /\ booth[t].request # None
    /\ post[booth[t].request].at = "replied" /\ post[booth[t].request].reply = r

ReceiptOf(r) == IF r = "pending" THEN "pending" ELSE "chain"

Success(t) ==
    /\ \E r \in {"confirmed", "pending"} :
          /\ Replied(t, r)
          /\ Shows(t, [Answered(t) EXCEPT !.status = "success", !.selected = None,
                                          !.receipt = ReceiptOf(r)])
    /\ UNCHANGED <<eligibility, post, recording, taken, loads>>

Conflict(t) ==
    /\ Replied(t, "conflict")
    /\ Shows(t, [Answered(t) EXCEPT !.already = TRUE, !.status = "null",
                                    !.voteError = "none", !.confirm = FALSE])
    /\ UNCHANGED <<eligibility, post, recording, taken, loads>>

ErrorOf(r) == CASE r = "notOnChain"    -> "sync"
                [] r = "notConfigured" -> "unavailable"
                [] OTHER               -> "unknown"

VoteError(t) ==
    /\ \E r \in {"notOnChain", "notConfigured", "error"} :
          /\ Replied(t, r)
          /\ Shows(t, [Answered(t) EXCEPT !.status = "error", !.voteError = ErrorOf(r)])
    /\ UNCHANGED <<eligibility, post, recording, taken, loads>>

(* The 15 seconds of the client, or a lost answer; the handler goes on.     *)
ClientTimeout(t) ==
    /\ booth[t].request # None
    /\ Shows(t, [Answered(t) EXCEPT !.status = "error", !.voteError = "unknown"])
    /\ UNCHANGED <<eligibility, post, recording, taken, loads>>

-------------------------------------------------------------------------------
(* POST /register-vote and the job.                                         *)

Reply(p, r) == post' = [post EXCEPT ![p].at = "replied", ![p].reply = r]

(* The checks before the lock.                                              *)
Refuse(p) ==
    /\ post[p].at = "sent"
    /\ \E r \in {"notOnChain", "error"} : Reply(p, r)
    /\ UNCHANGED <<pages, recording, taken, loads>>

(* acquireVoteLock: the participation, and then the row of the attempt.     *)
CheckTaken(p) ==
    /\ post[p].at = "sent"
    /\ IF counted # None THEN Reply(p, "conflict")
       ELSE post' = [post EXCEPT ![p].at = "checked"]
    /\ UNCHANGED <<pages, recording, taken, loads>>

TakeLock(p) ==
    /\ post[p].at = "checked"
    /\ IF attempt = "pending"
       THEN Reply(p, "conflict") /\ UNCHANGED attempt
       ELSE attempt' = "pending" /\ post' = [post EXCEPT ![p].at = "locked"]
    /\ UNCHANGED <<pages, mempool, cast, counted, taken, loads>>

(* Mined in time: recorded, unless the database fails.                      *)
Confirmed(p) ==
    /\ post[p].at = "locked" /\ cast = None
    /\ cast' = post[p].choice
    /\ \/ counted' = cast' /\ attempt' = "none"
       \/ UNCHANGED <<counted, attempt>>
    /\ Reply(p, "confirmed")
    /\ UNCHANGED <<pages, mempool, taken, loads>>

(* Sent, and not mined within 12 seconds.                                   *)
Slow(p) ==
    /\ post[p].at = "locked" /\ cast = None
    /\ mempool' = mempool \cup {post[p].choice}
    /\ Reply(p, "pending")
    /\ UNCHANGED <<pages, attempt, cast, counted, taken, loads>>

Fail ==
    /\ attempt' = "failed"
    /\ taken' = [t \in Tabs |-> taken[t] /\ counted # None]

(* The transaction fails, perhaps after it was sent; or the contract knows  *)
(* the nullifier.                                                           *)
CastFails(p) ==
    /\ post[p].at = "locked" /\ Fail
    /\ \/ cast = None /\ Reply(p, "error") /\ mempool' \in {mempool, mempool \cup {post[p].choice}}
       \/ cast # None /\ Reply(p, "conflict") /\ UNCHANGED mempool
    /\ UNCHANGED <<pages, cast, counted, loads>>

(* No chain configured: the lock stays.                                     *)
NotConfigured(p) ==
    /\ post[p].at = "locked" /\ Reply(p, "notConfigured")
    /\ UNCHANGED <<pages, recording, taken, loads>>

Mine ==
    /\ \E c \in mempool :
          /\ mempool' = mempool \ {c}
          /\ cast' = IF cast = None THEN c ELSE cast
    /\ UNCHANGED <<pages, post, attempt, counted, taken, loads>>

DropTx ==
    /\ \E c \in mempool : mempool' = mempool \ {c}
    /\ UNCHANGED <<pages, post, attempt, cast, counted, taken, loads>>

(* cleanupStaleVoteAttempts.                                                *)
Reconcile ==
    /\ attempt = "pending" /\ \A p \in Posts : post[p].at # "locked"
    /\ \/ cast # None /\ counted' = cast /\ attempt' = "none" /\ UNCHANGED taken
       \/ cast = None /\ mempool = {} /\ Fail /\ UNCHANGED counted
    /\ UNCHANGED <<pages, post, mempool, cast, loads>>

-------------------------------------------------------------------------------
TabStep(t) ==
    \/ Open(t) \/ Leave(t) \/ NotEligible(t) \/ CheckLock(t)
    \/ CheckParticipation(t) \/ LoadElection(t)
    \/ \E c \in Candidates : Select(t, c)
    \/ AskToConfirm(t) \/ CancelVote(t)
    \/ \E p \in Posts : ConfirmVote(t, p) \/ Retry(t, p)
    \/ TryAgain(t) \/ TimerFires(t)
    \/ Success(t) \/ Conflict(t) \/ VoteError(t) \/ ClientTimeout(t)

PostStep(p) ==
    Refuse(p) \/ CheckTaken(p) \/ TakeLock(p) \/ Confirmed(p) \/ Slow(p) \/ CastFails(p) \/ NotConfigured(p)

BoothNext ==
    \/ \E t \in Tabs : TabStep(t)
    \/ \E p \in Posts : PostStep(p)
    \/ Mine \/ DropTx \/ Reconcile

-------------------------------------------------------------------------------
(* A booth opened after the voter's vote was taken offers no ballot, unless *)
(* the attempt failed: the two queries of the eligibility do not miss a     *)
(* vote that moves from one table to the other between them.                *)
BallotNotOfferedAgain == \A t \in Tabs : taken[t] => ~Offered(t)

===============================================================================
