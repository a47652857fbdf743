------------------------------ MODULE PartsProofs -----------------------------
(*****************************************************************************)
(* Proofs about the parts of the system that share no state with others: the *)
(* booth, the results and the session in the browser, the recount, the       *)
(* scripts of the deployment and the first contract.  Each has its own       *)
(* specification and inductive invariant, for any values of its constants.   *)
(*****************************************************************************)
EXTENDS Booth, Results, Web, Recount, Deployment, ElectionRegistryV1,
        FiniteSetTheorems, SequenceTheorems, TLAPS

-------------------------------------------------------------------------------
(* The voting booth: VotingBooth.jsx, and the requests it sends.           *)

BoothSpec == BoothInit /\ [][BoothNext]_boothVars

BoothTypeOK ==
    /\ booth \in [Tabs -> Page]
    /\ eligibility \in [Tabs -> {"idle", "lock", "participation"}]
    /\ post \in [Posts -> [at : {"new", "sent", "checked", "locked", "replied"},
                           choice : Candidates \cup {None}, reply : Replies]]
    /\ attempt \in {"none", "pending", "failed"}
    /\ mempool \subseteq Candidates
    /\ cast \in Candidates \cup {None} /\ counted \in Candidates \cup {None}
    /\ taken \in [Tabs -> BOOLEAN]
    /\ loads \in Nat

(* What is sent has a choice.                                              *)
Chosen == \A p \in Posts : post[p].at # "new" => post[p].choice \in Candidates

(* A tab opened after the vote was taken: the vote is in one of the two    *)
(* tables; if the first query has not found it, it is in the second; and   *)
(* the page has been told.                                                 *)
Remembers(t) ==
    /\ eligibility[t] # "idle" => booth[t].load = "eligibility"
    /\ taken[t] =>
          /\ VoteTaken
          /\ eligibility[t] = "participation" => counted # None
          /\ booth[t].load \in {"election", "done"} => booth[t].already \/ booth[t].barred

BoothInv == BoothTypeOK /\ Chosen /\ \A t \in Tabs : Remembers(t)

(* A page may change if it keeps what it was told and the handler of its   *)
(* eligibility is not disturbed.                                           *)
LEMMA PageChanges ==
  ASSUME BoothInv, NEW t \in Tabs, NEW p \in Page, Shows(t, p),
         eligibility[t] # "idle" => p.load = "eligibility",
         p.load \in {"election", "done"} =>
             /\ booth[t].load \in {"election", "done"}
             /\ booth[t].already => p.already
             /\ booth[t].barred => p.barred,
         UNCHANGED <<eligibility, recording, taken, loads>>,
         post' \in [Posts -> [at : {"new", "sent", "checked", "locked", "replied"},
                              choice : Candidates \cup {None}, reply : Replies]],
         Chosen'
  PROVE  BoothInv'
<1>1. \A s \in Tabs : booth'[s] = IF s = t THEN p ELSE booth[s]
  BY DEF Shows, BoothInv, BoothTypeOK
<1>2. BoothTypeOK'
  BY <1>1 DEF Shows, BoothInv, BoothTypeOK, recording
<1>3. ASSUME NEW s \in Tabs PROVE Remembers(s)'
  BY <1>1 DEF BoothInv, Remembers, VoteTaken, recording
<1> QED
  BY <1>2, <1>3 DEF BoothInv

(* The handlers and the chain may move if a vote taken stays taken.        *)
LEMMA RecordingMoves ==
  ASSUME BoothInv, BoothTypeOK', Chosen', UNCHANGED pages,
         \A t \in Tabs : taken'[t] => taken[t] /\ VoteTaken',
         counted # None => counted' # None
  PROVE  BoothInv'
<1>1. ASSUME NEW t \in Tabs PROVE Remembers(t)'
  BY DEF BoothInv, Remembers, pages
<1> QED
  BY <1>1 DEF BoothInv

LEMMA EligibleStep ==
  ASSUME BoothInv, NEW t \in Tabs, NEW already \in BOOLEAN, NEW barred \in BOOLEAN,
         Eligible(t, already, barred), taken[t] => already \/ barred,
         UNCHANGED <<post, recording, taken, loads>>
  PROVE  BoothInv'
<1> DEFINE p == [booth[t] EXCEPT !.load = "election", !.already = already, !.barred = barred]
<1>1. booth[t] \in Page
  BY DEF BoothInv, BoothTypeOK
<1>2. p \in Page /\ p.load = "election" /\ p.already = already /\ p.barred = barred
  BY <1>1 DEF Page
<1>3. Shows(t, p) /\ eligibility' = [eligibility EXCEPT ![t] = "idle"]
  BY DEF Eligible
<1> HIDE DEF p
<1>4. /\ \A s \in Tabs : booth'[s] = IF s = t THEN p ELSE booth[s]
      /\ \A s \in Tabs : eligibility'[s] = IF s = t THEN "idle" ELSE eligibility[s]
  BY <1>3 DEF Shows, BoothInv, BoothTypeOK
<1>5. BoothTypeOK'
  BY <1>2, <1>3 DEF Shows, BoothInv, BoothTypeOK, recording
<1>6. ASSUME NEW s \in Tabs PROVE Remembers(s)'
  BY <1>2, <1>4 DEF BoothInv, Remembers, VoteTaken, recording
<1>7. Chosen'
  BY DEF BoothInv, Chosen
<1> QED
  BY <1>5, <1>6, <1>7 DEF BoothInv

(* Opening, leaving and the two queries of the eligibility.                *)
LEMMA LoadStep ==
  ASSUME BoothInv, NEW t \in Tabs,
         \/ Open(t) \/ Leave(t) \/ NotEligible(t) \/ CheckLock(t) \/ CheckParticipation(t)
  PROVE  BoothInv'
<1>1. CASE Open(t)
  <2>1. /\ Closed \in Page /\ [Closed EXCEPT !.load = "eligibility"] \in Page
        /\ [Closed EXCEPT !.load = "eligibility"].load = "eligibility"
    BY DEF Closed, Page
  <2>2. BoothTypeOK'
    BY <1>1, <2>1 DEF Open, Shows, BoothInv, BoothTypeOK, recording, VoteTaken
  <2>3. ASSUME NEW s \in Tabs PROVE Remembers(s)'
    <3>1. /\ booth'[s] = IF s = t THEN [Closed EXCEPT !.load = "eligibility"] ELSE booth[s]
          /\ eligibility'[s] = IF s = t THEN "lock" ELSE eligibility[s]
          /\ taken'[s] = IF s = t THEN VoteTaken ELSE taken[s]
      BY <1>1 DEF Open, Shows, BoothInv, BoothTypeOK
    <3>2. VoteTaken' = VoteTaken /\ counted' = counted
      BY <1>1 DEF Open, recording, VoteTaken
    <3> QED
      BY <2>1, <3>1, <3>2 DEF BoothInv, Remembers
  <2>4. Chosen'
    BY <1>1 DEF Open, BoothInv, Chosen
  <2> QED
    BY <2>2, <2>3, <2>4 DEF BoothInv
<1>2. CASE Leave(t)
  <2>1. Closed \in Page /\ Closed.load = "gone"
    BY DEF Closed, Page
  <2>2. BoothTypeOK'
    BY <1>2, <2>1 DEF Leave, Shows, BoothInv, BoothTypeOK, recording
  <2>3. ASSUME NEW s \in Tabs PROVE Remembers(s)'
    <3>1. /\ booth'[s] = IF s = t THEN Closed ELSE booth[s]
          /\ eligibility'[s] = IF s = t THEN "idle" ELSE eligibility[s]
          /\ taken'[s] = taken[s]
      BY <1>2 DEF Leave, Shows, BoothInv, BoothTypeOK
    <3>2. VoteTaken' = VoteTaken /\ counted' = counted
      BY <1>2 DEF Leave, recording, VoteTaken
    <3> QED
      BY <2>1, <3>1, <3>2 DEF BoothInv, Remembers
  <2>4. Chosen'
    BY <1>2 DEF Leave, BoothInv, Chosen
  <2> QED
    BY <2>2, <2>3, <2>4 DEF BoothInv
<1>3. CASE NotEligible(t)
  BY <1>3, EligibleStep DEF NotEligible
<1>4. CASE CheckLock(t) /\ attempt = "pending"
  BY <1>4, EligibleStep DEF CheckLock
<1>5. CASE CheckLock(t) /\ attempt # "pending"
  <2>1. /\ eligibility[t] = "lock" /\ eligibility' = [eligibility EXCEPT ![t] = "participation"]
        /\ UNCHANGED <<booth, post, recording, taken, loads>>
    BY <1>5 DEF CheckLock
  <2>2. BoothTypeOK' /\ Chosen'
    BY <2>1 DEF BoothInv, BoothTypeOK, Chosen, recording
  <2>3. ASSUME NEW s \in Tabs PROVE Remembers(s)'
    BY <1>5, <2>1 DEF BoothInv, BoothTypeOK, Remembers, VoteTaken, recording
  <2> QED
    BY <2>2, <2>3 DEF BoothInv
<1>6. CASE CheckParticipation(t)
  <2>1. taken[t] => counted # None
    BY <1>6 DEF CheckParticipation, BoothInv, Remembers
  <2> QED
    BY <1>6, <2>1, EligibleStep DEF CheckParticipation
<1> QED
  BY <1>1, <1>2, <1>3, <1>4, <1>5, <1>6

(* The paper, the dialog and the answers.                                  *)
LEMMA PaperStep ==
  ASSUME BoothInv, NEW t \in Tabs,
         \/ LoadElection(t) \/ AskToConfirm(t) \/ CancelVote(t)
         \/ \E c \in Candidates : Select(t, c)
         \/ TryAgain(t) \/ TimerFires(t) \/ Success(t) \/ Conflict(t) \/ VoteError(t) \/ ClientTimeout(t)
  PROVE  BoothInv'
<1>1. booth[t] \in Page
  BY DEF BoothInv, BoothTypeOK
<1>2. SUFFICES ASSUME NEW p \in Page, Shows(t, p),
                      UNCHANGED <<eligibility, post, recording, taken, loads>>,
                      \/ p.load = booth[t].load
                      \/ booth[t].load = "election" /\ p.load = "done",
                      booth[t].already => p.already, booth[t].barred => p.barred
               PROVE  BoothInv'
  <2> USE <1>1 DEF Page
  <2>1. CASE LoadElection(t)
    <3>1. PICK ok \in BOOLEAN : Shows(t, [booth[t] EXCEPT !.load = "done", !.listed = ok])
      BY <2>1 DEF LoadElection
    <3> QED
      BY <1>2, <2>1, <3>1 DEF LoadElection
  <2>2. CASE AskToConfirm(t) \/ CancelVote(t)
    BY <1>2, <2>2 DEF AskToConfirm, CancelVote
  <2>3. CASE \E c \in Candidates : Select(t, c)
    BY <1>2, <2>3 DEF Select
  <2>4. CASE TryAgain(t)
    BY <1>2, <2>4 DEF TryAgain
  <2>5. CASE TimerFires(t)
    BY <1>2, <2>5 DEF TimerFires
  <2>6. PICK a : a = Answered(t)
    OBVIOUS
  <2>7. /\ a \in Page /\ a.load = booth[t].load
        /\ a.already = booth[t].already /\ a.barred = booth[t].barred
    BY <2>6 DEF Answered
  <2>8. CASE Success(t)
    <3>1. PICK r \in {"confirmed", "pending"} :
             Shows(t, [a EXCEPT !.status = "success", !.selected = None, !.receipt = ReceiptOf(r)])
      BY <2>6, <2>8 DEF Success
    <3>2. ReceiptOf(r) \in {"none", "pending", "chain"}
      BY DEF ReceiptOf
    <3> HIDE DEF ReceiptOf
    <3> DEFINE p == [a EXCEPT !.status = "success", !.selected = None, !.receipt = ReceiptOf(r)]
    <3>3. p \in Page /\ p.load = a.load /\ p.already = a.already /\ p.barred = a.barred
      <4>1. a \in Page
        BY <2>7
      <4>2. p \in Page
        BY ONLY <3>2, <4>1 DEF Page
      <4>3. p.load = a.load /\ p.already = a.already /\ p.barred = a.barred
        BY ONLY <4>1 DEF Page
      <4> QED
        BY <4>2, <4>3
    <3> HIDE DEF p
    <3>4. Shows(t, p) /\ UNCHANGED <<eligibility, post, recording, taken, loads>>
      BY <2>8, <3>1 DEF Success, p
    <3> QED
      BY <1>2, <2>7, <3>3, <3>4
  <2>9. CASE Conflict(t)
    <3> DEFINE p == [a EXCEPT !.already = TRUE, !.status = "null", !.voteError = "none",
                              !.confirm = FALSE]
    <3>1. p \in Page /\ p.load = a.load /\ p.already /\ p.barred = a.barred
      <4>1. a \in Page
        BY <2>7
      <4>2. p \in Page
        BY ONLY <4>1 DEF Page
      <4>3. p.load = a.load /\ p.already /\ p.barred = a.barred
        BY ONLY <4>1 DEF Page
      <4> QED
        BY <4>2, <4>3
    <3> HIDE DEF p
    <3>2. Shows(t, p) /\ UNCHANGED <<eligibility, post, recording, taken, loads>>
      BY <2>6, <2>9 DEF Conflict, p
    <3> QED
      BY <1>2, <2>7, <3>1, <3>2
  <2>10. CASE VoteError(t)
    <3>1. PICK r \in {"notOnChain", "notConfigured", "error"} :
             Shows(t, [a EXCEPT !.status = "error", !.voteError = ErrorOf(r)])
      BY <2>6, <2>10 DEF VoteError
    <3>2. ErrorOf(r) \in {"none", "unavailable", "sync", "unknown"}
      BY DEF ErrorOf
    <3> HIDE DEF ErrorOf
    <3> DEFINE p == [a EXCEPT !.status = "error", !.voteError = ErrorOf(r)]
    <3>3. p \in Page /\ p.load = a.load /\ p.already = a.already /\ p.barred = a.barred
      <4>1. a \in Page
        BY <2>7
      <4>2. p \in Page
        BY ONLY <3>2, <4>1 DEF Page
      <4>3. p.load = a.load /\ p.already = a.already /\ p.barred = a.barred
        BY ONLY <4>1 DEF Page
      <4> QED
        BY <4>2, <4>3
    <3> HIDE DEF p
    <3>4. Shows(t, p) /\ UNCHANGED <<eligibility, post, recording, taken, loads>>
      BY <2>10, <3>1 DEF VoteError, p
    <3> QED
      BY <1>2, <2>7, <3>3, <3>4
  <2>11. CASE ClientTimeout(t)
    <3> DEFINE p == [a EXCEPT !.status = "error", !.voteError = "unknown"]
    <3>1. p \in Page /\ p.load = a.load /\ p.already = a.already /\ p.barred = a.barred
      <4>1. a \in Page
        BY <2>7
      <4>2. p \in Page
        BY ONLY <4>1 DEF Page
      <4>3. p.load = a.load /\ p.already = a.already /\ p.barred = a.barred
        BY ONLY <4>1 DEF Page
      <4> QED
        BY <4>2, <4>3
    <3> HIDE DEF p
    <3>2. Shows(t, p) /\ UNCHANGED <<eligibility, post, recording, taken, loads>>
      BY <2>6, <2>11 DEF ClientTimeout, p
    <3> QED
      BY <1>2, <2>7, <3>1, <3>2
  <2> QED
    BY <2>1, <2>2, <2>3, <2>4, <2>5, <2>8, <2>9, <2>10, <2>11
<1>3. Chosen'
  BY <1>2 DEF BoothInv, Chosen
<1>4. eligibility[t] # "idle" => p.load = "eligibility"
  BY <1>2 DEF BoothInv, Remembers
<1> QED
  BY <1>2, <1>3, <1>4, PageChanges DEF BoothInv, BoothTypeOK

LEMMA HandleVoteStep ==
  ASSUME BoothInv, NEW t \in Tabs, NEW p \in Posts, ConfirmVote(t, p) \/ Retry(t, p)
  PROVE  BoothInv'
<1> DEFINE page == [booth[t] EXCEPT !.confirm = FALSE, !.status = "sending",
                                    !.voteError = "none", !.request = p, !.timer = TRUE]
           posted == [at |-> "sent", choice |-> booth[t].selected, reply |-> "error"]
<1>1. booth[t] \in Page /\ booth[t].selected \in Candidates /\ booth[t].load = "done"
  BY BoothAssumption DEF ConfirmVote, Retry, HandleVote, Offered, BoothInv, BoothTypeOK, Page
<1>2. page \in Page /\ page.load = booth[t].load /\ page.already = booth[t].already
  BY <1>1 DEF Page
<1>3. page.barred = booth[t].barred
  BY <1>1 DEF Page
<1>4. /\ Shows(t, page) /\ post' = [post EXCEPT ![p] = posted]
      /\ UNCHANGED <<eligibility, recording, taken, loads>>
  BY DEF ConfirmVote, Retry, HandleVote
<1> HIDE DEF page
<1>5. posted \in [at : {"new", "sent", "checked", "locked", "replied"},
                choice : Candidates \cup {None}, reply : Replies] /\ posted.choice \in Candidates
  BY <1>1 DEF Replies
<1> HIDE DEF posted
<1>6. /\ post' \in [Posts -> [at : {"new", "sent", "checked", "locked", "replied"},
                              choice : Candidates \cup {None}, reply : Replies]]
      /\ Chosen'
  BY <1>4, <1>5 DEF BoothInv, BoothTypeOK, Chosen
<1>7. eligibility[t] = "idle"
  BY <1>1 DEF BoothInv, Remembers
<1> QED
  BY <1>1, <1>2, <1>3, <1>4, <1>6, <1>7, PageChanges

(* POST /register-vote, the chain and the job.                             *)
LEMMA PostMoves ==
  ASSUME BoothInv, NEW p \in Posts, NEW at \in {"sent", "checked", "locked", "replied"},
         NEW reply \in Replies, post[p].at # "new",
         post' = [post EXCEPT ![p].at = at, ![p].reply = reply]
  PROVE  /\ post' \in [Posts -> [at : {"new", "sent", "checked", "locked", "replied"},
                                 choice : Candidates \cup {None}, reply : Replies]]
         /\ Chosen'
BY ZenonT(40) DEF BoothInv, BoothTypeOK, Chosen

LEMMA RecordingStep ==
  ASSUME BoothInv, NEW p \in Posts, PostStep(p)
  PROVE  BoothInv'
<1>1. post[p].at # "new" => post[p].choice \in Candidates
  BY DEF BoothInv, Chosen
<1>2. post[p].at # "new"
  BY DEF PostStep, Refuse, CheckTaken, TakeLock, Confirmed, Slow, CastFails, NotConfigured
<1>3. /\ post' \in [Posts -> [at : {"new", "sent", "checked", "locked", "replied"},
                              choice : Candidates \cup {None}, reply : Replies]]
      /\ Chosen'
  <2>1. CASE Refuse(p) \/ CheckTaken(p) \/ TakeLock(p)
    BY <1>2, <2>1 DEF Refuse, CheckTaken, TakeLock, Reply, BoothInv, BoothTypeOK, Chosen, Replies
  <2>2. CASE Confirmed(p) \/ Slow(p) \/ CastFails(p) \/ NotConfigured(p)
    BY <1>2, <2>2 DEF Confirmed, Slow, CastFails, NotConfigured, Reply, BoothInv, BoothTypeOK, Chosen, Replies
  <2> QED
    BY <2>1, <2>2 DEF PostStep
<1>4. CASE Refuse(p) \/ CheckTaken(p) \/ NotConfigured(p)
  <2>1. UNCHANGED <<pages, recording, taken, loads>>
    BY <1>4 DEF Refuse, CheckTaken, NotConfigured
  <2>2. BoothTypeOK' /\ \A t \in Tabs : taken[t] => VoteTaken'
    BY <1>3, <2>1 DEF BoothInv, BoothTypeOK, Remembers, VoteTaken, pages, recording
  <2> QED
    BY <1>3, <2>1, <2>2, RecordingMoves DEF recording
<1>5. CASE TakeLock(p)
  <2>1. /\ UNCHANGED <<pages, mempool, cast, counted, taken, loads>>
        /\ attempt' = "pending"
    BY <1>5 DEF TakeLock
  <2>2. BoothTypeOK'
    BY <1>3, <2>1 DEF BoothInv, BoothTypeOK, pages
  <2> QED
    BY <1>3, <2>1, <2>2, RecordingMoves DEF VoteTaken
<1>6. CASE Confirmed(p)
  <2>1. /\ UNCHANGED <<pages, mempool, taken, loads>> /\ cast' \in Candidates
        /\ (counted' = cast' /\ attempt' = "none") \/ (UNCHANGED <<counted, attempt>>)
    BY <1>1, <1>2, <1>6 DEF Confirmed
  <2>2. BoothTypeOK' /\ (counted # None => counted' # None)
    BY <1>3, <2>1, BoothAssumption DEF BoothInv, BoothTypeOK, pages
  <2>3. \A t \in Tabs : taken[t] => VoteTaken'
    BY <2>1, BoothAssumption DEF BoothInv, Remembers, VoteTaken
  <2> QED
    BY <1>3, <2>1, <2>2, <2>3, RecordingMoves
<1>7. CASE Slow(p)
  <2>1. UNCHANGED <<pages, attempt, cast, counted, taken, loads>> /\ mempool' \subseteq Candidates
    BY <1>1, <1>2, <1>7 DEF Slow, BoothInv, BoothTypeOK
  <2>2. BoothTypeOK' /\ \A t \in Tabs : taken[t] => VoteTaken'
    BY <1>3, <2>1 DEF BoothInv, BoothTypeOK, Remembers, VoteTaken, pages
  <2> QED
    BY <1>3, <2>1, <2>2, RecordingMoves
<1>8. CASE CastFails(p)
  <2>1. /\ UNCHANGED <<pages, cast, counted, loads>> /\ mempool' \subseteq Candidates
        /\ attempt' = "failed" /\ taken' = [t \in Tabs |-> taken[t] /\ counted # None]
    BY <1>1, <1>2, <1>8 DEF CastFails, Fail, BoothInv, BoothTypeOK
  <2>2. BoothTypeOK'
    BY <1>3, <2>1 DEF BoothInv, BoothTypeOK, pages
  <2> QED
    BY <1>3, <2>1, <2>2, RecordingMoves DEF VoteTaken
<1> QED
  BY <1>4, <1>5, <1>6, <1>7, <1>8 DEF PostStep

LEMMA ChainStep ==
  ASSUME BoothInv, Mine \/ DropTx \/ Reconcile
  PROVE  BoothInv'
<1>1. Chosen' /\ UNCHANGED <<pages, post, loads>>
  BY DEF Mine, DropTx, Reconcile, BoothInv, Chosen
<1>2. CASE Mine \/ DropTx
  <2>1. /\ UNCHANGED <<attempt, counted, taken>> /\ mempool' \subseteq Candidates
        /\ cast' \in Candidates \cup {None}
    BY <1>2 DEF Mine, DropTx, BoothInv, BoothTypeOK
  <2>2. BoothTypeOK' /\ \A t \in Tabs : taken[t] => VoteTaken'
    BY <1>1, <2>1 DEF BoothInv, BoothTypeOK, Remembers, VoteTaken, pages
  <2> QED
    BY <1>1, <2>1, <2>2, RecordingMoves
<1>3. CASE Reconcile /\ cast # None /\ counted' = cast /\ attempt' = "none" /\ UNCHANGED taken
  <2>1. UNCHANGED <<mempool, cast>>
    BY <1>3 DEF Reconcile
  <2>2. BoothTypeOK'
    BY <1>1, <1>3, <2>1 DEF BoothInv, BoothTypeOK, pages
  <2> QED
    BY <1>1, <1>3, <2>2, RecordingMoves DEF VoteTaken
<1>4. CASE Reconcile /\ Fail /\ UNCHANGED counted
  <2>1. /\ UNCHANGED <<mempool, cast>>
        /\ attempt' = "failed" /\ taken' = [t \in Tabs |-> taken[t] /\ counted # None]
    BY <1>4 DEF Reconcile, Fail
  <2>2. BoothTypeOK'
    BY <1>1, <1>4, <2>1 DEF BoothInv, BoothTypeOK, pages
  <2> QED
    BY <1>1, <1>4, <2>1, <2>2, RecordingMoves DEF VoteTaken
<1> QED
  BY <1>2, <1>3, <1>4 DEF Reconcile

(* A booth that is opened after the vote of the voter was taken, by        *)
(* whatever request of whatever tab, offers no ballot, unless the attempt  *)
(* failed: GET /eligibility asks first for the attempt and then for the    *)
(* participation, and a vote only moves from the first to the second.      *)
THEOREM NoBallotTwice == BoothSpec => []BallotNotOfferedAgain
<1>1. BoothInit => BoothInv
  <2> SUFFICES ASSUME BoothInit PROVE BoothInv
    OBVIOUS
  <2>1. Closed \in Page /\ Closed.load = "gone"
    BY DEF Closed, Page
  <2>2. BoothTypeOK
    BY <2>1 DEF BoothInit, BoothTypeOK, Replies
  <2> QED
    BY <2>1, <2>2 DEF BoothInit, BoothInv, Chosen, Remembers
<1>2. BoothInv /\ [BoothNext]_boothVars => BoothInv'
  <2> SUFFICES ASSUME BoothInv, [BoothNext]_boothVars PROVE BoothInv'
    OBVIOUS
  <2>1. ASSUME NEW t \in Tabs, TabStep(t) PROVE BoothInv'
    BY <2>1, LoadStep, PaperStep, HandleVoteStep DEF TabStep
  <2>2. CASE UNCHANGED boothVars
    BY <2>2 DEF boothVars, pages, recording, BoothInv, BoothTypeOK, Chosen, Remembers, VoteTaken
  <2> QED
    BY <2>1, <2>2, RecordingStep, ChainStep DEF BoothNext
<1>3. BoothInv => BallotNotOfferedAgain
  BY DEF BoothInv, Remembers, BallotNotOfferedAgain, Offered
<1> QED
  BY <1>1, <1>2, <1>3, PTL DEF BoothSpec

-------------------------------------------------------------------------------
(* Results: ElectionResults.jsx, and the requests it sends.                *)

ResultsSpec == ResultsInit /\ [][ResultsNext]_resultsVars

ResultReply   == [status : {"none", "pending", "active", "closed"}, hidden : BOOLEAN,
            votes : [Options -> Nat], estado : Estados \cup {"none"}, demo : Nat]
Request == [at : {"idle", "election", "displayed", "sources", "inChain", "tally", "reply"},
            first : BOOLEAN, got : ResultReply, inChain : [Options -> Nat]]
Screen  == [open : BOOLEAN, loading : BOOLEAN, error : BOOLEAN, results : ResultReply,
            tab : {"results", "audit"}, audit : BOOLEAN]

(* The row of an account whose vote goes to the chain is what the contract *)
(* has of it.                                                              *)
BallotsOK ==
    /\ asked \in [Everyone -> SUBSET Options]
    /\ sent \in [Everyone -> Options \cup {NoOption}]
    /\ chain \in [Everyone -> Options \cup {NoOption}]
    /\ audit \in [Everyone -> Options \cup {NoOption}]
    /\ \A v \in Electors : audit[v] \in {NoOption, chain[v]}

InChainFor(c) == {v \in Electors : chain[v] = c}
DemoFor(c)    == {v \in DemoElectors : audit[v] = c}

(* Who may see a reply with figures, and the votes behind them.            *)
Public(r) == viewer = "anyone" /\ ~r.hidden => TallyPublic
Backed(r) == r.demo = 0 => \A c \in Options : r.votes[c] <= Cardinality(InChainFor(c))

QueryOK ==
    /\ query \in Request /\ Public(query.got)
    /\ query.at = "sources" => \A c \in Options :
          query.got.votes[c] <= Cardinality(InChainFor(c)) + Cardinality(DemoFor(c))
    /\ query.at \in {"inChain", "tally", "reply"} => Backed(query.got)

ViewOK == view \in Screen /\ Public(view.results) /\ Backed(view.results)

SeenOK == now \in Nat /\ (seen => TallyPublic)

ResultsInv == BallotsOK /\ QueryOK /\ ViewOK /\ SeenOK

LEMMA FiniteTallies ==
  ASSUME NEW c
  PROVE  /\ IsFiniteSet(InChainFor(c)) /\ Cardinality(InChainFor(c)) \in Nat
         /\ IsFiniteSet(DemoFor(c)) /\ Cardinality(DemoFor(c)) \in Nat
<1>1. InChainFor(c) \subseteq Electors /\ DemoFor(c) \subseteq DemoElectors
  BY DEF InChainFor, DemoFor
<1>2. IsFiniteSet(Electors) /\ IsFiniteSet(DemoElectors)
  BY ResultsAssumption
<1>3. IsFiniteSet(InChainFor(c)) /\ IsFiniteSet(DemoFor(c))
  BY <1>1, <1>2, FS_Subset
<1> QED
  BY <1>3, FS_CardinalityType

LEMMA UnknownReply == Unknown \in ResultReply /\ Unknown.hidden /\ Unknown.votes = [c \in Options |-> 0]
BY DEF Unknown, ResultReply, Estados

LEMMA NoVotesBacked == ASSUME NEW r, r.votes = [c \in Options |-> 0] PROVE Backed(r)
BY FiniteTallies DEF Backed

(* Votes are added and never taken away, so what was backed stays so.      *)
LEMMA BallotStep ==
  ASSUME ResultsInv,
         \/ \E v \in Everyone, c \in Options : Accept(v, c) \/ Broadcast(v, c) \/ RecordDemo(v, c)
         \/ \E v \in Everyone : Block(v) \/ Record(v)
  PROVE  ResultsInv'
<1> USE ResultsAssumption
<1>1. UNCHANGED <<now, viewer, query, view, seen>>
  BY DEF Accept, Broadcast, RecordDemo, Block, Record, term
<1>2. /\ BallotsOK'
      /\ \A v \in Electors : chain[v] # NoOption => chain'[v] = chain[v]
      /\ \A v \in DemoElectors : audit[v] # NoOption => audit'[v] = audit[v]
  <2>1. ASSUME NEW v \in Everyone, NEW c \in Options, Accept(v, c)
        PROVE  BallotsOK' /\ chain' = chain /\ audit' = audit
    BY <2>1 DEF Accept, ResultsInv, BallotsOK
  <2>2. ASSUME NEW v \in Everyone, NEW c \in Options, Broadcast(v, c)
        PROVE  BallotsOK' /\ chain' = chain /\ audit' = audit
    <3>1. /\ asked' = [asked EXCEPT ![v] = @ \ {c}] /\ UNCHANGED <<chain, audit>>
          /\ sent' = sent \/ sent' = [sent EXCEPT ![v] = c]
      BY <2>2 DEF Broadcast, GoesOn
    <3> QED
      BY <3>1 DEF ResultsInv, BallotsOK
  <2>3. ASSUME NEW v \in Everyone, NEW c \in Options, RecordDemo(v, c)
        PROVE  /\ BallotsOK' /\ chain' = chain
               /\ \A d \in DemoElectors : audit[d] # NoOption => audit'[d] = audit[d]
    <3>1. /\ asked' = [asked EXCEPT ![v] = @ \ {c}] /\ UNCHANGED <<sent, chain>>
          /\ v \in DemoElectors
          /\ audit' = IF Participated(v) THEN audit ELSE [audit EXCEPT ![v] = c]
      BY <2>3 DEF RecordDemo, GoesOn
    <3>2. CASE Participated(v)
      BY <3>1, <3>2 DEF ResultsInv, BallotsOK
    <3>3. CASE ~Participated(v)
      <4>1. audit[v] = NoOption /\ audit' = [audit EXCEPT ![v] = c]
        BY <3>1, <3>3 DEF Participated
      <4>2. audit' \in [Everyone -> Options \cup {NoOption}]
        BY <4>1 DEF ResultsInv, BallotsOK
      <4>3. \A d \in Everyone : d # v => audit'[d] = audit[d]
        BY <4>1 DEF ResultsInv, BallotsOK
      <4>4. asked' \in [Everyone -> SUBSET Options]
        BY <3>1 DEF ResultsInv, BallotsOK
      <4> QED
        BY <3>1, <4>1, <4>2, <4>3, <4>4 DEF ResultsInv, BallotsOK, Everyone
    <3> QED
      BY <3>2, <3>3
  <2>4. ASSUME NEW v \in Everyone, Block(v)
        PROVE  /\ BallotsOK' /\ audit' = audit
               /\ \A d \in Electors : chain[d] # NoOption => chain'[d] = chain[d]
    <3>1. /\ v \in Electors /\ chain[v] = NoOption /\ UNCHANGED <<asked, audit>>
          /\ chain' = chain \/ chain' = [chain EXCEPT ![v] = sent[v]]
          /\ sent' = sent \/ sent' = [sent EXCEPT ![v] = NoOption]
      BY <2>4 DEF Block
    <3>2. \A d \in Everyone : d # v => chain'[d] = chain[d]
      BY <3>1 DEF ResultsInv, BallotsOK
    <3>3. audit[v] = NoOption
      BY <3>1 DEF ResultsInv, BallotsOK
    <3>4. /\ sent' \in [Everyone -> Options \cup {NoOption}]
          /\ chain' \in [Everyone -> Options \cup {NoOption}]
      BY <3>1 DEF ResultsInv, BallotsOK
    <3> QED
      BY <3>1, <3>2, <3>3, <3>4 DEF ResultsInv, BallotsOK, Everyone
  <2>5. ASSUME NEW v \in Everyone, Record(v)
        PROVE  /\ BallotsOK' /\ chain' = chain
               /\ \A d \in DemoElectors : audit'[d] = audit[d]
    <3>1. v \in Electors /\ audit' = [audit EXCEPT ![v] = chain[v]] /\ UNCHANGED <<asked, sent, chain>>
      BY <2>5 DEF Record
    <3>2. /\ audit' \in [Everyone -> Options \cup {NoOption}] /\ audit'[v] = chain[v]
          /\ \A d \in Everyone : d # v => audit'[d] = audit[d]
      BY <3>1 DEF ResultsInv, BallotsOK
    <3> QED
      BY <3>1, <3>2 DEF ResultsInv, BallotsOK, Everyone
  <2> QED
    BY <2>1, <2>2, <2>3, <2>4, <2>5
<1>3. ASSUME NEW c \in Options
      PROVE  /\ Cardinality(InChainFor(c)) <= Cardinality(InChainFor(c)')
             /\ Cardinality(DemoFor(c)) <= Cardinality(DemoFor(c)')
             /\ Cardinality(InChainFor(c)) \in Nat /\ Cardinality(InChainFor(c)') \in Nat
             /\ Cardinality(DemoFor(c)) \in Nat /\ Cardinality(DemoFor(c)') \in Nat
  <2>1. InChainFor(c) \subseteq InChainFor(c)' /\ DemoFor(c) \subseteq DemoFor(c)'
    BY <1>2 DEF InChainFor, DemoFor
  <2>2. InChainFor(c)' \subseteq Electors /\ DemoFor(c)' \subseteq DemoElectors
    BY DEF InChainFor, DemoFor
  <2>3. IsFiniteSet(InChainFor(c)') /\ IsFiniteSet(DemoFor(c)')
    BY <2>2, FS_Subset
  <2> QED
    BY <2>1, <2>3, FS_Subset, FS_CardinalityType
<1>4. ASSUME NEW r \in ResultReply, Backed(r)
      PROVE  r.demo = 0 => \A c \in Options : r.votes[c] <= Cardinality(InChainFor(c)')
  <2>1. \A c \in Options : r.votes[c] \in Nat
    BY DEF ResultReply
  <2> QED
    BY <1>3, <1>4, <2>1 DEF Backed
<1>5. view.results \in ResultReply /\ query.got \in ResultReply
  BY DEF ResultsInv, ViewOK, QueryOK, Screen, Request
<1>6. ViewOK'
  BY <1>1, <1>4, <1>5 DEF ResultsInv, ViewOK, Public, Backed, TallyPublic
<1>7. query.at = "sources" => \A c \in Options :
         query.got.votes[c] <= Cardinality(InChainFor(c)') + Cardinality(DemoFor(c)')
  <2>1. \A c \in Options : query.got.votes[c] \in Nat
    BY <1>5 DEF ResultReply
  <2> QED
    BY <1>3, <2>1 DEF ResultsInv, QueryOK
<1>8. query.at \in {"inChain", "tally", "reply"} => Backed(query.got)'
  BY <1>1, <1>4, <1>5 DEF ResultsInv, QueryOK, Backed
<1>9. QueryOK'
  BY <1>1, <1>7, <1>8 DEF ResultsInv, QueryOK, Public, TallyPublic
<1> QED
  BY <1>1, <1>2, <1>6, <1>9 DEF ResultsInv, SeenOK, TallyPublic

LEMMA TermStep ==
  ASSUME ResultsInv, Clock \/ ToggleActive \/ UNCHANGED resultsVars
  PROVE  ResultsInv'
<1>1. /\ UNCHANGED <<viewer, asked, sent, chain, audit, query, view, seen>>
      /\ now' \in Nat /\ (TallyPublic => TallyPublic')
  BY DEF Clock, ToggleActive, resultsVars, term, ballots, ResultsInv, SeenOK, TallyPublic, end_time
<1>2. BallotsOK'
  BY <1>1 DEF ResultsInv, BallotsOK
<1>3. QueryOK'
  BY <1>1 DEF ResultsInv, QueryOK, Public, Backed, InChainFor, DemoFor
<1>4. ViewOK'
  BY <1>1 DEF ResultsInv, ViewOK, Public, Backed, InChainFor
<1> QED
  BY <1>1, <1>2, <1>3, <1>4 DEF ResultsInv, SeenOK

(* The server counts: each query is of what is there when it is made.      *)
LEMMA ReadStep ==
  ASSUME ResultsInv, NEW at \in {"election", "displayed", "sources", "inChain"}, query.at = at,
         NEW r \in ResultReply, NEW rows \in [Options -> Nat],
         query' = [query EXCEPT !.at = NextRead(at), !.got = r, !.inChain = rows],
         UNCHANGED <<term, ballots, view, seen>>,
         Public(r),
         at = "displayed" => \A c \in Options :
             r.votes[c] <= Cardinality(InChainFor(c)) + Cardinality(DemoFor(c)),
         at \in {"sources", "inChain"} => Backed(r)
  PROVE  ResultsInv'
<1>1. query \in Request
  BY DEF ResultsInv, QueryOK
<1>2. /\ NextRead(at) \in {"displayed", "sources", "inChain", "tally", "reply"}
      /\ at = "election" => NextRead(at) = "displayed"
      /\ at = "displayed" => NextRead(at) = "sources"
      /\ at \in {"sources", "inChain"} => NextRead(at) \in {"inChain", "tally", "reply"}
  BY DEF NextRead
<1>3. query' \in Request /\ query'.at = NextRead(at) /\ query'.got = r
  BY <1>1, <1>2 DEF Request
<1>4. /\ BallotsOK' /\ ViewOK' /\ SeenOK' /\ Public(r)'
      /\ \A c \in Options : InChainFor(c)' = InChainFor(c) /\ DemoFor(c)' = DemoFor(c)
  BY DEF ResultsInv, BallotsOK, ViewOK, SeenOK, Public, Backed, TallyPublic, InChainFor, DemoFor,
         term, ballots
<1>5. QueryOK'
  BY <1>2, <1>3, <1>4 DEF QueryOK, Backed, Public
<1> QED
  BY <1>4, <1>5 DEF ResultsInv

LEMMA FiniteTally ==
  ASSUME NEW rows, NEW who \in {Electors, DemoElectors, Everyone}
  PROVE  Tally(rows, who) \in [Options -> Nat]
<1>1. IsFiniteSet(Electors) /\ IsFiniteSet(DemoElectors)
  BY ResultsAssumption
<1>2. IsFiniteSet(Everyone)
  BY <1>1, FS_Union DEF Everyone
<1>3. IsFiniteSet(who)
  BY <1>1, <1>2
<1>4. ASSUME NEW c \in Options PROVE Cardinality({v \in who : rows[v] = c}) \in Nat
  <2>1. {v \in who : rows[v] = c} \in SUBSET who
    OBVIOUS
  <2>2. IsFiniteSet({v \in who : rows[v] = c})
    BY <1>3, <2>1, FS_Subset
  <2> QED
    BY <2>2, FS_CardinalityType
<1> QED
  BY <1>4 DEF Tally

LEMMA HandlingStep ==
  ASSUME ResultsInv, Handling
  PROVE  ResultsInv'
<1> USE ResultsAssumption
<1>1. query \in Request /\ query.got \in ResultReply /\ query.inChain \in [Options -> Nat]
  BY DEF ResultsInv, QueryOK, Request
<1>2. Public(query.got)
  BY DEF ResultsInv, QueryOK
<1>3. CASE ReadElection
  <2>1. PICK status : status = Status
    OBVIOUS
  <2>2. PICK hidden \in BOOLEAN : hidden = ~(TallyPublic \/ viewer = "admin")
    OBVIOUS
  <2>3. PICK r : r = [Unknown EXCEPT !.status = status, !.hidden = hidden, !.estado = "no-aplica"]
    OBVIOUS
  <2>4. status \in {"none", "pending", "active", "closed"}
    BY <2>1 DEF Status
  <2>5. r \in ResultReply /\ r.hidden = hidden
    BY <2>3, <2>4, UnknownReply DEF ResultReply, Estados
  <2>6. Public(r)
    BY <2>2, <2>5 DEF Public
  <2>7. /\ query.at = "election"
        /\ query' = [[query EXCEPT !.got = r] EXCEPT !.at = NextRead("election")]
        /\ UNCHANGED <<term, ballots, view, seen>>
    BY <1>3, <2>1, <2>2, <2>3 DEF ReadElection, Reads
  <2>8. query' = [query EXCEPT !.at = NextRead("election"), !.got = r, !.inChain = query.inChain]
    BY <1>1, <2>7 DEF Request
  <2> QED
    BY <1>1, <2>5, <2>6, <2>7, <2>8, ReadStep
<1>4. CASE CountDisplayed
  <2>1. PICK votes : votes = Tally(audit, Everyone)
    OBVIOUS
  <2>2. PICK r : r = [query.got EXCEPT !.votes = votes]
    OBVIOUS
  <2>3. votes \in [Options -> Nat]
    BY <2>1, FiniteTally
  <2>4. r \in ResultReply /\ r.hidden = query.got.hidden /\ r.votes = votes
    BY <1>1, <2>2, <2>3 DEF ResultReply
  <2>5. Public(r)
    BY <1>2, <2>4 DEF Public
  <2>6. ASSUME NEW c \in Options
        PROVE  r.votes[c] <= Cardinality(InChainFor(c)) + Cardinality(DemoFor(c))
    <3>1. PICK S : S = {v \in Everyone : audit[v] = c}
      OBVIOUS
    <3>2. S \subseteq InChainFor(c) \cup DemoFor(c)
      BY <3>1 DEF InChainFor, DemoFor, ResultsInv, BallotsOK, Everyone
    <3>3. InChainFor(c) \cap DemoFor(c) = {}
      BY ResultsAssumption DEF InChainFor, DemoFor
    <3>4. /\ IsFiniteSet(InChainFor(c)) /\ Cardinality(InChainFor(c)) \in Nat
          /\ IsFiniteSet(DemoFor(c)) /\ Cardinality(DemoFor(c)) \in Nat
      BY FiniteTallies
    <3>5. /\ IsFiniteSet(InChainFor(c) \cup DemoFor(c))
          /\ Cardinality(InChainFor(c) \cup DemoFor(c)) =
                Cardinality(InChainFor(c)) + Cardinality(DemoFor(c))
      <4>1. /\ IsFiniteSet(InChainFor(c) \cup DemoFor(c))
            /\ Cardinality(InChainFor(c) \cup DemoFor(c)) =
                  Cardinality(InChainFor(c)) + Cardinality(DemoFor(c))
                  - Cardinality(InChainFor(c) \cap DemoFor(c))
        BY <3>4, FS_Union
      <4>2. Cardinality(InChainFor(c) \cap DemoFor(c)) = 0
        BY <3>3, FS_EmptySet
      <4> QED
        BY <3>4, <4>1, <4>2
    <3>6. Cardinality(S) <= Cardinality(InChainFor(c) \cup DemoFor(c))
      BY <3>2, <3>5, FS_Subset
    <3>7. r.votes[c] = Cardinality(S)
      BY <2>1, <2>4, <3>1 DEF Tally
    <3> QED
      BY <3>5, <3>6, <3>7
  <2>7. /\ query.at = "displayed"
        /\ query' = [[query EXCEPT !.got.votes = votes] EXCEPT !.at = NextRead("displayed")]
        /\ UNCHANGED <<term, ballots, view, seen>>
    BY <1>4, <2>1 DEF CountDisplayed, Reads
  <2>8. query' = [query EXCEPT !.at = NextRead("displayed"), !.got = r, !.inChain = query.inChain]
    BY <1>1, <2>2, <2>7 DEF Request
  <2> QED
    BY <1>1, <2>4, <2>5, <2>6, <2>7, <2>8, ReadStep
<1>5. CASE CountSources
  <2>1. PICK demo : demo = Cardinality({v \in DemoElectors : audit[v] # NoOption})
    OBVIOUS
  <2>2. PICK r : r = [query.got EXCEPT !.demo = demo]
    OBVIOUS
  <2>3. /\ IsFiniteSet({v \in DemoElectors : audit[v] # NoOption})
    <3>1. {v \in DemoElectors : audit[v] # NoOption} \in SUBSET DemoElectors
      OBVIOUS
    <3> QED
      BY <3>1, FS_Subset
  <2>4. demo \in Nat /\ (demo = 0 => {v \in DemoElectors : audit[v] # NoOption} = {})
    BY <2>1, <2>3, FS_CardinalityType, FS_EmptySet
  <2>5. r \in ResultReply /\ r.hidden = query.got.hidden /\ r.votes = query.got.votes /\ r.demo = demo
    BY <1>1, <2>2, <2>4 DEF ResultReply
  <2>6. Public(r)
    BY <1>2, <2>5 DEF Public
  <2>7. /\ query.at = "sources"
        /\ query' = [[query EXCEPT !.got.demo = demo] EXCEPT !.at = NextRead("sources")]
        /\ UNCHANGED <<term, ballots, view, seen>>
    BY <1>5, <2>1 DEF CountSources, Reads
  <2>8. query' = [query EXCEPT !.at = NextRead("sources"), !.got = r, !.inChain = query.inChain]
    BY <1>1, <2>2, <2>7 DEF Request
  <2>9. Backed(r)
    <3> SUFFICES ASSUME r.demo = 0, NEW c \in Options
                 PROVE  r.votes[c] <= Cardinality(InChainFor(c))
      BY DEF Backed
    <3>1. DemoFor(c) = {}
      BY <2>4, <2>5 DEF DemoFor
    <3>2. Cardinality(DemoFor(c)) = 0
      BY <3>1, FS_EmptySet
    <3>3. r.votes[c] <= Cardinality(InChainFor(c)) + Cardinality(DemoFor(c))
      BY <2>5, <2>7 DEF ResultsInv, QueryOK
    <3> QED
      BY <3>2, <3>3, FiniteTallies
  <2> QED
    BY <1>1, <2>5, <2>6, <2>7, <2>8, <2>9, ReadStep
<1>6. CASE CountInChain
  <2>1. PICK rows : rows = Tally(audit, Electors)
    OBVIOUS
  <2>2. rows \in [Options -> Nat]
    BY <2>1, FiniteTally
  <2>3. /\ query.at = "inChain"
        /\ query' = [[query EXCEPT !.inChain = rows] EXCEPT !.at = NextRead("inChain")]
        /\ UNCHANGED <<term, ballots, view, seen>>
    BY <1>6, <2>1 DEF CountInChain, Reads
  <2>4. query' = [query EXCEPT !.at = NextRead("inChain"), !.got = query.got, !.inChain = rows]
    BY <1>1, <2>3 DEF Request
  <2>5. Backed(query.got)
    BY <2>3 DEF ResultsInv, QueryOK
  <2> QED
    BY <1>1, <1>2, <2>2, <2>3, <2>4, <2>5, ReadStep
<1>7. CASE CompareWithChain
  <2>1. PICK estado \in {Verdict, "sin-respuesta"} :
           query' = [query EXCEPT !.at = "reply", !.got.estado = estado]
    BY <1>7 DEF CompareWithChain
  <2>2. estado \in Estados
    BY <2>1 DEF Verdict, Estados
  <2>3. query.at = "tally" /\ UNCHANGED <<term, ballots, view, seen>>
    BY <1>7 DEF CompareWithChain
  <2>4. PICK r : r = [query.got EXCEPT !.estado = estado]
    OBVIOUS
  <2>5. /\ r \in ResultReply /\ r.hidden = query.got.hidden /\ r.votes = query.got.votes
        /\ r.demo = query.got.demo
    BY <1>1, <2>2, <2>4 DEF ResultReply
  <2>6. query' = [query EXCEPT !.at = "reply", !.got = r]
    BY <1>1, <2>1, <2>4 DEF Request
  <2>7. query' \in Request /\ query'.got = r /\ query'.at = "reply"
    BY <1>1, <2>5, <2>6 DEF Request
  <2>8. /\ BallotsOK' /\ ViewOK' /\ SeenOK'
        /\ \A c \in Options : InChainFor(c)' = InChainFor(c)
    BY <2>3 DEF ResultsInv, BallotsOK, ViewOK, SeenOK, Public, Backed, TallyPublic, InChainFor,
                term, ballots
  <2>9. Backed(query.got)
    BY <2>3 DEF ResultsInv, QueryOK
  <2>10. QueryOK'
    BY <1>2, <2>3, <2>5, <2>7, <2>8, <2>9 DEF QueryOK, Public, Backed, TallyPublic, term
  <2> QED
    BY <2>8, <2>10 DEF ResultsInv
<1> QED
  BY <1>3, <1>4, <1>5, <1>6, <1>7 DEF Handling

(* The page: what it shows came from a reply, and a tally only if it was   *)
(* public when the election was read.                                      *)
LEMMA ScreenStep ==
  ASSUME ResultsInv, UNCHANGED <<term, ballots>>,
         NEW r \in ResultReply, view' \in Screen, view'.results = r, Public(r), Backed(r),
         seen' => TallyPublic,
         \/ query' = query
         \/ query' \in Request /\ query'.at \in {"idle", "election"} /\ query'.got = Unknown
  PROVE  ResultsInv'
<1>1. /\ TallyPublic' = TallyPublic /\ now' = now /\ viewer' = viewer
      /\ \A c \in Options : InChainFor(c)' = InChainFor(c) /\ DemoFor(c)' = DemoFor(c)
  BY DEF TallyPublic, InChainFor, DemoFor, term, ballots
<1>2. BallotsOK' /\ SeenOK'
  BY <1>1 DEF ResultsInv, BallotsOK, SeenOK, ballots
<1>3. ViewOK'
  BY <1>1 DEF ViewOK, Public, Backed
<1>4. CASE query' = query
  <2>1. QueryOK'
    BY <1>1, <1>4 DEF ResultsInv, QueryOK, Public, Backed
  <2> QED
    BY <1>2, <1>3, <2>1 DEF ResultsInv
<1>5. CASE query' \in Request /\ query'.at \in {"idle", "election"} /\ query'.got = Unknown
  <2>1. QueryOK'
    BY <1>5, UnknownReply DEF QueryOK, Public
  <2> QED
    BY <1>2, <1>3, <2>1 DEF ResultsInv
<1> QED
  BY <1>4, <1>5

LEMMA NewQueries ==
  /\ NoQuery \in Request /\ NoQuery.at = "idle" /\ NoQuery.got = Unknown
  /\ Ask(TRUE) \/ Ask(FALSE) => query' \in Request /\ query'.at = "election" /\ query'.got = Unknown
<1>1. Unknown.votes \in [Options -> Nat] /\ Unknown \in ResultReply
  BY UnknownReply
<1>2. NoQuery \in Request /\ NoQuery.at = "idle" /\ NoQuery.got = Unknown
  BY <1>1 DEF NoQuery, Request
<1>3. ASSUME NEW first \in BOOLEAN, query' = [NoQuery EXCEPT !.at = "election", !.first = first]
      PROVE  query' \in Request /\ query'.at = "election" /\ query'.got = Unknown
  BY <1>2, <1>3 DEF Request
<1> QED
  BY <1>2, <1>3 DEF Ask

LEMMA UnknownIsFine == Public(Unknown) /\ Backed(Unknown)
BY UnknownReply, NoVotesBacked DEF Public

LEMMA ViewingStep ==
  ASSUME ResultsInv, Viewing
  PROVE  ResultsInv'
<1>1. /\ view \in Screen /\ view.results \in ResultReply /\ Public(view.results) /\ Backed(view.results)
      /\ (seen => TallyPublic) /\ query \in Request
  BY DEF ResultsInv, ViewOK, SeenOK, QueryOK, Screen
<1>2. CASE Visit \/ Reload \/ Quit
  <2>2. Blank \in Screen /\ Blank.results = Unknown
    BY UnknownReply DEF Blank, Screen
  <2>3. view' \in Screen /\ view'.results = Unknown
    <3>1. CASE view' = Blank
      BY <2>2, <3>1
    <3>2. CASE view' = [Blank EXCEPT !.open = TRUE, !.loading = TRUE]
      BY <2>2, <3>2 DEF Screen
    <3> QED
      BY <1>2, <3>1, <3>2 DEF Visit, Reload, Quit
  <2>4. UNCHANGED <<term, ballots, seen>> /\ (query' = NoQuery \/ Ask(TRUE))
    BY <1>2 DEF Visit, Reload, Quit
  <2>5. query' \in Request /\ query'.at \in {"idle", "election"} /\ query'.got = Unknown
    BY <2>4, NewQueries
  <2> QED
    BY <1>1, <2>3, <2>4, <2>5, UnknownReply, UnknownIsFine, ScreenStep
<1>3. CASE FetchResults
  <2>1. PICK r : r = Payload
    OBVIOUS
  <2>2. /\ query.at = "reply" /\ UNCHANGED <<term, ballots>> /\ query' = NoQuery
        /\ view' = [view EXCEPT !.results = Payload, !.error = FALSE, !.loading = @ /\ ~query.first]
        /\ seen' = (seen \/ (Figures(view') /\ viewer = "anyone"))
    BY <1>3 DEF FetchResults, Sees
  <2>3. query.got \in ResultReply /\ Public(query.got) /\ Backed(query.got)
    BY <2>2 DEF ResultsInv, QueryOK, Request
  <2>4. r \in ResultReply /\ Public(r) /\ Backed(r)
    <3>1. CASE ~query.got.hidden
      BY <2>1, <2>3, <3>1 DEF Payload
    <3>2. CASE query.got.hidden
      <4>1. r = [query.got EXCEPT !.votes = Unknown.votes]
        BY <2>1, <3>2 DEF Payload
      <4>2. r \in ResultReply /\ r.hidden /\ r.votes = [c \in Options |-> 0]
        BY <2>3, <3>2, <4>1, UnknownReply DEF ResultReply
      <4> QED
        BY <4>2, NoVotesBacked DEF Public
    <3> QED
      BY <3>1, <3>2
  <2>5. PICK loading \in BOOLEAN : loading = (view.loading /\ ~query.first)
    OBVIOUS
  <2>6. view' = [view EXCEPT !.results = r, !.error = FALSE, !.loading = loading]
    BY <2>1, <2>2, <2>5
  <2>7. view' \in Screen /\ view'.results = r
    BY <1>1, <2>4, <2>6 DEF Screen
  <2>8. seen' => TallyPublic
    BY <1>1, <2>2, <2>4, <2>7 DEF Figures, HasTally, Public
  <2> QED
    BY <2>2, <2>4, <2>7, <2>8, NewQueries, ScreenStep
<1>4. CASE FetchFails
  <2>1. /\ UNCHANGED <<term, ballots, seen>> /\ query' = NoQuery
        /\ view' = [view EXCEPT !.error = TRUE, !.loading = @ /\ ~query.first]
    BY <1>4 DEF FetchFails
  <2>2. PICK loading \in BOOLEAN : loading = (view.loading /\ ~query.first)
    OBVIOUS
  <2>3. view' = [view EXCEPT !.error = TRUE, !.loading = loading]
    BY <2>1, <2>2
  <2>4. view' \in Screen /\ view'.results = view.results
    BY <1>1, <2>3 DEF Screen
  <2> QED
    BY <1>1, <2>1, <2>4, NewQueries, ScreenStep
<1>5. CASE Refresh
  <2>1. UNCHANGED <<term, ballots, view, seen>> /\ Ask(FALSE)
    BY <1>5 DEF Refresh
  <2> QED
    BY <1>1, <2>1, NewQueries, ScreenStep
<1>6. CASE \E chosen \in {"results", "audit"} : SelectTab(chosen)
  <2>1. PICK chosen \in {"results", "audit"} : SelectTab(chosen)
    BY <1>6
  <2>2. /\ UNCHANGED <<term, ballots, query>> /\ view' = [view EXCEPT !.tab = chosen]
        /\ seen' = (seen \/ (Figures(view') /\ viewer = "anyone"))
    BY <2>1 DEF SelectTab, Sees
  <2>3. view' \in Screen /\ view'.results = view.results
    BY <1>1, <2>2 DEF Screen
  <2>4. seen' => TallyPublic
    BY <1>1, <2>2, <2>3 DEF Figures, HasTally, Public
  <2> QED
    BY <1>1, <2>2, <2>3, <2>4, ScreenStep
<1>7. CASE LoadAudit \/ ExportPdf
  <2>1. PICK rows \in BOOLEAN : view' = [view EXCEPT !.audit = rows]
    <3>1. CASE LoadAudit
      <4>1. PICK rows \in BOOLEAN : rows = Rows
        BY DEF Rows
      <4> QED
        BY <3>1, <4>1 DEF LoadAudit
    <3>2. CASE ExportPdf
      <4>1. PICK rows \in BOOLEAN : rows = (view.audit \/ Rows)
        OBVIOUS
      <4> QED
        BY <3>2, <4>1 DEF ExportPdf
    <3> QED
      BY <1>7, <3>1, <3>2
  <2>2. view' \in Screen /\ view'.results = view.results
    BY <1>1, <2>1 DEF Screen
  <2>3. UNCHANGED <<term, ballots, query>>
    BY <1>7 DEF LoadAudit, ExportPdf
  <2>4. seen' => TallyPublic
    BY <1>1, <1>7 DEF LoadAudit, ExportPdf, Sees, Prints, Public
  <2> QED
    BY <1>1, <2>2, <2>3, <2>4, ScreenStep
<1> QED
  BY <1>2, <1>3, <1>4, <1>5, <1>6, <1>7 DEF Viewing

LEMMA ResultsInvariant == ResultsSpec => []ResultsInv
<1>1. ResultsInit => ResultsInv
  <2> SUFFICES ASSUME ResultsInit PROVE ResultsInv
    OBVIOUS
  <2>1. BallotsOK
    BY DEF ResultsInit, BallotsOK, Everyone
  <2>2. QueryOK
    BY NewQueries, UnknownIsFine DEF ResultsInit, QueryOK
  <2>3. ViewOK
    BY UnknownReply, UnknownIsFine DEF ResultsInit, ViewOK, Blank, Screen
  <2> QED
    BY <2>1, <2>2, <2>3 DEF ResultsInit, ResultsInv, SeenOK
<1>2. ResultsInv /\ [ResultsNext]_resultsVars => ResultsInv'
  BY TermStep, BallotStep, HandlingStep, ViewingStep DEF ResultsNext
<1> QED
  BY <1>1, <1>2, PTL DEF ResultsSpec

(* What a page of results that says "verified in the chain" counts for a   *)
(* candidate are votes that the contract has: GET /results counts the      *)
(* demo votes apart, before it looks at the chain, and only demo accounts  *)
(* have votes that are not there.                                          *)
THEOREM VerifiedVotesAreInChain == ResultsSpec => []VerifiedIsTrue
<1>1. ResultsInv => VerifiedIsTrue
  <2> SUFFICES ASSUME ResultsInv, SaysVerified(view.results), NEW c \in Options
               PROVE  view.results.votes[c] <= Tally(chain, Everyone)[c]
    BY DEF VerifiedIsTrue
  <2>1. view.results.votes[c] <= Cardinality(InChainFor(c)) /\ view.results.votes[c] \in Nat
    BY DEF ResultsInv, ViewOK, Backed, SaysVerified, OnChainVerified, Screen, ResultReply
  <2>2. PICK S : S = {v \in Everyone : chain[v] = c}
    OBVIOUS
  <2>3. S \subseteq Everyone /\ InChainFor(c) \subseteq S
    BY <2>2 DEF InChainFor, Everyone
  <2>4. IsFiniteSet(Everyone)
    BY ResultsAssumption, FS_Union DEF Everyone
  <2>5. IsFiniteSet(S)
    BY <2>3, <2>4, FS_Subset
  <2>6. Cardinality(InChainFor(c)) <= Cardinality(S) /\ Cardinality(S) \in Nat
    BY <2>3, <2>5, FS_Subset, FS_CardinalityType
  <2>7. Tally(chain, Everyone)[c] = Cardinality(S)
    BY <2>2 DEF Tally
  <2> QED
    BY <2>1, <2>6, <2>7, FiniteTallies
<1> QED
  BY <1>1, ResultsInvariant, PTL

(* The votes of a candidate are shown to those who do not administer the   *)
(* election only when its end_time is past.  No request to vote is accepted *)
(* then and the contract takes no vote; what is still written are votes the *)
(* contract has, and those of demonstration accounts that were accepted     *)
(* before the end and are recorded after it.                                *)
THEOREM TallyIsSeenAfterVoting == ResultsSpec => NoVoteAfterTally
<1> DEFINE OnlyAcceptedBefore ==
              /\ \A v \in Everyone : asked'[v] \subseteq asked[v]
              /\ chain' = chain
              /\ \A v \in Everyone : audit'[v] # audit[v] =>
                    audit'[v] = chain[v] \/ (v \in DemoElectors /\ audit'[v] \in asked[v])
<1>1. ASSUME ResultsInv, [ResultsNext]_resultsVars, seen PROVE OnlyAcceptedBefore
  <2>1. ~(now <= end_time)
    BY <1>1 DEF ResultsInv, SeenOK, TallyPublic, end_time
  <2>2. BallotsOK
    BY <1>1 DEF ResultsInv
  <2>3. ASSUME UNCHANGED ballots PROVE OnlyAcceptedBefore
    BY <2>3 DEF ballots
  <2>4. ASSUME NEW v \in Everyone, NEW c \in Options, Accept(v, c) PROVE OnlyAcceptedBefore
    BY <2>1, <2>4 DEF Accept
  <2>5. ASSUME NEW v \in Everyone, NEW c \in Options, Broadcast(v, c) PROVE OnlyAcceptedBefore
    BY <2>2, <2>5 DEF Broadcast, GoesOn, BallotsOK
  <2>6. ASSUME NEW v \in Everyone, NEW c \in Options, RecordDemo(v, c) PROVE OnlyAcceptedBefore
    <3>1. /\ v \in DemoElectors /\ c \in asked[v] /\ asked' = [asked EXCEPT ![v] = @ \ {c}]
          /\ chain' = chain /\ (audit' = audit \/ audit' = [audit EXCEPT ![v] = c])
      BY <2>6 DEF RecordDemo, GoesOn
    <3>2. \A d \in Everyone : asked'[d] \subseteq asked[d]
      BY <2>2, <3>1 DEF BallotsOK
    <3>3. \A d \in Everyone : audit'[d] = audit[d] \/ (d = v /\ audit'[d] = c)
      BY <2>2, <3>1 DEF BallotsOK
    <3> QED
      BY <3>1, <3>2, <3>3
  <2>7. ASSUME NEW v \in Everyone, Block(v) PROVE OnlyAcceptedBefore
    BY <2>1, <2>7 DEF Block
  <2>8. ASSUME NEW v \in Everyone, Record(v) PROVE OnlyAcceptedBefore
    <3>1. asked' = asked /\ chain' = chain /\ audit' = [audit EXCEPT ![v] = chain[v]]
      BY <2>8 DEF Record
    <3>2. \A d \in Everyone : audit'[d] = audit[d] \/ audit'[d] = chain[d]
      BY <2>2, <3>1 DEF BallotsOK
    <3> QED
      BY <3>1, <3>2
  <2>9. Clock \/ ToggleActive \/ Handling \/ Viewing \/ UNCHANGED resultsVars => UNCHANGED ballots
    BY DEF Clock, ToggleActive, resultsVars, ballots, Handling, ReadElection, CountDisplayed, CountSources,
           CountInChain, CompareWithChain, Reads, Viewing, Visit, Quit, FetchResults, FetchFails, Reload,
           Refresh, SelectTab, LoadAudit, ExportPdf
  <2> QED
    BY <1>1, <2>3, <2>4, <2>5, <2>6, <2>7, <2>8, <2>9 DEF ResultsNext
<1>2. ResultsInv /\ [ResultsNext]_resultsVars => [seen => OnlyAcceptedBefore]_resultsVars
  BY <1>1
<1> QED
  BY <1>2, ResultsInvariant, PTL DEF ResultsSpec, NoVoteAfterTally

-------------------------------------------------------------------------------
(* The session in the browser: the interceptor of axios and its pages.     *)

WebSpec == WebInit /\ [][WebNext]_webVars

Cookies == [access : BOOLEAN, refresh : Token]
WebPage    == [path : {"app", "login", "change"}, loading : BOOLEAN, login : BOOLEAN,
            refreshing : BOOLEAN, sleeping : BOOLEAN]
Sent    == [at : {"idle", "flight", "again", "queued", "refreshing"}, retry : BOOLEAN,
            answer : {"none", "ok", "401", "403", "token", "void", "refused", "blocked"} \cup Token]

WebTypeOK ==
    /\ jar \in Cookies /\ must_change \in BOOLEAN
    /\ tab \in [WebTabs -> WebPage] /\ call \in [Calls -> Sent]

(* The login form is sent from its page, and the banner is there too.      *)
LoginPage ==
    \A t \in WebTabs :
        /\ tab[t].login => tab[t].path = "login" /\ ~tab[t].loading /\ ~tab[t].sleeping
        /\ tab[t].sleeping => tab[t].path = "login"

(* A tab that exchanged the token and has not the next one is renewing it, *)
(* or it has gone to /login and asks for nothing.                          *)
Exchanged ==
    \A t \in WebTabs : jar.refresh = t =>
        tab[t].refreshing \/ (tab[t].path = "login" /\ \A c \in Of(t) : call[c].at = "idle")

WebInv == WebTypeOK /\ LoginPage /\ Exchanged /\ NeverThrowsItselfOut

TabNames == \A t \in WebTabs : t \notin {"none", "live", "ended", "refused", "blocked", "token", "void"}

LEMMA TabNamesDiffer == TabNames /\ \A c \in Calls : Owner[c] \in WebTabs
BY WebAssumption DEF TabNames

LEMMA DeadToken == \A token \in Token : Dead(token) \in Token /\ Dead(token) \notin WebTabs
BY TabNamesDiffer DEF Dead, Token, TabNames

(* What happens to a tab and to the cookies while its calls wait.          *)
LEMMA TabMoves ==
  ASSUME WebInv, NEW t \in WebTabs, NEW page \in WebPage, tab' = [tab EXCEPT ![t] = page],
         UNCHANGED <<call, must_change>>, jar' \in Cookies,
         jar'.refresh = jar.refresh \/ jar'.refresh \notin WebTabs,
         page.login => page.path = "login" /\ ~page.loading /\ ~page.sleeping,
         page.sleeping => page.path = "login",
         jar'.refresh = t => /\ page.refreshing = tab[t].refreshing
                             /\ tab[t].path = "login" => page.path = "login"
  PROVE  WebInv'
<1>1. tab \in [WebTabs -> WebPage] /\ tab' \in [WebTabs -> WebPage] /\ tab'[t] = page
      /\ \A u \in WebTabs : u # t => tab'[u] = tab[u]
  BY DEF WebInv, WebTypeOK
<1>2. WebTypeOK' /\ NeverThrowsItselfOut'
  BY <1>1 DEF WebInv, WebTypeOK, NeverThrowsItselfOut
<1>3. LoginPage'
  BY <1>1 DEF WebInv, LoginPage
<1>4. Exchanged'
  BY <1>1 DEF WebInv, Exchanged, Of
<1> QED
  BY <1>2, <1>3, <1>4 DEF WebInv

(* A page is loaded: it is not renewing any more, so it must have kept the *)
(* next token, or go to /login.                                            *)
LEMMA LoadPageStep ==
  ASSUME WebInv, NEW t \in WebTabs, NEW path \in {"app", "login", "change"}, Load(t, path),
         UNCHANGED must_change, jar' \in Cookies,
         jar'.refresh = jar.refresh \/ jar'.refresh \notin WebTabs,
         jar'.refresh = t => path = "login"
  PROVE  WebInv'
<1>1. PICK page : page = [path |-> path, loading |-> TRUE, login |-> FALSE,
                          refreshing |-> FALSE, sleeping |-> FALSE]
  OBVIOUS
<1>2. page \in WebPage /\ page.path = path /\ ~page.login /\ ~page.sleeping
  BY <1>1 DEF WebPage
<1>3. tab' \in [WebTabs -> WebPage] /\ tab'[t] = page /\ \A u \in WebTabs : u # t => tab'[u] = tab[u]
  BY <1>1, <1>2 DEF Load, WebInv, WebTypeOK
<1>4. \A c \in Calls : call'[c] = IF Owner[c] = t THEN Idle ELSE call[c]
  BY DEF Load
<1>5. Idle \in Sent /\ Idle.at = "idle"
  BY DEF Idle, Sent
<1>6. call' \in [Calls -> Sent]
  BY <1>5 DEF Load, WebInv, WebTypeOK
<1>7. WebTypeOK'
  BY <1>3, <1>6 DEF WebInv, WebTypeOK
<1>8. LoginPage'
  BY <1>2, <1>3 DEF WebInv, LoginPage
<1>9. Exchanged'
  BY <1>2, <1>3, <1>4, <1>5 DEF WebInv, Exchanged, Of
<1>10. NeverThrowsItselfOut'
  BY <1>4, <1>5 DEF WebInv, NeverThrowsItselfOut
<1> QED
  BY <1>7, <1>8, <1>9, <1>10 DEF WebInv

(* A call goes on, and no tab begins or ends a renewal.                    *)
LEMMA CallsStep ==
  ASSUME WebInv, call' \in [Calls -> Sent], UNCHANGED tab, must_change' \in BOOLEAN,
         jar' \in Cookies, jar'.refresh = jar.refresh \/ jar'.refresh \notin WebTabs,
         \A d \in Calls : /\ call[d].at = "idle" /\ tab[Owner[d]].path = "login" => call'[d].at = "idle"
                          /\ call'[d].at = "refreshing" => call'[d].answer # Owner[d]
  PROVE  WebInv'
<1>1. WebTypeOK' /\ LoginPage' /\ NeverThrowsItselfOut'
  BY DEF WebInv, WebTypeOK, LoginPage, NeverThrowsItselfOut
<1>2. Exchanged'
  BY DEF WebInv, Exchanged, Of
<1> QED
  BY <1>1, <1>2 DEF WebInv

LEMMA PageTypes ==
  ASSUME WebInv, NEW t \in WebTabs
  PROVE  tab[t] \in WebPage /\ jar \in Cookies /\ jar.refresh \in Token
BY DEF WebInv, WebTypeOK, Cookies

LEMMA TabActions ==
  ASSUME WebInv, NEW t \in WebTabs,
         \/ Hydrate(t) \/ HydrateFails(t) \/ SubmitLogin(t) \/ LoggedIn(t) \/ LoginFails(t) \/ Logout(t)
  PROVE  WebInv'
<1>1. tab[t] \in WebPage /\ jar \in Cookies /\ jar.refresh \in Token
  BY PageTypes
<1>2. /\ tab[t].login => tab[t].path = "login" /\ ~tab[t].loading /\ ~tab[t].sleeping
      /\ tab[t].sleeping => tab[t].path = "login"
  BY DEF WebInv, LoginPage
<1>3. tab \in [WebTabs -> WebPage]
  BY DEF WebInv, WebTypeOK
<1>4. CASE Hydrate(t)
  <2>1. PICK path : path = IF jar.access THEN tab[t].path ELSE "login"
    OBVIOUS
  <2>2. PICK page : page = [tab[t] EXCEPT !.loading = FALSE, !.path = path]
    OBVIOUS
  <2>3. /\ page \in WebPage /\ page.login = tab[t].login /\ page.sleeping = tab[t].sleeping
        /\ ~page.loading /\ page.refreshing = tab[t].refreshing
        /\ page.path = path /\ (tab[t].path = "login" => path = "login")
    BY <1>1, <2>1, <2>2 DEF WebPage
  <2>4. tab' = [tab EXCEPT ![t] = page] /\ UNCHANGED <<jar, must_change, call>>
    BY <1>3, <1>4, <2>1, <2>2 DEF Hydrate
  <2> QED
    BY <1>1, <1>2, <2>3, <2>4, TabMoves
<1>5. CASE HydrateFails(t)
  <2>1. PICK page : page = [tab[t] EXCEPT !.loading = FALSE, !.path = "login", !.sleeping = TRUE]
    OBVIOUS
  <2>2. /\ page \in WebPage /\ page.login = tab[t].login /\ page.path = "login"
        /\ page.refreshing = tab[t].refreshing
    BY <1>1, <2>1 DEF WebPage
  <2>3. tab' = [tab EXCEPT ![t] = page] /\ UNCHANGED <<jar, must_change, call>> /\ tab[t].loading
    BY <1>3, <1>5, <2>1 DEF HydrateFails
  <2> QED
    BY <1>1, <1>2, <2>2, <2>3, TabMoves
<1>6. CASE SubmitLogin(t)
  <2>1. PICK page : page = [tab[t] EXCEPT !.login = TRUE, !.sleeping = FALSE]
    OBVIOUS
  <2>2. /\ page \in WebPage /\ page.path = tab[t].path /\ page.loading = tab[t].loading
        /\ ~page.sleeping /\ page.refreshing = tab[t].refreshing
    BY <1>1, <2>1 DEF WebPage
  <2>3. /\ tab' = [tab EXCEPT ![t] = page] /\ UNCHANGED <<jar, must_change, call>>
        /\ tab[t].path = "login" /\ ~tab[t].loading
    BY <1>3, <1>6, <2>1 DEF SubmitLogin
  <2> QED
    BY <1>1, <2>2, <2>3, TabMoves
<1>7. CASE LoggedIn(t)
  <2>1. PICK page : page = [tab[t] EXCEPT !.login = FALSE, !.path = "app"]
    OBVIOUS
  <2>2. page \in WebPage /\ ~page.login /\ page.sleeping = tab[t].sleeping
    BY <1>1, <2>1 DEF WebPage
  <2>3. /\ tab' = [tab EXCEPT ![t] = page] /\ UNCHANGED <<must_change, call>> /\ tab[t].login
        /\ jar' = [access |-> TRUE, refresh |-> "live"]
    BY <1>3, <1>7, <2>1 DEF LoggedIn
  <2>4. jar' \in Cookies /\ jar'.refresh \notin WebTabs
    BY <2>3, TabNamesDiffer DEF Cookies, Token, TabNames
  <2> QED
    BY <1>2, <2>2, <2>3, <2>4, TabMoves
<1>8. CASE LoginFails(t)
  <2>1. PICK sleeping \in BOOLEAN :
           /\ tab' = [tab EXCEPT ![t].login = FALSE, ![t].sleeping = sleeping]
           /\ (sleeping \/ ~tab[t].sleeping)
    <3>1. tab[t].login /\ ~tab[t].sleeping
      BY <1>2, <1>8 DEF LoginFails
    <3>2. CASE tab' = [tab EXCEPT ![t].login = FALSE, ![t].sleeping = TRUE]
      BY <3>2
    <3>3. CASE tab' = [tab EXCEPT ![t].login = FALSE]
      <4>1. [tab[t] EXCEPT !.login = FALSE] = [tab[t] EXCEPT !.login = FALSE, !.sleeping = FALSE]
        BY <1>1, <3>1 DEF WebPage
      <4>2. tab' = [tab EXCEPT ![t].login = FALSE, ![t].sleeping = FALSE]
        BY <1>3, <3>3, <4>1
      <4> QED
        BY <3>1, <4>2
    <3> QED
      BY <1>8, <3>2, <3>3 DEF LoginFails
  <2>2. PICK page : page = [tab[t] EXCEPT !.login = FALSE, !.sleeping = sleeping]
    OBVIOUS
  <2>3. /\ page \in WebPage /\ ~page.login /\ page.path = tab[t].path
        /\ page.refreshing = tab[t].refreshing
    BY <1>1, <2>2 DEF WebPage
  <2>4. tab' = [tab EXCEPT ![t] = page] /\ UNCHANGED <<jar, must_change, call>> /\ tab[t].login
    BY <1>3, <1>8, <2>1, <2>2 DEF LoginFails
  <2> QED
    BY <1>1, <1>2, <2>3, <2>4, TabMoves
<1>9. CASE Logout(t)
  <2>1. PICK page : page = [tab[t] EXCEPT !.path = "login"]
    OBVIOUS
  <2>2. /\ page \in WebPage /\ page.login = tab[t].login /\ page.path = "login"
        /\ page.sleeping = tab[t].sleeping /\ page.loading = tab[t].loading
    BY <1>1, <2>1 DEF WebPage
  <2>3. /\ tab' = [tab EXCEPT ![t] = page] /\ UNCHANGED <<must_change, call>>
        /\ jar' = [jar EXCEPT !.refresh = Dead(jar.refresh)]
    BY <1>3, <1>9, <2>1 DEF Logout
  <2>4. jar' \in Cookies /\ jar'.refresh \notin WebTabs
    BY <1>1, <2>3, DeadToken DEF Cookies
  <2>5. jar'.refresh # t
    BY <2>4
  <2> QED
    BY <1>2, <2>2, <2>3, <2>4, <2>5, TabMoves
<1> QED
  BY <1>4, <1>5, <1>6, <1>7, <1>8, <1>9

(* The cookies alone.                                                      *)
LEMMA CookieActions ==
  ASSUME WebInv, Expire \/ Cleared \/ LogoutLost \/ UNCHANGED webVars
  PROVE  WebInv'
<1>1. jar \in Cookies
  BY DEF WebInv, WebTypeOK
<1>2. UNCHANGED <<tab, call, must_change>>
  BY DEF Expire, Cleared, LogoutLost, webVars
<1>3. jar' \in Cookies /\ (jar'.refresh = jar.refresh \/ jar'.refresh \notin WebTabs)
  <2>1. CASE Expire
    BY <1>1, <2>1 DEF Expire, Cookies
  <2>2. CASE Cleared
    BY <2>2, TabNamesDiffer DEF Cleared, Cookies, Token, TabNames
  <2>3. CASE LogoutLost \/ UNCHANGED webVars
    BY <1>1, <2>3 DEF LogoutLost, webVars
  <2> QED
    BY <2>1, <2>2, <2>3
<1> QED
  BY <1>2, <1>3, CallsStep DEF WebInv, WebTypeOK, NeverThrowsItselfOut

LEMMA ForgetsToken ==
  ASSUME WebInv, NEW t \in WebTabs, jar' = [jar EXCEPT !.refresh = IF @ = t THEN "ended" ELSE @]
  PROVE  /\ jar' \in Cookies /\ jar'.refresh # t
         /\ jar'.refresh = jar.refresh \/ jar'.refresh \notin WebTabs
<1>1. PICK token : token = IF jar.refresh = t THEN "ended" ELSE jar.refresh
  OBVIOUS
<1>2. jar' = [jar EXCEPT !.refresh = token] /\ jar \in Cookies
  BY <1>1 DEF WebInv, WebTypeOK
<1>3. token \in Token /\ "ended" \notin WebTabs
  BY <1>1, <1>2, TabNamesDiffer DEF Cookies, Token, TabNames
<1> QED
  BY <1>1, <1>2, <1>3 DEF Cookies

LEMMA LoadActions ==
  ASSUME WebInv,
         \/ \E t \in WebTabs : ReloadPage(t) \/ WakeBackend(t)
         \/ \E c \in Calls : RefreshFailed(c)
  PROVE  WebInv'
<1>1. CASE \E t \in WebTabs : ReloadPage(t)
  <2>1. PICK t \in WebTabs : ReloadPage(t)
    BY <1>1
  <2>2. /\ Load(t, tab[t].path) /\ UNCHANGED must_change
        /\ jar' = [jar EXCEPT !.refresh = IF @ = t THEN "ended" ELSE @]
    BY <2>1 DEF ReloadPage
  <2>3. tab[t].path \in {"app", "login", "change"}
    BY PageTypes DEF WebPage
  <2> QED
    BY <2>2, <2>3, ForgetsToken, LoadPageStep
<1>2. CASE \E t \in WebTabs : WakeBackend(t)
  <2>1. PICK t \in WebTabs : WakeBackend(t)
    BY <1>2
  <2>2. Load(t, tab[t].path) /\ UNCHANGED <<jar, must_change>> /\ tab[t].path = "login"
    BY <2>1 DEF WakeBackend, WebInv, LoginPage
  <2>3. jar' \in Cookies
    BY <2>2 DEF WebInv, WebTypeOK
  <2> QED
    BY <2>2, <2>3, LoadPageStep
<1>3. CASE \E c \in Calls : RefreshFailed(c)
  <2>1. PICK c \in Calls : RefreshFailed(c)
    BY <1>3
  <2>2. PICK t \in WebTabs : t = Owner[c]
    BY TabNamesDiffer
  <2>3. /\ Load(t, "login") /\ UNCHANGED must_change
        /\ jar' = [jar EXCEPT !.refresh = IF @ = t THEN "ended" ELSE @]
    BY <2>1, <2>2 DEF RefreshFailed
  <2> QED
    BY <2>3, ForgetsToken, LoadPageStep
<1> QED
  BY <1>1, <1>2, <1>3

(* A call is sent, the first time or again: what it has already done to    *)
(* the cookies never gives a tab back a token.                             *)
LEMMA SendStep ==
  ASSUME WebInv, NEW c \in Calls, NEW retry \in BOOLEAN, Send(c, retry),
         call[c].at = "idle" => tab[Owner[c]].path # "login"
  PROVE  WebInv'
<1>1. PICK answer \in Answers(c) :
         IF c \in Forms /\ answer = "ok"
         THEN PasswordChanged(c, [at |-> "flight", retry |-> retry, answer |-> answer])
         ELSE /\ call' = [call EXCEPT ![c] = [at |-> "flight", retry |-> retry, answer |-> answer]]
              /\ UNCHANGED <<jar, must_change>>
  BY DEF Send
<1>2. answer \in {"ok", "401", "403"} /\ UNCHANGED tab
  BY DEF Answers, Send
<1>3. PICK next : next = [at |-> "flight", retry |-> retry, answer |-> answer]
  OBVIOUS
<1>4. next \in Sent /\ next.at = "flight"
  BY <1>2, <1>3 DEF Sent
<1>5. \A d \in Calls : call[d] \in Sent /\ (call[d].at = "refreshing" => call[d].answer # Owner[d])
  BY DEF WebInv, WebTypeOK, NeverThrowsItselfOut
<1>6. jar \in Cookies /\ jar.refresh \in Token
  BY DEF WebInv, WebTypeOK, Cookies
<1>7. CASE PasswordChanged(c, next)
  <2>1. /\ must_change' = FALSE /\ jar' = [jar EXCEPT !.refresh = Dead(jar.refresh)]
        /\ call' = [d \in Calls |-> IF d = c THEN next
                                    ELSE IF call[d].answer = "token" THEN [call[d] EXCEPT !.answer = "void"]
                                    ELSE call[d]]
    BY <1>7 DEF PasswordChanged
  <2>2. jar' \in Cookies /\ jar'.refresh \notin WebTabs
    BY <1>6, <2>1, DeadToken DEF Cookies
  <2>3. \A d \in Calls : [call[d] EXCEPT !.answer = "void"] \in Sent /\ "void" # Owner[d]
                         /\ [call[d] EXCEPT !.answer = "void"].at = call[d].at
                         /\ [call[d] EXCEPT !.answer = "void"].answer = "void"
    BY <1>5, TabNamesDiffer DEF Sent, TabNames
  <2>4. call' \in [Calls -> Sent]
    BY <1>4, <1>5, <2>1, <2>3
  <2>5. \A d \in Calls : /\ call[d].at = "idle" /\ tab[Owner[d]].path = "login" => call'[d].at = "idle"
                         /\ call'[d].at = "refreshing" => call'[d].answer # Owner[d]
    BY <1>4, <1>5, <2>1, <2>3
  <2> QED
    BY <1>2, <2>1, <2>2, <2>4, <2>5, CallsStep
<1>8. CASE call' = [call EXCEPT ![c] = next] /\ UNCHANGED <<jar, must_change>>
  <2>1. /\ call' \in [Calls -> Sent] /\ call'[c] = next
        /\ \A d \in Calls : d # c => call'[d] = call[d]
    BY <1>4, <1>8 DEF WebInv, WebTypeOK
  <2>2. must_change' \in BOOLEAN /\ jar' \in Cookies
    BY <1>6, <1>8 DEF WebInv, WebTypeOK
  <2>3. \A d \in Calls : /\ call[d].at = "idle" /\ tab[Owner[d]].path = "login" => call'[d].at = "idle"
                         /\ call'[d].at = "refreshing" => call'[d].answer # Owner[d]
    BY <1>4, <1>5, <2>1
  <2> QED
    BY <1>2, <1>8, <2>1, <2>2, <2>3, CallsStep
<1> QED
  BY <1>1, <1>3, <1>7, <1>8

LEMMA SettlesStep ==
  ASSUME WebInv, NEW c \in Calls, Settles(c)
  PROVE  WebInv'
<1>1. PICK t \in WebTabs : t = Owner[c]
  BY TabNamesDiffer
<1>2. PICK path : path = IF c \in Forms /\ call[c].answer = "ok" /\ tab[t].path # "login"
                         THEN "app" ELSE tab[t].path
  OBVIOUS
<1>3. /\ tab' = [tab EXCEPT ![t].path = path] /\ call' = [call EXCEPT ![c] = Idle]
      /\ UNCHANGED <<jar, must_change>>
  BY <1>1, <1>2 DEF Settles
<1>4. tab[t] \in WebPage /\ Idle \in Sent /\ Idle.at = "idle"
  BY PageTypes DEF Idle, Sent
<1>5. path \in {"app", "login", "change"} /\ (tab[t].path = "login" => path = "login")
  BY <1>2, <1>4 DEF WebPage
<1>6. /\ tab' \in [WebTabs -> WebPage]
      /\ \A u \in WebTabs : /\ tab'[u].login = tab[u].login /\ tab'[u].loading = tab[u].loading
                            /\ tab'[u].sleeping = tab[u].sleeping
                            /\ tab'[u].refreshing = tab[u].refreshing
                            /\ tab[u].path = "login" => tab'[u].path = "login"
  <2>1. PICK page : page = [tab[t] EXCEPT !.path = path]
    OBVIOUS
  <2>2. /\ page \in WebPage /\ page.login = tab[t].login /\ page.loading = tab[t].loading
        /\ page.sleeping = tab[t].sleeping /\ page.refreshing = tab[t].refreshing /\ page.path = path
    BY <1>4, <1>5, <2>1 DEF WebPage
  <2>3. tab' = [tab EXCEPT ![t] = page] /\ tab \in [WebTabs -> WebPage]
    BY <1>3, <2>1 DEF WebInv, WebTypeOK
  <2> QED
    BY <1>5, <2>2, <2>3
<1>7. /\ call' \in [Calls -> Sent] /\ call'[c] = Idle
      /\ \A d \in Calls : d # c => call'[d] = call[d]
  BY <1>3, <1>4 DEF WebInv, WebTypeOK
<1>8. WebTypeOK'
  BY <1>3, <1>6, <1>7 DEF WebInv, WebTypeOK
<1>9. LoginPage'
  BY <1>6 DEF WebInv, LoginPage
<1>10. Exchanged'
  BY <1>3, <1>4, <1>6, <1>7 DEF WebInv, Exchanged, Of
<1>11. NeverThrowsItselfOut'
  BY <1>4, <1>7 DEF WebInv, NeverThrowsItselfOut
<1> QED
  BY <1>8, <1>9, <1>10, <1>11 DEF WebInv

(* A call that begins a renewal is of a tab that was not renewing, so the  *)
(* token it sends is not one that this tab exchanged.                      *)
LEMMA RenewStep ==
  ASSUME WebInv, NEW c \in Calls, call[c].at = "flight", ~Waits(Owner[c]), Renew(c)
  PROVE  WebInv'
<1>1. PICK t \in WebTabs : t = Owner[c]
  BY TabNamesDiffer
<1>2. PICK answer : answer = RefreshAnswer
  OBVIOUS
<1>3. /\ tab[t] \in WebPage /\ call[c] \in Sent /\ jar \in Cookies /\ jar.refresh \in Token
      /\ jar.refresh # t
  <2>1. ~tab[t].refreshing /\ c \in Of(t)
    BY <1>1 DEF Waits, Of
  <2>2. jar.refresh # t
    BY <2>1 DEF WebInv, Exchanged
  <2> QED
    BY <2>2, PageTypes DEF WebInv, WebTypeOK
<1>4. /\ answer \in {"blocked", "token", "refused"} \cup WebTabs /\ answer # t
      /\ answer = "token" => jar.refresh = "live"
  BY <1>2, <1>3, TabNamesDiffer DEF RefreshAnswer, TabNames
<1>5. PICK mine : mine = [call[c] EXCEPT !.at = "refreshing", !.retry = TRUE, !.answer = answer]
  OBVIOUS
<1>6. PICK page : page = [tab[t] EXCEPT !.refreshing = TRUE]
  OBVIOUS
<1>7. /\ call' = [call EXCEPT ![c] = mine]
      /\ tab' = [tab EXCEPT ![t] = page]
      /\ jar' = IF answer = "token" THEN [jar EXCEPT !.refresh = t] ELSE jar
      /\ UNCHANGED must_change
  BY <1>1, <1>2, <1>5, <1>6 DEF Renew
<1>8. mine \in Sent /\ mine.at = "refreshing" /\ mine.answer = answer
  <2>1. answer \in {"none", "ok", "401", "403", "token", "void", "refused", "blocked"} \cup Token
    BY <1>4 DEF Token
  <2> QED
    BY <1>3, <1>5, <2>1 DEF Sent
<1>9. /\ page \in WebPage /\ page.refreshing /\ page.login = tab[t].login /\ page.path = tab[t].path
      /\ page.sleeping = tab[t].sleeping /\ page.loading = tab[t].loading
  BY <1>3, <1>6 DEF WebPage
<1>10. jar' \in Cookies /\ jar'.refresh \in {jar.refresh, t}
  BY <1>3, <1>7 DEF Cookies, Token
<1>11. /\ call' \in [Calls -> Sent] /\ call'[c] = mine
       /\ \A d \in Calls : d # c => call'[d] = call[d]
  BY <1>7, <1>8 DEF WebInv, WebTypeOK
<1>12. /\ tab' \in [WebTabs -> WebPage] /\ tab'[t] = page
       /\ \A u \in WebTabs : u # t => tab'[u] = tab[u]
  BY <1>7, <1>9 DEF WebInv, WebTypeOK
<1>13. WebTypeOK'
  BY <1>7, <1>10, <1>11, <1>12 DEF WebInv, WebTypeOK
<1>14. LoginPage'
  BY <1>9, <1>12 DEF WebInv, LoginPage
<1>15. Exchanged'
  BY <1>1, <1>9, <1>10, <1>11, <1>12 DEF WebInv, Exchanged, Of
<1>16. NeverThrowsItselfOut'
  BY <1>1, <1>4, <1>8, <1>11 DEF WebInv, NeverThrowsItselfOut
<1> QED
  BY <1>13, <1>14, <1>15, <1>16 DEF WebInv

LEMMA RefreshWonStep ==
  ASSUME WebInv, NEW c \in Calls, RefreshWon(c)
  PROVE  WebInv'
<1>1. PICK t \in WebTabs : t = Owner[c]
  BY TabNamesDiffer
<1>2. PICK page : page = [tab[t] EXCEPT !.refreshing = FALSE]
  OBVIOUS
<1>3. /\ jar' = [access |-> TRUE, refresh |-> IF call[c].answer = "token" THEN "live" ELSE "ended"]
      /\ call' = [d \in Calls |-> IF d = c \/ (d \in Of(Owner[c]) /\ call[d].at = "queued")
                                  THEN [call[d] EXCEPT !.at = "again", !.answer = "none"]
                                  ELSE call[d]]
      /\ tab' = [tab EXCEPT ![t] = page] /\ UNCHANGED must_change
      /\ call[c].at = "refreshing"
  BY <1>1, <1>2 DEF RefreshWon, Refreshed
<1>4. tab[t] \in WebPage /\ \A d \in Calls : call[d] \in Sent
  BY PageTypes DEF WebInv, WebTypeOK
<1>5. /\ page \in WebPage /\ page.login = tab[t].login /\ page.path = tab[t].path
      /\ page.sleeping = tab[t].sleeping /\ page.loading = tab[t].loading
  BY <1>2, <1>4 DEF WebPage
<1>6. jar' \in Cookies /\ jar'.refresh \notin WebTabs
  BY <1>3, TabNamesDiffer DEF Cookies, Token, TabNames
<1>7. \A d \in Calls : /\ [call[d] EXCEPT !.at = "again", !.answer = "none"] \in Sent
                       /\ [call[d] EXCEPT !.at = "again", !.answer = "none"].at = "again"
  BY <1>4 DEF Sent
<1>8. call' \in [Calls -> Sent] /\ \A d \in Calls : call'[d].at = "again" \/ call'[d] = call[d]
  BY <1>3, <1>4, <1>7
<1>9. /\ tab' \in [WebTabs -> WebPage] /\ tab'[t] = page
      /\ \A u \in WebTabs : u # t => tab'[u] = tab[u]
  BY <1>3, <1>5 DEF WebInv, WebTypeOK
<1>10. WebTypeOK'
  BY <1>3, <1>6, <1>8, <1>9 DEF WebInv, WebTypeOK
<1>11. LoginPage'
  BY <1>5, <1>9 DEF WebInv, LoginPage
<1>12. Exchanged' /\ NeverThrowsItselfOut'
  BY <1>6, <1>8 DEF WebInv, Exchanged, NeverThrowsItselfOut
<1> QED
  BY <1>10, <1>11, <1>12 DEF WebInv

LEMMA CallActions ==
  ASSUME WebInv, NEW c \in Calls, Start(c) \/ Client(c) \/ CallLost(c)
  PROVE  WebInv'
<1>1. /\ call[c] \in Sent /\ Owner[c] \in WebTabs /\ call \in [Calls -> Sent]
      /\ Idle \in Sent /\ Idle.at = "idle"
  BY TabNamesDiffer DEF WebInv, WebTypeOK, Idle, Sent
<1>2. CASE Start(c)
  BY <1>2, SendStep DEF Start
<1>3. CASE Resend(c)
  <2>1. call[c].retry \in BOOLEAN
    BY <1>1 DEF Sent
  <2> QED
    BY <1>3, <2>1, SendStep DEF Resend
<1>4. CASE Settles(c)
  BY <1>4, SettlesStep
<1>5. CASE CallUnauthorized(c) /\ ~Settles(c)
  <2>1. CASE call[c].at = "flight" /\ ~Waits(Owner[c]) /\ Renew(c)
    BY <2>1, RenewStep
  <2>2. CASE /\ call[c].at = "flight" /\ UNCHANGED <<jar, must_change, tab>>
             /\ call' = [call EXCEPT ![c].at = "queued", ![c].answer = "none"]
    <3>1. PICK mine : mine = [call[c] EXCEPT !.at = "queued", !.answer = "none"]
      OBVIOUS
    <3>2. mine \in Sent /\ mine.at = "queued" /\ call' = [call EXCEPT ![c] = mine]
      BY <1>1, <2>2, <3>1 DEF Sent
    <3> QED
      BY <1>1, <2>2, <3>2, CallsStep DEF WebInv, WebTypeOK, NeverThrowsItselfOut
  <2> QED
    BY <1>5, <2>1, <2>2 DEF CallUnauthorized, AnsweredWith
<1>6. CASE CallBlocked(c) /\ ~Settles(c)
  <2>1. PICK t \in WebTabs : t = Owner[c]
    BY <1>1
  <2>2. /\ Load(t, "change") /\ UNCHANGED must_change
        /\ jar' = [jar EXCEPT !.refresh = IF @ = t THEN "ended" ELSE @]
    BY <1>6, <2>1 DEF CallBlocked
  <2> QED
    BY <2>2, ForgetsToken, LoadPageStep
<1>7. CASE CallLost(c)
  <2>1. call' = [call EXCEPT ![c] = Idle] /\ UNCHANGED <<jar, must_change, tab>>
    BY <1>7 DEF CallLost
  <2> QED
    BY <1>1, <2>1, CallsStep DEF WebInv, WebTypeOK, NeverThrowsItselfOut
<1> QED
  BY <1>2, <1>3, <1>4, <1>5, <1>6, <1>7, RefreshWonStep, LoadActions
     DEF Client, CallOk

(* The interceptor of the pages never sends a tab to /login for a token    *)
(* that this tab itself exchanged: while one of its calls renews the       *)
(* session the others wait for the answer, and the new cookies are in the  *)
(* jar before the next call is sent.                                       *)
THEOREM TabKeepsItsSession == WebSpec => []NeverThrowsItselfOut
<1>1. WebInit => WebInv
  <2> SUFFICES ASSUME WebInit PROVE WebInv
    OBVIOUS
  <2>1. WebTypeOK
    <3>1. jar \in Cookies
      <4>1. PICK access \in BOOLEAN, refresh \in {"none", "live"} :
               jar = [access |-> access, refresh |-> refresh]
        BY DEF WebInit
      <4>2. refresh \in Token
        BY DEF Token
      <4> QED
        BY <4>1, <4>2 DEF Cookies
    <3>2. tab \in [WebTabs -> WebPage]
      BY DEF WebInit, WebPage
    <3>3. Idle \in Sent
      BY DEF Idle, Sent
    <3> QED
      BY <3>1, <3>2, <3>3 DEF WebInit, WebTypeOK
  <2> QED
    BY <2>1, TabNamesDiffer
       DEF WebInit, WebInv, LoginPage, Exchanged, NeverThrowsItselfOut, Idle, TabNames
<1>2. WebInv /\ [WebNext]_webVars => WebInv'
  BY CookieActions, TabActions, LoadActions, CallActions DEF WebNext
<1>3. WebInv => NeverThrowsItselfOut
  BY DEF WebInv
<1> QED
  BY <1>1, <1>2, <1>3, PTL DEF WebSpec

-------------------------------------------------------------------------------
(* The independent recount: audit-recount.ts.                              *)

(* A set and another that a function maps it onto, one to one.             *)
LEMMA SameSize ==
  ASSUME NEW S, IsFiniteSet(S), NEW T, NEW f \in [S -> T],
         \A y \in T : \E x \in S : f[x] = y
  PROVE  /\ IsFiniteSet(T)
         /\ (\A x, y \in S : f[x] = f[y] => x = y) => Cardinality(T) = Cardinality(S)
<1>1. f \in Surjection(S, T)
  BY DEF Surjection
<1>2. (\A x, y \in S : f[x] = f[y] => x = y) => f \in Injection(S, T)
  BY DEF Injection, IsInjective
<1> QED
  BY <1>1, <1>2, FS_Surjection

RecountSpec == RecountInit /\ [][RecountNext]_recountVars

(* What a recount has read: the events of the windows before the next one. *)
ReadSoFar == {e \in log : e.block < inicio /\ e.block <= hasta}
FoundFor(S, c)  == {e \in S : e.candidate = c}

LogOK ==
    /\ head \in Nat /\ Deployed <= head
    /\ log \subseteq Event /\ IsFiniteSet(log)
    /\ \A e \in log : Deployed <= e.block /\ e.block <= head
    /\ \A e, f \in log : e.nullifier = f.nullifier => e = f

ProgressOK ==
    /\ hasta \in Nat /\ inicio \in Nat /\ repeatedNullifiers = 0
    /\ step \in {"head", "events", "done"}
    /\ step = "head" => vistos = {} /\ tallyFromEvents = Zero
    /\ step = "events" => /\ hasta <= head /\ Deployed <= inicio
                          /\ vistos = {e.nullifier : e \in ReadSoFar}
                          /\ tallyFromEvents = [c \in CandidateIds |-> Cardinality(FoundFor(ReadSoFar, c))]
    /\ step = "done" => tallyFromEvents = tallyFromContract

RecountInv == LogOK /\ ProgressOK

LEMMA MineBlockStep ==
  ASSUME RecountInv, MineBlock
  PROVE  RecountInv'
<1> USE RecountAssumption
<1>1. PICK N \in SUBSET (Nullifiers \ {e.nullifier : e \in log}), choice \in [Nullifiers -> CandidateIds] :
         log' = log \cup {[nullifier |-> n, candidate |-> choice[n], block |-> head'] : n \in N}
  BY DEF MineBlock
<1>2. head' = head + 1 /\ UNCHANGED progress /\ head \in Nat
  BY DEF MineBlock, RecountInv, LogOK
<1> DEFINE f   == [n \in N |-> [nullifier |-> n, candidate |-> choice[n], block |-> head']]
           new == {f[n] : n \in N}
<1>3. log' = log \cup new
  BY <1>1
<1>4. \A n \in N : f[n] \in Event /\ f[n].nullifier = n /\ f[n].block = head + 1
  BY <1>1, <1>2 DEF Event
<1>5. \A e \in new : /\ e \in Event /\ e.block = head + 1 /\ e.nullifier \in N /\ e = f[e.nullifier]
  BY <1>4
<1>6. IsFiniteSet(new)
  <2>1. IsFiniteSet(N)
    BY <1>1, FS_Subset
  <2>2. f \in [N -> new] /\ \A y \in new : \E x \in N : f[x] = y
    OBVIOUS
  <2> HIDE DEF f, new
  <2> QED
    BY <2>1, <2>2, SameSize
<1> HIDE DEF f, new
<1>7. LogOK'
  <2>4. head' \in Nat /\ Deployed <= head'
    BY <1>2 DEF RecountInv, LogOK
  <2>1. IsFiniteSet(log')
    <3>1. IsFiniteSet(log)
      BY DEF RecountInv, LogOK
    <3> QED
      BY <1>3, <1>6, <3>1, FS_Union
  <2>2. \A e \in log' : e \in Event /\ Deployed <= e.block /\ e.block <= head'
    <3>1. \A e \in log : e \in Event /\ Deployed <= e.block /\ e.block <= head /\ e.block \in Nat
      BY DEF RecountInv, LogOK, Event
    <3>2. Deployed <= head + 1
      BY DEF RecountInv, LogOK, MineBlock
    <3> QED
      BY <1>2, <1>3, <1>5, <3>1, <3>2
  <2>3. ASSUME NEW e \in log', NEW g \in log', e.nullifier = g.nullifier PROVE e = g
    BY <1>1, <1>3, <1>5, <2>3 DEF RecountInv, LogOK
  <2> QED
    BY <2>1, <2>2, <2>3, <2>4 DEF LogOK
<1>8. step = "events" => ReadSoFar' = ReadSoFar
  <2> SUFFICES ASSUME step = "events" PROVE ReadSoFar' = ReadSoFar
    OBVIOUS
  <2>1. hasta <= head /\ hasta \in Nat
    BY DEF RecountInv, ProgressOK
  <2>2. \A e \in new : ~(e.block <= hasta)
    BY <1>2, <1>5, <2>1
  <2> QED
    BY <1>2, <1>3, <2>2 DEF ReadSoFar, progress
<1>9. ProgressOK'
  BY <1>2, <1>8 DEF RecountInv, ProgressOK, progress, Zero, FoundFor
<1> QED
  BY <1>7, <1>9 DEF RecountInv

(* A window has the events from the last one on, and none that was read.   *)
LEMMA WindowStep ==
  ASSUME RecountInv, ReadWindow
  PROVE  RecountInv'
<1> USE RecountAssumption
<1>1. /\ step = "events" /\ inicio <= hasta /\ inicio' = inicio + BLOCK_WINDOW
      /\ UNCHANGED <<head, log, hasta, tallyFromContract, step>>
      /\ inicio \in Nat /\ hasta \in Nat /\ Deployed <= inicio /\ hasta <= head
  BY DEF ReadWindow, RecountInv, ProgressOK
<1>2. \A e \in log : e.block \in Nat /\ e.candidate \in CandidateIds
  BY DEF RecountInv, LogOK, Event
<1>3. ReadSoFar' = ReadSoFar \cup InWindow /\ ReadSoFar \cap InWindow = {}
  BY <1>1, <1>2 DEF ReadSoFar, InWindow, Fin
<1>4. vistos = {e.nullifier : e \in ReadSoFar}
  BY <1>1 DEF RecountInv, ProgressOK
<1>5. \A e \in InWindow : e.nullifier \notin vistos
  <2> SUFFICES ASSUME NEW e \in InWindow, NEW d \in ReadSoFar, d.nullifier = e.nullifier PROVE FALSE
    BY <1>4
  <2>1. d = e
    BY DEF RecountInv, LogOK, ReadSoFar, InWindow
  <2> QED
    BY <1>3, <2>1
<1>6. {e \in InWindow : e.nullifier \notin vistos} = InWindow
  BY <1>5
<1>7. /\ vistos' = vistos \cup {e.nullifier : e \in InWindow}
      /\ tallyFromEvents' = [c \in CandidateIds |-> tallyFromEvents[c] + Cardinality(FoundFor(InWindow, c))]
      /\ repeatedNullifiers' = repeatedNullifiers + Cardinality(InWindow \ InWindow)
  BY <1>6 DEF ReadWindow, FoundFor
<1>8. repeatedNullifiers' = 0
  <2>1. InWindow \ InWindow = {}
    OBVIOUS
  <2> QED
    BY <1>7, <2>1, FS_EmptySet DEF RecountInv, ProgressOK
<1>9. vistos' = {e.nullifier : e \in ReadSoFar'}
  BY <1>3, <1>4, <1>7
<1>10. ASSUME NEW c \in CandidateIds
       PROVE  tallyFromEvents'[c] = Cardinality(FoundFor(ReadSoFar', c))
  <2>1. IsFiniteSet(log)
    BY DEF RecountInv, LogOK
  <2>2. FoundFor(ReadSoFar, c) \subseteq log /\ FoundFor(InWindow, c) \subseteq log
    BY DEF FoundFor, ReadSoFar, InWindow
  <2>3. IsFiniteSet(FoundFor(ReadSoFar, c)) /\ IsFiniteSet(FoundFor(InWindow, c))
    BY <2>1, <2>2, FS_Subset
  <2>4. /\ FoundFor(ReadSoFar', c) = FoundFor(ReadSoFar, c) \cup FoundFor(InWindow, c)
        /\ FoundFor(ReadSoFar, c) \cap FoundFor(InWindow, c) = {}
    BY <1>3 DEF FoundFor
  <2>5. Cardinality(FoundFor(ReadSoFar', c)) =
           Cardinality(FoundFor(ReadSoFar, c)) + Cardinality(FoundFor(InWindow, c)) - Cardinality({})
    BY <2>3, <2>4, FS_Union
  <2>6. tallyFromEvents[c] = Cardinality(FoundFor(ReadSoFar, c))
    BY <1>1 DEF RecountInv, ProgressOK
  <2> QED
    BY <1>7, <2>3, <2>5, <2>6, FS_EmptySet, FS_CardinalityType
<1>11. tallyFromEvents' = [c \in CandidateIds |-> Cardinality(FoundFor(ReadSoFar', c))]
  BY <1>7, <1>10
<1>12. Deployed <= inicio' /\ inicio' \in Nat
  BY <1>1
<1>13. ProgressOK'
  BY <1>1, <1>8, <1>9, <1>11, <1>12 DEF ProgressOK, FoundFor
<1> QED
  BY <1>1, <1>13 DEF RecountInv, LogOK

LEMMA ReadEnds ==
  ASSUME RecountInv, ReadHead \/ ReadTally
  PROVE  RecountInv'
<1> USE RecountAssumption
<1>1. CASE ReadHead
  <2>1. /\ step = "head" /\ step' = "events" /\ hasta' = head /\ inicio' = Deployed
        /\ UNCHANGED <<head, log, vistos, tallyFromEvents, tallyFromContract, repeatedNullifiers>>
    BY <1>1 DEF ReadHead
  <2>2. \A e \in log : e.block \in Nat /\ Deployed <= e.block
    BY DEF RecountInv, LogOK, Event
  <2>3. ReadSoFar' = {}
    BY <2>1, <2>2 DEF ReadSoFar
  <2>4. \A c \in CandidateIds : Cardinality(FoundFor(ReadSoFar', c)) = 0
    BY <2>3, FS_EmptySet DEF FoundFor
  <2>5. tallyFromEvents' = [c \in CandidateIds |-> Cardinality(FoundFor(ReadSoFar', c))]
    BY <2>1, <2>4 DEF RecountInv, ProgressOK, Zero
  <2>6. vistos' = {e.nullifier : e \in ReadSoFar'}
    BY <2>1, <2>3 DEF RecountInv, ProgressOK
  <2> QED
    BY <2>1, <2>5, <2>6 DEF RecountInv, ProgressOK, LogOK, FoundFor
<1>2. CASE ReadTally
  <2>1. /\ step = "events" /\ inicio > hasta /\ step' = "done"
        /\ tallyFromContract' = [c \in CandidateIds |-> At(hasta, c)]
        /\ UNCHANGED <<head, log, hasta, inicio, vistos, tallyFromEvents, repeatedNullifiers>>
    BY <1>2 DEF ReadTally, TallyBlock
  <2>2. \A e \in log : e.block \in Nat
    BY DEF RecountInv, LogOK, Event
  <2>3. ASSUME NEW c \in CandidateIds PROVE At(hasta, c) = Cardinality(FoundFor(ReadSoFar, c))
    <3>1. {e \in log : e.block <= hasta /\ e.candidate = c} = FoundFor(ReadSoFar, c)
      BY <2>1, <2>2 DEF RecountInv, ProgressOK, FoundFor, ReadSoFar
    <3> QED
      BY <3>1 DEF At
  <2>4. tallyFromEvents' = tallyFromContract'
    BY <2>1, <2>3 DEF RecountInv, ProgressOK
  <2> QED
    BY <2>1, <2>4 DEF RecountInv, ProgressOK, LogOK
<1> QED
  BY <1>1, <1>2

(* The recount of audit-recount.ts reads every event of the contract up to *)
(* the block whose tally it asks for, once, for any window and any votes   *)
(* that are mined while it reads; so it agrees with the contract.          *)
THEOREM RecountAgreesWithContract == RecountSpec => []NoFalseAlarm
<1>1. RecountInit => RecountInv
  BY FS_EmptySet, RecountAssumption DEF RecountInit, RecountInv, LogOK, ProgressOK, Event
<1>2. RecountInv /\ [RecountNext]_recountVars => RecountInv'
  <2>1. ASSUME RecountInv, UNCHANGED recountVars PROVE RecountInv'
    BY <2>1 DEF recountVars, RecountInv, LogOK, ProgressOK, ReadSoFar, FoundFor, Zero
  <2> QED
    BY <2>1, MineBlockStep, WindowStep, ReadEnds DEF RecountNext
<1>3. RecountInv => NoFalseAlarm
  BY DEF RecountInv, ProgressOK, NoFalseAlarm, consistent
<1> QED
  BY <1>1, <1>2, <1>3, PTL DEF RecountSpec

-------------------------------------------------------------------------------
(* The deployment and the rotation of the relayer.                         *)

DeploymentSpec == DeploymentInit /\ [][DeploymentNext]_deploymentVars

Contract == [arg : Keys, relayers : SUBSET Keys]

DeploymentTypeOK ==
    /\ contracts \in Seq(Contract)
    /\ record \in [contract : Nat, relayerAddress : Keys \cup {NoKey},
                   constructorArgs : Keys \cup {NoKey}, verified : BOOLEAN]
    /\ script \in [at : {"none", "deploy", "check", "verify", "authorise", "authorising", "revoke",
                         "revoking", "read", "write"},
                   contract : Nat, authorise : Keys \cup {NoKey}, revoke : Keys \cup {NoKey}]
    /\ pool \in [contract : Nat, relayer : Keys \cup {NoKey}, allowed : BOOLEAN]
    /\ unrecorded \in BOOLEAN

(* A script has what it works with, and its contract has the relayer that  *)
(* it authorises from the step at which it says so.                        *)
Rotating == {"authorise", "authorising", "revoke", "revoking", "read", "write"}

ScriptOK ==
    /\ script.at = "none" <=> script = NoScript
    /\ script.at # "none" => script.authorise \in Keys
    /\ script.at \in {"check", "verify"} \cup Rotating =>
          script.contract \in DOMAIN contracts
    /\ script.at \in Rotating => /\ script.authorise # script.revoke
                                 /\ record # NoRecord => record.contract = script.contract
    /\ script.at \in {"check", "verify"} =>
          /\ contracts[script.contract].arg = script.authorise
          /\ isRelayer(script.authorise)
    /\ script.at \in {"revoke", "revoking", "read", "write"} => isRelayer(script.authorise)

(* A transaction is that of the script, if it still runs; one that revokes *)
(* leaves another relayer.                                                 *)
PoolOK ==
    pool # NoTx =>
        /\ pool.contract \in DOMAIN contracts /\ pool.relayer \in Keys
        /\ ~pool.allowed => contracts[pool.contract].relayers \ {pool.relayer} # {}
        /\ script.at \in {"none", "authorising", "revoking"}
        /\ script.at = "authorising" =>
              pool = [contract |-> script.contract, relayer |-> script.authorise, allowed |-> TRUE]
        /\ script.at = "revoking" =>
              pool = [contract |-> script.contract, relayer |-> script.revoke, allowed |-> FALSE]

Waited == script.at = "authorising" /\ pool = NoTx => isRelayer(script.authorise)

RecordOK ==
    record # NoRecord => record.contract \in DOMAIN contracts /\ record.relayerAddress \in Keys

DeploymentInv == DeploymentTypeOK /\ ScriptOK /\ PoolOK /\ Waited /\ RecordOK /\ RecordIsTrue

LEMMA DeployStep ==
  ASSUME DeploymentInv, (\E k \in Keys : StartDeploy(k)) \/ DeployContract \/ CheckDeployed
  PROVE  DeploymentInv'
<1> USE DeploymentAssumption
<1>1. CASE \E k \in Keys : StartDeploy(k)
  <2>1. PICK k \in Keys : StartDeploy(k)
    BY <1>1
  <2>2. script' = [at |-> "deploy", contract |-> 0, authorise |-> k, revoke |-> NoKey]
    BY <2>1 DEF StartDeploy, NoScript
  <2>3. UNCHANGED <<contracts, record, pool, unrecorded>> /\ pool = NoTx
    BY <2>1 DEF StartDeploy, Idle1
  <2>4. DeploymentTypeOK' /\ ScriptOK'
    BY <2>2, <2>3 DEF DeploymentInv, DeploymentTypeOK, ScriptOK, Rotating, NoScript
  <2> QED
    BY <2>2, <2>3, <2>4 DEF DeploymentInv, PoolOK, Waited, RecordOK, RecordIsTrue
<1>2. CASE DeployContract
  <2> DEFINE new == [arg |-> script.authorise, relayers |-> {script.authorise}]
  <2>1. /\ script.at = "deploy" /\ script.authorise \in Keys /\ new \in Contract
        /\ contracts' = Append(contracts, new)
        /\ UNCHANGED <<record, pool, unrecorded>>
    BY <1>2 DEF DeployContract, DeploymentInv, ScriptOK, Contract
  <2>2. PICK n : n = new
    OBVIOUS
  <2> HIDE DEF new
  <2>3. /\ contracts' \in Seq(Contract) /\ Len(contracts') = Len(contracts) + 1
        /\ \A id \in DOMAIN contracts : id \in DOMAIN contracts' /\ contracts'[id] = contracts[id]
        /\ contracts'[Len(contracts')] = n /\ Len(contracts') \in DOMAIN contracts'
        /\ \A id \in DOMAIN contracts' : id \in DOMAIN contracts \/ id = Len(contracts')
    BY <2>1, <2>2 DEF DeploymentInv, DeploymentTypeOK
  <2>4. script' = [script EXCEPT !.at = "check", !.contract = Len(contracts')]
    BY <1>2 DEF DeployContract
  <2>5. /\ script'.at = "check" /\ script'.contract = Len(contracts')
        /\ script'.authorise = script.authorise /\ script'.revoke = script.revoke
    BY <2>4 DEF DeploymentInv, DeploymentTypeOK
  <2>51. Len(contracts') \in Nat
    BY <2>3 DEF DeploymentInv, DeploymentTypeOK
  <2>52. script' \in [at : {"none", "deploy", "check", "verify", "authorise", "authorising", "revoke",
                            "revoking", "read", "write"},
                      contract : Nat, authorise : Keys \cup {NoKey}, revoke : Keys \cup {NoKey}]
    BY <2>4, <2>51 DEF DeploymentInv, DeploymentTypeOK
  <2>6. DeploymentTypeOK'
    BY <2>1, <2>3, <2>52 DEF DeploymentInv, DeploymentTypeOK
  <2>7. n.arg = script.authorise /\ n.relayers = {script.authorise}
    BY <2>2 DEF new
  <2>8. ScriptOK'
    BY <2>1, <2>3, <2>5, <2>7 DEF ScriptOK, Rotating, isRelayer, NoScript
  <2>9. PoolOK' /\ Waited' /\ RecordOK'
    BY <2>1, <2>3, <2>5 DEF DeploymentInv, PoolOK, Waited, RecordOK
  <2>10. RecordIsTrue'
    BY <2>1, <2>3, <2>7 DEF DeploymentInv, RecordOK, RecordIsTrue
  <2> QED
    BY <2>6, <2>8, <2>9, <2>10 DEF DeploymentInv
<1>3. CASE CheckDeployed
  <2>1. /\ script.at = "check" /\ script' = [script EXCEPT !.at = "verify"]
        /\ UNCHANGED <<contracts, record, pool, unrecorded>>
    BY <1>3 DEF CheckDeployed, Steps1
  <2>2. /\ script'.at = "verify" /\ script'.contract = script.contract
        /\ script'.authorise = script.authorise /\ script'.revoke = script.revoke
    BY <2>1 DEF DeploymentInv, DeploymentTypeOK
  <2>3. DeploymentTypeOK'
    BY <2>1 DEF DeploymentInv, DeploymentTypeOK
  <2>4. ScriptOK'
    BY <2>1, <2>2 DEF DeploymentInv, ScriptOK, Rotating, isRelayer, NoScript
  <2> QED
    BY <2>1, <2>2, <2>3, <2>4 DEF DeploymentInv, PoolOK, Waited, RecordOK, RecordIsTrue
<1> QED
  BY <1>1, <1>2, <1>3

(* The two steps that write the file, and the end of a script.             *)
LEMMA WriteStep ==
  ASSUME DeploymentInv, WriteDeployment \/ WriteRotation \/ ScriptStops
  PROVE  DeploymentInv'
<1> USE DeploymentAssumption
<1>1. /\ script.at # "none" /\ script' = NoScript /\ UNCHANGED <<contracts, pool>>
      /\ NoScript.at = "none" /\ NoScript.authorise = NoKey
  BY DEF WriteDeployment, WriteRotation, ScriptStops, Ends1, DeploymentInv, ScriptOK, NoScript
<1>2. ScriptOK' /\ PoolOK' /\ Waited'
  BY <1>1 DEF DeploymentInv, ScriptOK, PoolOK, Waited, Rotating
<1>3. script' \in [at : {"none", "deploy", "check", "verify", "authorise", "authorising", "revoke",
                         "revoking", "read", "write"},
                   contract : Nat, authorise : Keys \cup {NoKey}, revoke : Keys \cup {NoKey}]
  BY <1>1 DEF NoScript
<1>4. CASE WriteDeployment
  <2>1. PICK verified \in BOOLEAN :
           record' = [NoRecord EXCEPT !.contract = script.contract,
                                      !.relayerAddress = script.authorise, !.verified = verified]
    BY <1>4 DEF WriteDeployment
  <2>2. record' = [contract |-> script.contract, relayerAddress |-> script.authorise,
                   constructorArgs |-> NoKey, verified |-> verified]
    BY <2>1 DEF NoRecord
  <2>3. /\ script.contract \in DOMAIN contracts /\ script.authorise \in Keys
        /\ contracts[script.contract].arg = script.authorise
        /\ script.authorise \in contracts[script.contract].relayers
        /\ unrecorded' = FALSE
    BY <1>4 DEF WriteDeployment, DeploymentInv, ScriptOK, isRelayer
  <2>4. DeploymentTypeOK'
    BY <1>1, <1>3, <2>2, <2>3 DEF DeploymentInv, DeploymentTypeOK
  <2>5. RecordOK' /\ RecordIsTrue'
    BY <1>1, <2>2, <2>3 DEF DeploymentInv, RecordOK, RecordIsTrue
  <2> QED
    BY <1>2, <2>4, <2>5 DEF DeploymentInv
<1>5. CASE WriteRotation /\ record = NoRecord
  <2>1. record' = record /\ unrecorded' = FALSE
    BY <1>5 DEF WriteRotation
  <2>2. DeploymentTypeOK'
    BY <1>1, <1>3, <2>1 DEF DeploymentInv, DeploymentTypeOK
  <2>3. NoRecord' = NoRecord
    BY DEF NoRecord
  <2> QED
    BY <1>1, <1>2, <1>5, <2>1, <2>2, <2>3 DEF DeploymentInv, RecordOK, RecordIsTrue
<1>6. CASE WriteRotation /\ record # NoRecord
  <2>1. /\ record' = Updated(script.authorise) /\ unrecorded' = FALSE
        /\ script.contract = record.contract /\ script.authorise \in Keys
        /\ record.contract \in DOMAIN contracts /\ record.relayerAddress \in Keys
        /\ script.authorise \in contracts[record.contract].relayers
    BY <1>6 DEF WriteRotation, DeploymentInv, ScriptOK, Rotating, isRelayer, RecordOK
  <2> DEFINE args == IF record.constructorArgs = NoKey THEN record.relayerAddress
                                                       ELSE record.constructorArgs
  <2>2. /\ contracts[record.contract].arg = args /\ args \in Keys
        /\ record' = [record EXCEPT !.constructorArgs = args, !.relayerAddress = script.authorise]
    BY <1>6, <2>1 DEF Updated, DeploymentInv, DeploymentTypeOK, RecordIsTrue
  <2> HIDE DEF args
  <2>3. /\ record'.contract = record.contract /\ record'.relayerAddress = script.authorise
        /\ record'.constructorArgs = args
        /\ record' \in [contract : Nat, relayerAddress : Keys \cup {NoKey},
                        constructorArgs : Keys \cup {NoKey}, verified : BOOLEAN]
    BY <2>1, <2>2 DEF DeploymentInv, DeploymentTypeOK
  <2>4. DeploymentTypeOK'
    BY <1>1, <1>3, <2>1, <2>3 DEF DeploymentInv, DeploymentTypeOK
  <2>5. RecordOK' /\ RecordIsTrue'
    BY <1>1, <2>1, <2>2, <2>3 DEF DeploymentInv, RecordOK, RecordIsTrue
  <2> QED
    BY <1>2, <2>4, <2>5 DEF DeploymentInv
<1>7. CASE ScriptStops
  <2>1. UNCHANGED <<record, unrecorded>>
    BY <1>7 DEF ScriptStops
  <2> QED
    BY <1>1, <1>2, <1>3, <2>1 DEF DeploymentInv, DeploymentTypeOK, RecordOK, RecordIsTrue
<1> QED
  BY <1>4, <1>5, <1>6, <1>7

(* The steps of a rotation up to the file.                                 *)
LEMMA StartRotationStep ==
  ASSUME DeploymentInv, NEW env \in 0 .. MaxDeploys, NEW a \in Keys, NEW r \in Keys \cup {NoKey},
         StartRotation(env, a, r)
  PROVE  DeploymentInv'
<1> USE DeploymentAssumption
<1>1. PICK c : c = ContractAddress(env)
  OBVIOUS
<1>2. /\ c \in DOMAIN contracts /\ (record # NoRecord => c = record.contract) /\ a # r
      /\ script' = [at |-> "authorise", contract |-> c, authorise |-> a, revoke |-> r]
      /\ pool = NoTx /\ UNCHANGED <<contracts, record, pool, unrecorded>>
  BY <1>1 DEF StartRotation, ContractAddress, Idle1
<1>3. c \in Nat
  BY <1>2 DEF DeploymentInv, DeploymentTypeOK
<1>4. DeploymentTypeOK'
  BY <1>2, <1>3 DEF DeploymentInv, DeploymentTypeOK
<1>5. ScriptOK'
  BY <1>2 DEF ScriptOK, Rotating, NoScript
<1> QED
  BY <1>2, <1>4, <1>5 DEF DeploymentInv, PoolOK, Waited, RecordOK, RecordIsTrue

(* A step of a rotation that changes only where it is, and perhaps sends.  *)
LEMMA RotationGoes ==
  ASSUME DeploymentInv, NEW at \in Rotating, script.at \in Rotating,
         script' = [script EXCEPT !.at = at], UNCHANGED <<contracts, record, unrecorded>>,
         pool = NoTx,
         pool' \in [contract : Nat, relayer : Keys \cup {NoKey}, allowed : BOOLEAN],
         at \in {"revoke", "revoking", "read", "write"} => isRelayer(script.authorise),
         \/ pool' = NoTx /\ (at = "authorising" => isRelayer(script.authorise))
         \/ /\ at = "authorising"
            /\ pool' = [contract |-> script.contract, relayer |-> script.authorise, allowed |-> TRUE]
         \/ /\ at = "revoking" /\ script.revoke \in Keys
            /\ pool' = [contract |-> script.contract, relayer |-> script.revoke, allowed |-> FALSE]
  PROVE  DeploymentInv'
<1> USE DeploymentAssumption
<1>1. /\ script'.at = at /\ script'.contract = script.contract
      /\ script'.authorise = script.authorise /\ script'.revoke = script.revoke
  BY DEF DeploymentInv, DeploymentTypeOK
<1>2. /\ script.contract \in DOMAIN contracts /\ script.authorise \in Keys
      /\ script.authorise # script.revoke
      /\ (record # NoRecord => record.contract = script.contract)
  BY DEF DeploymentInv, ScriptOK, Rotating
<1>3. DeploymentTypeOK'
  BY DEF DeploymentInv, DeploymentTypeOK, Rotating
<1>4. ScriptOK'
  BY <1>1, <1>2 DEF ScriptOK, Rotating, isRelayer, NoScript
<1>5. PoolOK'
  BY <1>1, <1>2 DEF PoolOK, isRelayer
<1>6. Waited'
  BY <1>1 DEF Waited, isRelayer, NoTx
<1> QED
  BY <1>3, <1>4, <1>5, <1>6 DEF DeploymentInv, RecordOK, RecordIsTrue

LEMMA RotationStep ==
  ASSUME DeploymentInv, Authorise \/ Revoke \/ Confirmed1 \/ ReadBack
  PROVE  DeploymentInv'
<1> USE DeploymentAssumption
<1>1. pool = NoTx /\ script.at \in Rotating
  <2>1. CASE Confirmed1
    BY <2>1 DEF Confirmed1, Steps1, Rotating
  <2>2. CASE Authorise \/ Revoke \/ ReadBack
    <3>1. script.at \in {"authorise", "revoke", "read"}
      BY <2>2 DEF Authorise, Revoke, ReadBack, Steps1
    <3> QED
      BY <3>1 DEF DeploymentInv, PoolOK, Rotating
  <2> QED
    BY <2>1, <2>2
<1>2. /\ script.contract \in Nat /\ script.authorise \in Keys
      /\ NoTx \in [contract : Nat, relayer : Keys \cup {NoKey}, allowed : BOOLEAN]
  BY <1>1 DEF DeploymentInv, DeploymentTypeOK, ScriptOK, Rotating, NoTx
<1>3. contracts[script.contract].relayers \subseteq Keys
  <2>1. script.contract \in DOMAIN contracts
    BY <1>1 DEF DeploymentInv, ScriptOK
  <2>2. \A id \in DOMAIN contracts : contracts[id] \in Contract
    BY DEF DeploymentInv, DeploymentTypeOK
  <2> QED
    BY <2>1, <2>2 DEF Contract
<1>4. CASE Authorise /\ isRelayer(script.authorise)
  <2>1. /\ script' = [script EXCEPT !.at = "revoke"]
        /\ UNCHANGED <<contracts, record, pool, unrecorded>>
    BY <1>4 DEF Authorise, Steps1
  <2> QED
    BY <1>1, <1>2, <1>4, <2>1, RotationGoes DEF Rotating
<1>5. CASE Authorise /\ ~isRelayer(script.authorise)
  <2>1. /\ script' = [script EXCEPT !.at = "authorising"]
        /\ UNCHANGED <<contracts, record, unrecorded>>
        /\ pool' = [contract |-> script.contract, relayer |-> script.authorise, allowed |-> TRUE]
    BY <1>5 DEF Authorise, Steps1, Sends
  <2>2. pool' \in [contract : Nat, relayer : Keys \cup {NoKey}, allowed : BOOLEAN]
    BY <1>2, <2>1
  <2> QED
    BY <1>1, <1>2, <1>5, <2>1, <2>2, RotationGoes DEF Rotating
<1>6. CASE Revoke /\ isRelayer(script.revoke)
  <2>1. /\ script.at = "revoke" /\ script' = [script EXCEPT !.at = "revoking"]
        /\ UNCHANGED <<contracts, record, unrecorded>>
        /\ pool' = [contract |-> script.contract, relayer |-> script.revoke, allowed |-> FALSE]
    BY <1>6 DEF Revoke, Steps1, Sends
  <2>2. script.revoke \in Keys
    BY <1>3, <1>6 DEF isRelayer
  <2>3. pool' \in [contract : Nat, relayer : Keys \cup {NoKey}, allowed : BOOLEAN]
    BY <1>2, <2>1, <2>2
  <2>4. isRelayer(script.authorise)
    BY <2>1 DEF DeploymentInv, ScriptOK
  <2> QED
    BY <1>1, <1>2, <2>1, <2>2, <2>3, <2>4, RotationGoes DEF Rotating
<1>7. CASE \/ Revoke /\ ~isRelayer(script.revoke)
           \/ Confirmed1 /\ script.at = "revoking"
  <2>1. /\ script.at \in {"revoke", "revoking"} /\ script' = [script EXCEPT !.at = "read"]
        /\ UNCHANGED <<contracts, record, pool, unrecorded>>
    BY <1>7 DEF Revoke, Confirmed1, Steps1
  <2>2. isRelayer(script.authorise)
    BY <2>1 DEF DeploymentInv, ScriptOK
  <2> QED
    BY <1>1, <1>2, <2>1, <2>2, RotationGoes DEF Rotating
<1>8. CASE Confirmed1 /\ script.at = "authorising"
  <2>1. /\ script' = [script EXCEPT !.at = "revoke"]
        /\ UNCHANGED <<contracts, record, pool, unrecorded>>
    BY <1>8 DEF Confirmed1, Steps1
  <2>2. isRelayer(script.authorise)
    BY <1>1, <1>8 DEF DeploymentInv, Waited
  <2> QED
    BY <1>1, <1>2, <2>1, <2>2, RotationGoes DEF Rotating
<1>9. CASE ReadBack
  <2>1. /\ script.at = "read" /\ script' = [script EXCEPT !.at = "write"]
        /\ UNCHANGED <<contracts, record, pool, unrecorded>> /\ isRelayer(script.authorise)
    BY <1>9 DEF ReadBack, Steps1
  <2> QED
    BY <1>1, <1>2, <2>1, RotationGoes DEF Rotating
<1>10. CASE Confirmed1 /\ script.at \notin {"authorising", "revoking"}
  BY <1>10 DEF Confirmed1, Steps1
<1> QED
  BY <1>4, <1>5, <1>6, <1>7, <1>8, <1>9, <1>10

(* A transaction enters the chain, which changes the relayers of one       *)
(* contract and leaves it one.                                             *)
LEMMA MineStep ==
  ASSUME DeploymentInv, MineRelayerTx
  PROVE  DeploymentInv'
<1> USE DeploymentAssumption
<1> DEFINE left == IF pool.allowed THEN contracts[pool.contract].relayers \cup {pool.relayer}
                                   ELSE contracts[pool.contract].relayers \ {pool.relayer}
<1>1. /\ pool # NoTx /\ pool' = NoTx /\ unrecorded' = TRUE /\ UNCHANGED <<record, script>>
      /\ pool.contract \in DOMAIN contracts /\ pool.relayer \in Keys
      /\ contracts' = [contracts EXCEPT ![pool.contract].relayers = left]
  BY DEF MineRelayerTx, DeploymentInv, PoolOK
<1>2. \A id \in DOMAIN contracts : contracts[id] \in Contract
  BY DEF DeploymentInv, DeploymentTypeOK
<1>3. left \subseteq Keys /\ left # {}
  BY <1>1, <1>2 DEF DeploymentInv, PoolOK, RecordIsTrue, Contract
<1>4. PICK l : l = left
  OBVIOUS
<1>5. PICK c : c = pool.contract
  OBVIOUS
<1>6. contracts' = [contracts EXCEPT ![c].relayers = l] /\ c \in DOMAIN contracts
  BY <1>1, <1>4, <1>5
<1>7. /\ DOMAIN contracts' = DOMAIN contracts
      /\ \A id \in DOMAIN contracts : id # c => contracts'[id] = contracts[id]
      /\ contracts'[c].arg = contracts[c].arg /\ contracts'[c].relayers = l
      /\ contracts'[c] \in Contract
  BY <1>2, <1>3, <1>4, <1>6 DEF Contract
<1>8. contracts' \in Seq(Contract)
  BY <1>2, <1>6, <1>7 DEF DeploymentInv, DeploymentTypeOK
<1>9. DeploymentTypeOK'
  BY <1>1, <1>8 DEF DeploymentInv, DeploymentTypeOK, NoTx
<1>10. script.at \in {"none", "authorising", "revoking"}
  BY <1>1 DEF DeploymentInv, PoolOK
<1>11. script.at = "authorising" =>
         script.contract = c /\ l = contracts[c].relayers \cup {script.authorise}
  BY <1>1, <1>4, <1>5 DEF DeploymentInv, PoolOK
<1>12. script.at = "revoking" =>
         script.contract = c /\ l = contracts[c].relayers \ {script.revoke}
  BY <1>1, <1>4, <1>5 DEF DeploymentInv, PoolOK
<1>13. ScriptOK'
  BY <1>1, <1>7, <1>10, <1>11, <1>12 DEF DeploymentInv, ScriptOK, Rotating, isRelayer, NoScript
<1>14. PoolOK' /\ RecordOK'
  BY <1>1, <1>7 DEF DeploymentInv, PoolOK, RecordOK, NoTx
<1>15. Waited'
  BY <1>1, <1>7, <1>11 DEF Waited, isRelayer
<1>16. RecordIsTrue'
  BY <1>1, <1>3, <1>4, <1>7 DEF DeploymentInv, RecordIsTrue, RecordOK
<1> QED
  BY <1>9, <1>13, <1>14, <1>15, <1>16 DEF DeploymentInv

LEMMA LoseStep ==
  ASSUME DeploymentInv, LoseRelayerTx
  PROVE  DeploymentInv'
<1>1. /\ script.at = "none" /\ pool' = NoTx /\ UNCHANGED <<contracts, record, script, unrecorded>>
  BY DEF LoseRelayerTx, NoScript
<1>2. DeploymentTypeOK'
  BY <1>1 DEF DeploymentInv, DeploymentTypeOK, NoTx
<1>3. ScriptOK' /\ RecordOK' /\ RecordIsTrue'
  BY <1>1 DEF DeploymentInv, ScriptOK, RecordOK, RecordIsTrue, isRelayer
<1>4. PoolOK' /\ Waited'
  BY <1>1 DEF PoolOK, Waited, NoTx
<1> QED
  BY <1>2, <1>3, <1>4 DEF DeploymentInv

(* The file of the network that deploy.ts and the rotation of the relayer  *)
(* write tells the truth, wherever either stops and whatever becomes of    *)
(* the transactions they left in the pool: they wait for the confirmation  *)
(* and read the contract back before they write.                           *)
THEOREM FileOfTheNetworkIsTrue == DeploymentSpec => []RecordIsTrue
<1>1. DeploymentInit => DeploymentInv
  <2>1. ASSUME DeploymentInit PROVE DeploymentTypeOK /\ ScriptOK
    BY <2>1, EmptySeq DEF DeploymentAssumption, DeploymentInit, DeploymentTypeOK, ScriptOK, Rotating,
                           NoRecord, NoScript, NoTx
  <2>2. ASSUME DeploymentInit PROVE PoolOK /\ Waited
    BY <2>2 DEF DeploymentInit, PoolOK, Waited, NoScript
  <2>3. ASSUME DeploymentInit PROVE RecordOK /\ RecordIsTrue
    BY <2>3, EmptySeq DEF DeploymentInit, RecordOK, RecordIsTrue
  <2> QED
    BY <2>1, <2>2, <2>3 DEF DeploymentInv
<1>2. DeploymentInv /\ [DeploymentNext]_deploymentVars => DeploymentInv'
  <2>1. ASSUME DeploymentInv, UNCHANGED deploymentVars PROVE DeploymentInv'
    BY <2>1 DEF deploymentVars, DeploymentInv, DeploymentTypeOK, ScriptOK, PoolOK, Waited, RecordOK,
                RecordIsTrue, isRelayer
  <2> QED
    BY <2>1, DeployStep, WriteStep, StartRotationStep, RotationStep, MineStep, LoseStep
       DEF DeploymentNext
<1>3. DeploymentInv => RecordIsTrue
  BY DEF DeploymentInv
<1> QED
  BY <1>1, <1>2, <1>3, PTL DEF DeploymentSpec

-------------------------------------------------------------------------------
(* The first contract: VTB.sol.                                            *)

RegistryV1Spec == RegistryV1Init /\ [][RegistryV1Next]_registryV1Vars

Election1 == [startTime : Nat, endTime : Nat, active : BOOLEAN, totalVotes : Nat]
Entry     == [nullifier : Witnesses, voteHash : VoteHashes, timestamp : Nat, blockNumber : Nat]

RegistryTypeOK ==
    /\ registry \in Seq(Election1) /\ Len(registry) <= MaxRegistered
    /\ votesOf \in [Registered -> [Witnesses -> VoteHashes \cup {ZeroBytes}]]
    /\ voteHistory \in [Registered -> Seq(Entry)]
    /\ blockTime \in Nat /\ blockNumber \in Nat

VotersOf(id) == {w \in Witnesses : hasVotedV1(id, w)}

(* What AuditsAgree says of the history of one election, and that it is of *)
(* voters and of blocks already mined.                                     *)
HistoryOK(id) ==
    LET history == voteHistory[id]
    IN  /\ IsFiniteSet(VotersOf(id)) /\ Cardinality(VotersOf(id)) = Len(history)
        /\ \A w \in VotersOf(id) : \E i \in DOMAIN history :
              history[i].nullifier = w /\ history[i].voteHash = votesOf[id][w]
        /\ \A i \in DOMAIN history : /\ history[i].nullifier \in VotersOf(id)
                                     /\ history[i].blockNumber <= blockNumber
        /\ \A i, j \in DOMAIN history :
              i < j => /\ history[i].nullifier # history[j].nullifier
                       /\ history[i].blockNumber <= history[j].blockNumber

(* And what it says of the count and of the times of the election.         *)
ElectionOK(id) ==
    /\ registry[id].totalVotes = Len(voteHistory[id])
    /\ \A i \in DOMAIN voteHistory[id] :
          voteHistory[id][i].timestamp \in registry[id].startTime .. registry[id].endTime

RegistryInv ==
    /\ RegistryTypeOK
    /\ \A id \in Registered : HistoryOK(id)
    /\ \A id \in Registered : id > Len(registry) => voteHistory[id] = <<>>
    /\ \A id \in 1 .. Len(registry) : ElectionOK(id)

LEMMA RegistryInvAgrees == RegistryInv => AuditsAgree
<1> SUFFICES ASSUME RegistryInv, NEW id \in 1 .. Len(registry)
             PROVE  LET history == getVoteHistory(id)
                        voters  == {w \in Witnesses : hasVotedV1(id, w)}
                    IN  /\ getVoteCount(id) = Cardinality(voters)
                        /\ getVoteCount(id) = Len(history)
                        /\ \A w \in voters : \E i \in DOMAIN history :
                              history[i].nullifier = w /\ history[i].voteHash = getVoteHash(id, w)
                        /\ \A i, j \in DOMAIN history :
                              i < j => /\ history[i].nullifier # history[j].nullifier
                                       /\ history[i].blockNumber <= history[j].blockNumber
                        /\ \A i \in DOMAIN history :
                              history[i].timestamp \in registry[id].startTime .. registry[id].endTime
  BY DEF AuditsAgree
<1>1. id \in Registered
  BY RegistryV1Assumption DEF RegistryInv, RegistryTypeOK, Registered
<1>2. HistoryOK(id) /\ ElectionOK(id)
  BY <1>1 DEF RegistryInv
<1> QED
  BY <1>2 DEF HistoryOK, ElectionOK, VotersOf, getVoteHistory, getVoteCount, getVoteHash

(* Nothing is said of an election that depends on the others.              *)
LEMMA HistoryStays ==
  ASSUME NEW id \in Registered, HistoryOK(id), votesOf'[id] = votesOf[id],
         voteHistory'[id] = voteHistory[id], blockNumber \in Nat,
         blockNumber' \in {blockNumber, blockNumber + 1}, voteHistory \in [Registered -> Seq(Entry)]
  PROVE  HistoryOK(id)'
<1>1. VotersOf(id)' = VotersOf(id)
  BY DEF VotersOf, hasVotedV1
<1>2. \A i \in DOMAIN voteHistory[id] : voteHistory[id][i].blockNumber \in Nat
  <2>1. voteHistory[id] \in Seq(Entry)
    OBVIOUS
  <2>2. \A i \in DOMAIN voteHistory[id] : voteHistory[id][i] \in Entry
    BY <2>1
  <2> QED
    BY <2>2 DEF Entry
<1> QED
  BY <1>1, <1>2 DEF HistoryOK

LEMMA RegisterStep ==
  ASSUME RegistryInv, NEW s \in Senders, NEW b \in 0 .. LastTime, NEW e \in 0 .. LastTime,
         createElection(s, b, e)
  PROVE  RegistryInv'
<1> USE RegistryV1Assumption
<1> DEFINE new == [startTime |-> b, endTime |-> e, active |-> TRUE, totalVotes |-> 0]
<1>1. /\ Len(registry) < MaxRegistered /\ registry' = Append(registry, new)
      /\ UNCHANGED <<votesOf, voteHistory, blockTime, blockNumber>>
  BY DEF createElection, Chain
<1>2. new \in Election1
  BY DEF Election1
<1>3. PICK n : n = new
  OBVIOUS
<1>4. n.totalVotes = 0 /\ n \in Election1
  BY <1>2, <1>3
<1> HIDE DEF new
<1>5. /\ registry' \in Seq(Election1) /\ Len(registry') = Len(registry) + 1
      /\ \A id \in 1 .. Len(registry) : registry'[id] = registry[id]
      /\ registry'[Len(registry) + 1] = n /\ Len(registry) \in Nat
  BY <1>1, <1>3, <1>4 DEF RegistryInv, RegistryTypeOK
<1>6. RegistryTypeOK'
  BY <1>1, <1>5 DEF RegistryInv, RegistryTypeOK
<1>7. \A id \in Registered : HistoryOK(id)'
  BY <1>1, HistoryStays DEF RegistryInv, RegistryTypeOK
<1>8. \A id \in Registered : id > Len(registry') => voteHistory'[id] = <<>>
  BY <1>1, <1>5 DEF RegistryInv, Registered
<1>9. ASSUME NEW id \in 1 .. Len(registry') PROVE ElectionOK(id)'
  <2>1. CASE id \in 1 .. Len(registry)
    BY <1>1, <1>5, <2>1 DEF RegistryInv, ElectionOK
  <2>2. CASE id = Len(registry) + 1
    <3>1. id \in Registered /\ id > Len(registry)
      BY <1>1, <1>5, <2>2 DEF Registered
    <3>2. voteHistory'[id] = <<>>
      BY <1>1, <3>1 DEF RegistryInv
    <3> QED
      BY <1>4, <1>5, <2>2, <3>2, EmptySeq DEF ElectionOK
  <2> QED
    BY <1>5, <2>1, <2>2
<1> QED
  BY <1>6, <1>7, <1>8, <1>9 DEF RegistryInv

LEMMA StatusStep ==
  ASSUME RegistryInv, NEW s \in Senders, NEW id \in Registered, NEW a \in BOOLEAN,
         setElectionStatus(s, id, a)
  PROVE  RegistryInv'
<1> USE RegistryV1Assumption
<1>1. /\ id \in 1 .. Len(registry) /\ registry' = [registry EXCEPT ![id].active = a]
      /\ UNCHANGED <<votesOf, voteHistory, blockTime, blockNumber>>
  BY DEF setElectionStatus, existsElection, Chain
<1>2. \A other \in 1 .. Len(registry) : registry[other] \in Election1
  BY DEF RegistryInv, RegistryTypeOK
<1>21. PICK election : election = [registry[id] EXCEPT !.active = a]
  OBVIOUS
<1>22. registry[id] \in Election1
  BY <1>1, <1>2
<1>23. /\ election \in Election1 /\ election.totalVotes = registry[id].totalVotes
       /\ election.startTime = registry[id].startTime /\ election.endTime = registry[id].endTime
  BY <1>21, <1>22 DEF Election1
<1>24. registry' = [registry EXCEPT ![id] = election]
  BY <1>1, <1>21
<1>3. /\ registry' \in Seq(Election1) /\ Len(registry') = Len(registry)
      /\ \A other \in 1 .. Len(registry) :
            /\ registry'[other].totalVotes = registry[other].totalVotes
            /\ registry'[other].startTime = registry[other].startTime
            /\ registry'[other].endTime = registry[other].endTime
  <2>1. registry \in Seq(Election1)
    BY DEF RegistryInv, RegistryTypeOK
  <2>2. \A other \in 1 .. Len(registry) :
           registry'[other] = IF other = id THEN election ELSE registry[other]
    BY <1>1, <1>24, <2>1
  <2>3. registry' \in Seq(Election1) /\ Len(registry') = Len(registry)
    BY <1>1, <1>23, <1>24, <2>1, ExceptSeq
  <2> QED
    BY <1>23, <2>2, <2>3
<1>4. RegistryTypeOK'
  BY <1>1, <1>3 DEF RegistryInv, RegistryTypeOK
<1>5. \A other \in Registered : HistoryOK(other)'
  BY <1>1, HistoryStays DEF RegistryInv, RegistryTypeOK
<1>6. \A other \in 1 .. Len(registry') : ElectionOK(other)'
  BY <1>1, <1>3 DEF RegistryInv, ElectionOK
<1> QED
  BY <1>1, <1>3, <1>4, <1>5, <1>6 DEF RegistryInv

LEMMA CastStep ==
  ASSUME RegistryInv, NEW id \in Registered, NEW w \in Witnesses, NEW hash \in VoteHashes,
         castVote(id, w, hash)
  PROVE  RegistryInv'
<1> USE RegistryV1Assumption
<1>1. PICK entry : entry = Record1(w, hash)
  OBVIOUS
<1>2. /\ entry \in Entry /\ entry.nullifier = w /\ entry.voteHash = hash
      /\ entry.timestamp = blockTime /\ entry.blockNumber = blockNumber
  BY <1>1 DEF Record1, Entry, RegistryInv, RegistryTypeOK
<1>3. /\ votesOf[id][w] = ZeroBytes /\ hash # ZeroBytes
      /\ id \in 1 .. Len(registry) /\ blockTime \in registry[id].startTime .. registry[id].endTime
      /\ votesOf' = [votesOf EXCEPT ![id][w] = hash]
      /\ registry' = [registry EXCEPT ![id].totalVotes = @ + 1]
      /\ voteHistory' = [voteHistory EXCEPT ![id] = Append(@, entry)]
      /\ UNCHANGED <<blockTime, blockNumber>>
  <2>1. registry[id] \in Election1 /\ blockTime \in Nat /\ id \in 1 .. Len(registry)
    BY DEF castVote, Cast1, existsElection, RegistryInv, RegistryTypeOK
  <2>2. registry[id].startTime \in Nat /\ registry[id].endTime \in Nat
    BY <2>1 DEF Election1
  <2> QED
    BY <1>1, <2>1, <2>2 DEF castVote, Cast1, existsElection, electionIsActive, hasVotedV1, Chain
<1>4. \A other \in 1 .. Len(registry) : registry[other] \in Election1
  BY DEF RegistryInv, RegistryTypeOK
<1>5. /\ registry' \in Seq(Election1) /\ Len(registry') = Len(registry)
      /\ \A other \in 1 .. Len(registry) :
            /\ other # id => registry'[other] = registry[other]
            /\ registry'[other].startTime = registry[other].startTime
            /\ registry'[other].endTime = registry[other].endTime
      /\ registry'[id].totalVotes = registry[id].totalVotes + 1
  <2>1. PICK election : election = [registry[id] EXCEPT !.totalVotes = @ + 1]
    OBVIOUS
  <2>2. registry[id] \in Election1 /\ registry' = [registry EXCEPT ![id] = election]
    BY <1>3, <1>4, <2>1
  <2>3. /\ election \in Election1 /\ election.totalVotes = registry[id].totalVotes + 1
        /\ election.startTime = registry[id].startTime /\ election.endTime = registry[id].endTime
    BY <2>1, <2>2 DEF Election1
  <2>4. registry \in Seq(Election1)
    BY DEF RegistryInv, RegistryTypeOK
  <2>5. id \in 1 .. Len(registry) /\ election \in Election1
    BY <1>3, <2>3
  <2>6. PICK changed : changed = [registry EXCEPT ![id] = election]
    OBVIOUS
  <2>7. /\ changed \in Seq(Election1) /\ Len(changed) = Len(registry)
        /\ \A other \in 1 .. Len(registry) :
              changed[other] = IF other = id THEN election ELSE registry[other]
    BY <2>4, <2>5, <2>6, ExceptSeq
  <2>8. registry' = changed
    BY <2>2, <2>6
  <2> QED
    BY <2>3, <2>5, <2>7, <2>8
<1>6. /\ votesOf' \in [Registered -> [Witnesses -> VoteHashes \cup {ZeroBytes}]]
      /\ \A other \in Registered : other # id => votesOf'[other] = votesOf[other]
      /\ votesOf'[id] = [votesOf[id] EXCEPT ![w] = hash]
  BY <1>3 DEF RegistryInv, RegistryTypeOK
<1>7. PICK old : old = voteHistory[id]
  OBVIOUS
<1>8. PICK longer : longer = Append(old, entry)
  OBVIOUS
<1>9. old \in Seq(Entry)
  BY <1>7 DEF RegistryInv, RegistryTypeOK
<1>10. /\ longer \in Seq(Entry) /\ Len(longer) = Len(old) + 1 /\ Len(old) \in Nat
       /\ DOMAIN old = 1 .. Len(old) /\ DOMAIN longer = 1 .. Len(old) + 1
       /\ \A i \in 1 .. Len(old) : longer[i] = old[i] /\ longer[i] \in Entry
       /\ longer[Len(old) + 1] = entry
  BY <1>2, <1>8, <1>9
<1>11. /\ voteHistory' \in [Registered -> Seq(Entry)] /\ voteHistory'[id] = longer
       /\ \A other \in Registered : other # id => voteHistory'[other] = voteHistory[other]
  BY <1>3, <1>7, <1>8, <1>10 DEF RegistryInv, RegistryTypeOK
<1>12. RegistryTypeOK'
  BY <1>3, <1>5, <1>6, <1>11 DEF RegistryInv, RegistryTypeOK
<1>13. VotersOf(id)' = VotersOf(id) \cup {w} /\ w \notin VotersOf(id)
  BY <1>3, <1>6 DEF VotersOf, hasVotedV1, RegistryInv, RegistryTypeOK
<1>14. HistoryOK(id)
  BY DEF RegistryInv
<1>15. HistoryOK(id)'
  <2>1. IsFiniteSet(VotersOf(id))
    BY <1>14 DEF HistoryOK
  <2>2. IsFiniteSet(VotersOf(id)') /\ Cardinality(VotersOf(id)') = Len(longer)
    <3>1. Cardinality(VotersOf(id)) = Len(old)
      BY <1>7, <1>14 DEF HistoryOK
    <3>2. /\ IsFiniteSet(VotersOf(id) \cup {w})
          /\ Cardinality(VotersOf(id) \cup {w}) = Cardinality(VotersOf(id)) + 1
      BY <1>13, <2>1, FS_AddElement
    <3> QED
      BY <1>10, <1>13, <3>1, <3>2
  <2>3. ASSUME NEW v \in VotersOf(id)'
        PROVE  \E i \in DOMAIN longer : longer[i].nullifier = v /\ longer[i].voteHash = votesOf'[id][v]
    <3>1. CASE v = w
      <4>1. votesOf'[id][w] = hash
        BY <1>6 DEF RegistryInv, RegistryTypeOK
      <4> QED
        BY <1>2, <1>10, <3>1, <4>1
    <3>2. CASE v \in VotersOf(id) /\ v # w
      <4>1. PICK i \in DOMAIN old : old[i].nullifier = v /\ old[i].voteHash = votesOf[id][v]
        BY <1>7, <1>14, <3>2 DEF HistoryOK
      <4>2. votesOf'[id][v] = votesOf[id][v]
        BY <1>6, <3>2 DEF RegistryInv, RegistryTypeOK, VotersOf
      <4> QED
        BY <1>10, <4>1, <4>2
    <3> QED
      BY <1>13, <3>1, <3>2
  <2>4. \A i \in 1 .. Len(old) :
           old[i].nullifier \in VotersOf(id) /\ old[i].blockNumber <= blockNumber
    BY <1>7, <1>10, <1>14 DEF HistoryOK
  <2>5. blockNumber \in Nat
    BY DEF RegistryInv, RegistryTypeOK
  <2>6. \A i \in DOMAIN longer : longer[i].nullifier \in VotersOf(id)' /\ longer[i].blockNumber <= blockNumber'
    BY <1>2, <1>3, <1>10, <1>13, <2>4, <2>5
  <2>7. ASSUME NEW i \in DOMAIN longer, NEW j \in DOMAIN longer, i < j
        PROVE  longer[i].nullifier # longer[j].nullifier /\ longer[i].blockNumber <= longer[j].blockNumber
    <3>1. CASE j \in 1 .. Len(old)
      <4>1. i \in 1 .. Len(old) /\ longer[i] = old[i] /\ longer[j] = old[j]
        BY <1>10, <2>7, <3>1
      <4> QED
        BY <1>7, <1>10, <1>14, <2>7, <3>1, <4>1 DEF HistoryOK
    <3>2. CASE j = Len(old) + 1
      <4>1. i \in 1 .. Len(old) /\ longer[i] = old[i] /\ longer[j] = entry
        BY <1>10, <2>7, <3>2
      <4> QED
        BY <1>2, <1>13, <2>4, <4>1
    <3> QED
      BY <1>10, <3>1, <3>2
  <2> QED
    BY <1>11, <2>2, <2>3, <2>6, <2>7 DEF HistoryOK
<1>16. \A other \in Registered : HistoryOK(other)'
  <2> TAKE other \in Registered
  <2>1. CASE other # id
    BY <1>3, <1>6, <1>11, <2>1, HistoryStays DEF RegistryInv, RegistryTypeOK
  <2> QED
    BY <1>15, <2>1
<1>17. \A other \in Registered : other > Len(registry') => voteHistory'[other] = <<>>
  BY <1>3, <1>5, <1>11 DEF RegistryInv, Registered
<1>18. ASSUME NEW other \in 1 .. Len(registry') PROVE ElectionOK(other)'
  <2>1. other \in Registered /\ other \in 1 .. Len(registry) /\ ElectionOK(other)
    BY <1>5 DEF RegistryInv, RegistryTypeOK, Registered
  <2>2. CASE other # id
    BY <1>5, <1>11, <2>1, <2>2 DEF ElectionOK
  <2>3. CASE other = id
    <3>1. registry[id].totalVotes = Len(old)
      BY <1>7, <2>1, <2>3 DEF ElectionOK
    <3>2. \A i \in 1 .. Len(old) : old[i].timestamp \in registry[id].startTime .. registry[id].endTime
      BY <1>7, <1>10, <2>1, <2>3 DEF ElectionOK
    <3>3. \A i \in DOMAIN longer : longer[i].timestamp \in registry'[id].startTime .. registry'[id].endTime
      BY <1>2, <1>3, <1>5, <1>10, <3>2
    <3> QED
      BY <1>5, <1>10, <1>11, <2>3, <3>1, <3>3 DEF ElectionOK
  <2> QED
    BY <2>2, <2>3
<1> QED
  BY <1>12, <1>16, <1>17, <1>18 DEF RegistryInv

LEMMA BlockStep ==
  ASSUME RegistryInv, NextBlock \/ UNCHANGED registryV1Vars
  PROVE  RegistryInv'
<1>1. /\ UNCHANGED <<registry, votesOf, voteHistory>>
      /\ blockNumber' \in {blockNumber, blockNumber + 1} /\ blockTime' \in {blockTime, blockTime + 1}
  BY DEF NextBlock, registryV1Vars
<1>2. RegistryTypeOK'
  BY <1>1 DEF RegistryInv, RegistryTypeOK
<1>3. \A id \in Registered : HistoryOK(id)'
  BY <1>1, HistoryStays DEF RegistryInv, RegistryTypeOK
<1> QED
  BY <1>1, <1>2, <1>3 DEF RegistryInv, ElectionOK

LEMMA RegistryInvariant == RegistryV1Spec => []RegistryInv
<1>1. RegistryV1Init => RegistryInv
  <2> SUFFICES ASSUME RegistryV1Init PROVE RegistryInv
    OBVIOUS
  <2>1. RegistryTypeOK
    BY EmptySeq, RegistryV1Assumption DEF RegistryV1Init, RegistryTypeOK
  <2>2. ASSUME NEW id \in Registered PROVE HistoryOK(id)
    <3>1. VotersOf(id) = {}
      BY DEF RegistryV1Init, VotersOf, hasVotedV1
    <3> QED
      BY <3>1, EmptySeq, FS_EmptySet DEF RegistryV1Init, HistoryOK
  <2> QED
    BY <2>1, <2>2, EmptySeq DEF RegistryV1Init, RegistryInv
<1>2. RegistryInv /\ [RegistryV1Next]_registryV1Vars => RegistryInv'
  <2> SUFFICES ASSUME RegistryInv, [RegistryV1Next]_registryV1Vars PROVE RegistryInv'
    OBVIOUS
  <2>1. CASE NextBlock \/ UNCHANGED registryV1Vars
    BY <2>1, BlockStep
  <2>2. ASSUME NEW s \in Senders, NEW b \in 0 .. LastTime, NEW e \in 0 .. LastTime,
               createElection(s, b, e)
        PROVE  RegistryInv'
    BY <2>2, RegisterStep
  <2>3. ASSUME NEW s \in Senders, NEW id \in Registered, NEW a \in BOOLEAN,
               closeElection(s, id) \/ setElectionStatus(s, id, a)
        PROVE  RegistryInv'
    BY <2>3, StatusStep DEF closeElection
  <2>4. ASSUME NEW id \in Registered, NEW w \in Witnesses, NEW h \in VoteHashes, castVote(id, w, h)
        PROVE  RegistryInv'
    BY <2>4, CastStep
  <2> QED
    BY <2>1, <2>2, <2>3, <2>4 DEF RegistryV1Next
<1> QED
  BY <1>1, <1>2, PTL DEF RegistryV1Spec

(* The count, the mapping and the history of every election of the first   *)
(* contract agree: castVote writes all three or reverts.                   *)
THEOREM FirstContractAuditsAgree == RegistryV1Spec => []AuditsAgree
BY RegistryInvariant, RegistryInvAgrees, PTL

(* What a step does to the box of one election: nothing, a ballot of a     *)
(* witness without one, or the end of its time.                            *)
LEMMA BoxStep ==
  ASSUME RegistryInv, [RegistryV1Next]_registryV1Vars, NEW id \in Registered
  PROVE  UNCHANGED Box1(id)!vars \/ Box1(id)!Next
<1> USE RegistryV1Assumption
<1>1. ASSUME UNCHANGED votesOf, Over1(id) => Over1(id)'
      PROVE  UNCHANGED Box1(id)!vars \/ Box1(id)!Next
  <2>1. Over1(id) \in BOOLEAN /\ Over1(id)' \in BOOLEAN
    BY DEF Over1
  <2>2. UNCHANGED votesOf[id]
    BY <1>1
  <2> QED
    BY <1>1, <2>1, <2>2, Zenon DEF Box1!vars, Box1!Next, Box1!Seal
<1>2. /\ registry \in Seq(Election1) /\ Len(registry) \in Nat /\ blockTime \in Nat /\ id \in Nat
      /\ \A other \in 1 .. Len(registry) : registry[other] \in Election1
      /\ \A e \in Election1 : e.endTime \in Nat /\ e.totalVotes \in Nat
  <2>1. \A e \in Election1 : e.endTime \in Nat /\ e.totalVotes \in Nat
    BY DEF Election1
  <2>2. registry \in Seq(Election1) /\ blockTime \in Nat /\ id \in Nat
    BY DEF RegistryInv, RegistryTypeOK, Registered
  <2> QED
    BY <2>1, <2>2
<1>3. CASE NextBlock \/ UNCHANGED registryV1Vars
  <2>1. UNCHANGED <<registry, votesOf>> /\ blockTime' \in {blockTime, blockTime + 1}
    BY <1>3 DEF NextBlock, registryV1Vars
  <2>2. Over1(id) => Over1(id)'
    <3>1. SUFFICES ASSUME Over1(id) PROVE Over1(id)'
      OBVIOUS
    <3>2. id \in 1 .. Len(registry) /\ blockTime > registry[id].endTime
      BY <3>1 DEF Over1, existsElection
    <3>3. registry[id].endTime \in Nat
      BY <1>2, <3>2
    <3>4. blockTime' > registry[id].endTime
      BY <1>2, <2>1, <3>2, <3>3
    <3> QED
      BY <2>1, <3>2, <3>4 DEF Over1, existsElection
  <2> QED
    BY <1>1, <2>1, <2>2
<1>4. ASSUME NEW s \in Senders, NEW b \in 0 .. LastTime, NEW e \in 0 .. LastTime,
             createElection(s, b, e)
      PROVE  UNCHANGED Box1(id)!vars \/ Box1(id)!Next
  <2> DEFINE new == [startTime |-> b, endTime |-> e, active |-> TRUE, totalVotes |-> 0]
  <2>1. registry' = Append(registry, new) /\ UNCHANGED <<votesOf, blockTime>>
    BY <1>4 DEF createElection, Chain
  <2>2. new \in Election1
    BY DEF Election1
  <2> HIDE DEF new
  <2>3. /\ Len(registry') = Len(registry) + 1
        /\ \A other \in 1 .. Len(registry) : registry'[other] = registry[other]
    BY <1>2, <2>1, <2>2
  <2>4. Over1(id) => Over1(id)'
    BY <1>2, <2>1, <2>3 DEF Over1, existsElection
  <2> QED
    BY <1>1, <2>1, <2>4
<1>5. ASSUME NEW s \in Senders, NEW i \in Registered, NEW a \in BOOLEAN,
             setElectionStatus(s, i, a)
      PROVE  UNCHANGED Box1(id)!vars \/ Box1(id)!Next
  <2>1. /\ i \in 1 .. Len(registry) /\ registry' = [registry EXCEPT ![i].active = a]
        /\ UNCHANGED <<votesOf, blockTime>>
    BY <1>5 DEF setElectionStatus, existsElection, Chain
  <2>2. PICK election : election = [registry[i] EXCEPT !.active = a]
    OBVIOUS
  <2>3. election \in Election1 /\ election.endTime = registry[i].endTime
    BY <1>2, <2>1, <2>2 DEF Election1
  <2>4. registry' = [registry EXCEPT ![i] = election]
    BY <2>1, <2>2
  <2>5. /\ Len(registry') = Len(registry)
        /\ \A other \in 1 .. Len(registry) : registry'[other].endTime = registry[other].endTime
    BY <1>2, <2>1, <2>3, <2>4, ExceptSeq
  <2>6. Over1(id) => Over1(id)'
    BY <1>2, <2>1, <2>5 DEF Over1, existsElection
  <2> QED
    BY <1>1, <2>1, <2>6
<1>6. ASSUME NEW i \in Registered, NEW w \in Witnesses, NEW hash \in VoteHashes, castVote(i, w, hash)
      PROVE  UNCHANGED Box1(id)!vars \/ Box1(id)!Next
  <2>1. /\ i \in 1 .. Len(registry) /\ blockTime <= registry[i].endTime
        /\ hash \in VoteHashes \ {ZeroBytes} /\ votesOf[i][w] = ZeroBytes
        /\ votesOf' = [votesOf EXCEPT ![i][w] = hash]
        /\ registry' = [registry EXCEPT ![i].totalVotes = @ + 1] /\ UNCHANGED blockTime
    BY <1>2, <1>6 DEF castVote, Cast1, existsElection, electionIsActive, hasVotedV1, Chain
  <2>2. PICK election : election = [registry[i] EXCEPT !.totalVotes = @ + 1]
    OBVIOUS
  <2>3. election \in Election1 /\ election.endTime = registry[i].endTime
    <3>1. registry[i] \in Election1 /\ registry[i].totalVotes + 1 \in Nat
      BY <1>2, <2>1
    <3> QED
      BY <2>2, <3>1 DEF Election1
  <2>4. registry' = [registry EXCEPT ![i] = election]
    BY <2>1, <2>2
  <2>5. /\ Len(registry') = Len(registry)
        /\ \A other \in 1 .. Len(registry) : registry'[other].endTime = registry[other].endTime
    BY <1>2, <2>1, <2>3, <2>4, ExceptSeq
  <2>6. Over1(id)' = Over1(id)
    BY <1>2, <2>1, <2>5 DEF Over1, existsElection
  <2>7. votesOf \in [Registered -> [Witnesses -> VoteHashes \cup {ZeroBytes}]]
    BY DEF RegistryInv, RegistryTypeOK
  <2>8. CASE i # id
    <3>1. UNCHANGED votesOf[id]
      BY <2>1, <2>7, <2>8
    <3> QED
      BY <2>6, <3>1 DEF Box1!vars
  <2>9. CASE i = id
    <3>1. votesOf'[id] = [votesOf[id] EXCEPT ![w] = hash]
      BY <2>1, <2>7, <2>9
    <3>2. ~Over1(id)
      BY <1>2, <2>1, <2>9 DEF Over1
    <3>3. Box1(id)!Cast(w, hash)
      BY <2>1, <2>6, <2>9, <3>1, <3>2 DEF Box1!Cast
    <3> QED
      BY <2>1, <3>3 DEF Box1!Next
  <2> QED
    BY <2>8, <2>9
<1> QED
  BY <1>3, <1>4, <1>5, <1>6 DEF RegistryV1Next, closeElection

(* Every election of the first contract is a ballot box that its time seals:*)
(* castVote refuses a second vote of a witness and any vote after the end, *)
(* and closeElection and setElectionStatus touch neither votes nor times.  *)
THEOREM FirstContractIsBallotBoxes == RegistryV1Spec => FirstElectionsAreBallotBoxes
<1>1. RegistryV1Init => \A id \in Registered : Box1(id)!Init
  <2> SUFFICES ASSUME RegistryV1Init, NEW id \in Registered PROVE Box1(id)!Init
    OBVIOUS
  <2>1. Over1(id) = FALSE
    BY EmptySeq DEF RegistryV1Init, Over1, existsElection
  <2> QED
    BY <2>1 DEF RegistryV1Init, Box1!Init
<1>2. RegistryInv /\ [RegistryV1Next]_registryV1Vars
      => [\A id \in Registered : UNCHANGED Box1(id)!vars \/ Box1(id)!Next]_registryV1Vars
  BY BoxStep
<1> QED
  BY <1>1, <1>2, RegistryInvariant, PTL DEF RegistryV1Spec, FirstElectionsAreBallotBoxes

===============================================================================
