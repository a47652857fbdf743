---------------------------- MODULE SessionsProofs ----------------------------
(***************************************************************************)
(* Proofs about Sessions, for any accounts, requests, tokens and links,    *)
(* and however often the database fails or the server restarts:            *)
(*   - a refresh token is exchanged once;                                  *)
(*   - a cut of the sessions of an account ends all those that did not     *)
(*     race it;                                                            *)
(*   - a one-use link resets a password once.                              *)
(***************************************************************************)
EXTENDS Sessions, TLAPS

TypeOK ==
    /\ users \in [Users -> Account]
    /\ tokens \in [Tokens -> Token \cup {None}]
    /\ links \in [Links -> Link \cup {None}]
    /\ jwt \subseteq Users
    /\ reqs \in [Requests -> Request]
    /\ cuts \in [Users -> Nat]
    /\ crashes \in Nat

Issued == {t \in Tokens : tokens[t] # None}

Busy(q) == q.stage \notin {"new", "done", "failed"}

(* What a request has read and has not acted on yet: rows that exist, of   *)
(* the account it is about.                                                *)
Knows(q) ==
    /\ Busy(q) => q.user \in Users
    /\ q.stage = "issue" => q.token = None
    /\ q.stage = "mark" => q.op = "reset"
    /\ q.stage \in {"user", "claim", "insert"} =>
          q.token \in Issued /\ tokens[q.token].user = q.user
    /\ q.op = "reset" /\ Busy(q) =>
          q.link \in Links /\ links[q.link] # None /\ q.pass \in Passwords
    /\ q.op = "change" /\ q.stage \in {"update", "revoke", "commit"} => q.pass \in Passwords

(* A request that will issue a token is as old as its credentials, and     *)
(* knows if it raced a cut since then.                                     *)
Dated(q) ==
    q.stage \in {"issue", "user", "claim", "insert"} =>
        /\ q.era <= cuts[q.user]
        /\ q.era < cuts[q.user] =>
              q.raced \/ (q.token # None /\ tokens[q.token].raced)

(* A rotation that has claimed its token finds it unrevoked until it ends. *)
Claimed(q) == q.stage = "insert" => ~tokens[q.token].revoked

(* A cut that has listed what to revoke misses only tokens that raced it.  *)
MissesOnlyRacers(q) ==
    q.stage = "commit" =>
        /\ q.seen \subseteq Issued
        /\ \A t \in Issued \ q.seen : tokens[t].user = q.user => tokens[t].raced

ReqOK(q) == q \in Request /\ Knows(q) /\ Dated(q) /\ Claimed(q) /\ MissesOnlyRacers(q)

(* Two rotations never hold the same token.                                *)
OneClaim ==
    \A r, s \in Requests :
        HoldsToken(r) /\ HoldsToken(s) /\ reqs[r].token = reqs[s].token => r = s

TokenOK(t) ==
    /\ tokens[t].heirs <= 1
    /\ ~tokens[t].revoked => tokens[t].heirs = 0
    /\ tokens[t].era <= cuts[tokens[t].user]
    /\ ~tokens[t].revoked /\ tokens[t].era < cuts[tokens[t].user] => tokens[t].raced

SessionInv ==
    /\ TypeOK
    /\ \A r \in Requests : ReqOK(reqs[r])
    /\ \A t \in Issued : TokenOK(t)
    /\ OneClaim

LEMMA IssuedToken ==
  ASSUME TypeOK, NEW t \in Issued
  PROVE  /\ t \in Tokens /\ tokens[t] \in Token /\ tokens[t].user \in Users
         /\ tokens[t].era \in Nat /\ tokens[t].heirs \in Nat
         /\ tokens[t].revoked \in BOOLEAN /\ tokens[t].raced \in BOOLEAN
BY DEF TypeOK, Issued, Token

LEMMA InitSessionInv == Init => SessionInv
<1> SUFFICES ASSUME Init PROVE SessionInv
  OBVIOUS
<1>1. PICK u \in Users : /\ tokens = [t \in Tokens |-> IF Fresh0(t) THEN FirstToken(u) ELSE None]
                         /\ jwt = {u}
  BY DEF Init
<1>2. /\ FirstToken(u) \in Token /\ FirstToken(u).heirs = 0 /\ FirstToken(u).era = 0
      /\ FirstToken(u).user = u
  BY DEF FirstToken, Token
<1>3. NewRequest \in Request /\ NewRequest.stage = "new" /\ NewRequest.op = "none"
  BY DEF NewRequest, Request, Ops
<1>4. TypeOK
  BY <1>1, <1>2, <1>3 DEF Init, TypeOK
<1>5. \A r \in Requests : ReqOK(reqs[r])
  BY <1>3 DEF Init, ReqOK, Knows, Busy, Dated, Claimed, MissesOnlyRacers
<1>6. \A t \in Issued : TokenOK(t)
  BY <1>1, <1>2 DEF Init, TokenOK, Issued
<1>7. OneClaim
  BY <1>3 DEF Init, OneClaim, HoldsToken
<1> QED
  BY <1>4, <1>5, <1>6, <1>7 DEF SessionInv

(***************************************************************************)
(* Steps that only move one request.                                       *)
(***************************************************************************)
(* A request stays as it has to be if the rows it knows keep their history *)
(* and it is not the one whose token is being rotated.                     *)
LEMMA OkRequest ==
  ASSUME NEW s \in Requests, ReqOK(reqs'[s]),
         \A t \in Issued : /\ t \in Issued' /\ tokens'[t].user = tokens[t].user
                           /\ tokens[t].raced => tokens'[t].raced,
         \A l \in Links : links[l] # None => links'[l] # None,
         cuts' = cuts,
         HoldsToken(s)' => tokens'[reqs'[s].token].revoked = tokens[reqs'[s].token].revoked,
         \A t \in Issued' \ Issued :
             reqs'[s].stage = "commit" /\ tokens'[t].user = reqs'[s].user => tokens'[t].raced
  PROVE  ReqOK(reqs[s])'
<1> DEFINE q == reqs'[s]
<1>1. q \in Request /\ Knows(reqs[s])'
  BY DEF ReqOK, Knows, Busy, Issued
<1>2. Dated(reqs[s])' /\ Claimed(reqs[s])'
  BY DEF ReqOK, Dated, Claimed, Knows, Issued, HoldsToken
<1>3. MissesOnlyRacers(reqs[s])'
  BY DEF ReqOK, MissesOnlyRacers, Issued
<1> QED
  BY <1>1, <1>2, <1>3 DEF ReqOK

LEMMA RequestsMove ==
  ASSUME SessionInv, UNCHANGED <<tokens, links, cuts>>,
         users' \in [Users -> Account], jwt' \subseteq Users, crashes' \in Nat,
         reqs' \in [Requests -> Request], \A s \in Requests : ReqOK(reqs'[s]), OneClaim'
  PROVE  SessionInv'
<1> USE DEF SessionInv
<1>1. TypeOK'
  BY DEF TypeOK
<1>2. Issued' = Issued /\ \A t \in Issued : TokenOK(t)'
  BY DEF Issued, TokenOK
<1>3. ASSUME NEW s \in Requests PROVE ReqOK(reqs[s])'
  BY <1>2, OkRequest
<1> QED
  BY <1>1, <1>2, <1>3

LEMMA Moves ==
  ASSUME SessionInv, NEW r \in Requests, NEW q, ReqOK(q), Still,
         reqs' = [reqs EXCEPT ![r] = q],
         q.stage = "insert" => TokenFree(q.token)
  PROVE  SessionInv'
<1>1. \A s \in Requests : reqs'[s] = IF s = r THEN q ELSE reqs[s]
  BY DEF SessionInv, TypeOK
<1>2. /\ reqs' \in [Requests -> Request] /\ \A s \in Requests : ReqOK(reqs'[s])
      /\ users' \in [Users -> Account] /\ jwt' \subseteq Users /\ crashes' \in Nat
  BY <1>1 DEF SessionInv, TypeOK, ReqOK, Still
<1>3. OneClaim'
  BY <1>1 DEF SessionInv, OneClaim, HoldsToken, TokenFree
<1> QED
  BY <1>2, <1>3, RequestsMove DEF Still

(* A request that begins, or ends, has nothing in hand.                    *)
LEMMA RestingOK ==
  ASSUME NEW q \in Request, ~Busy(q)
  PROVE  ReqOK(q)
BY DEF ReqOK, Knows, Busy, Dated, Claimed, MissesOnlyRacers

LEMMA AnsweredRests == Answered \in Request /\ ~Busy(Answered)
BY DEF Answered, NewRequest, Request, Ops, Busy

LEMMA DroppedRests ==
  ASSUME SessionInv, NEW r \in Requests
  PROVE  Dropped(r) \in Request /\ ~Busy(Dropped(r))
<1>1. reqs[r].op \in Ops /\ reqs[r].user \in Users \cup {None}
  BY DEF SessionInv, TypeOK, Request
<1> QED
  BY <1>1 DEF Dropped, NewRequest, Request, Busy

LEMMA EndsStep ==
  ASSUME SessionInv, NEW r \in Requests, Ends(r), Still
  PROVE  SessionInv'
<1>1. Answered.stage # "insert"
  BY DEF Answered, NewRequest
<1> QED
  BY <1>1, AnsweredRests, RestingOK, Moves DEF Ends

LEMMA RefuseStep ==
  ASSUME SessionInv, NEW r \in Requests, Refuse(r)
  PROVE  SessionInv'
BY EndsStep DEF Refuse

LEMMA TxFailsStep ==
  ASSUME SessionInv, NEW r \in Requests, TxFails(r)
  PROVE  SessionInv'
<1>1. Dropped(r).stage # "insert"
  BY DEF Dropped, NewRequest
<1> QED
  BY <1>1, DroppedRests, RestingOK, Moves DEF TxFails

(* The first step of each request.                                         *)
LEMMA LoginReadStep ==
  ASSUME SessionInv, NEW r \in Requests, NEW u \in Users, NEW p \in Passwords, LoginRead(r, u, p)
  PROVE  SessionInv'
<1> DEFINE q == [NewRequest EXCEPT !.op = "login", !.stage = "issue",
                                   !.user = u, !.era = cuts[u]]
<1>1. CASE reqs' = [reqs EXCEPT ![r] = q] /\ Still
  <2>1. cuts[u] \in Nat
    BY DEF SessionInv, TypeOK
  <2>2. /\ q \in Request /\ q.op = "login" /\ q.stage = "issue" /\ q.user = u
        /\ q.era = cuts[u] /\ q.token = None
    BY <2>1 DEF NewRequest, Request, Ops
  <2>3. ReqOK(q)
    BY <2>1, <2>2 DEF ReqOK, Knows, Dated, Claimed, MissesOnlyRacers
  <2> QED
    BY <1>1, <2>2, <2>3, Moves
<1> QED
  BY <1>1, RefuseStep DEF LoginRead

LEMMA RefreshTokenStep ==
  ASSUME SessionInv, NEW r \in Requests, NEW t \in Tokens, RefreshToken(r, t)
  PROVE  SessionInv'
<1> DEFINE q == [NewRequest EXCEPT !.op = "refresh", !.stage = "user",
                                   !.user = tokens[t].user, !.token = t,
                                   !.era = tokens[t].era]
<1>1. CASE ~tokens[t].revoked /\ reqs' = [reqs EXCEPT ![r] = q] /\ Still
  <2>1. t \in Issued
    BY DEF RefreshToken, Issued
  <2>2. tokens[t].user \in Users /\ tokens[t].era \in Nat /\ TokenOK(t)
    BY <2>1, IssuedToken DEF SessionInv
  <2>3. /\ q \in Request /\ q.op = "refresh" /\ q.stage = "user" /\ q.token = t
        /\ q.user = tokens[t].user /\ q.era = tokens[t].era
    BY <2>2 DEF NewRequest, Request, Ops
  <2>4. ReqOK(q)
    BY <1>1, <2>1, <2>2, <2>3, NoneAssumption
       DEF ReqOK, Knows, Dated, Claimed, MissesOnlyRacers, TokenOK
  <2> QED
    BY <1>1, <2>3, <2>4, Moves
<1> QED
  BY <1>1, RefuseStep DEF RefreshToken

(* Requests that begin by naming an account and issue no token.            *)
LEMMA AccountRequestOK ==
  ASSUME SessionInv, NEW u \in Users, NEW op \in {"change", "delete", "profile", "mail", "approve",
                                               "unapprove", "remove"},
         NEW stage \in {"check", "profile", "mail", "approve", "update"},
         op = "change" => stage = "check"
  PROVE  LET q == [NewRequest EXCEPT !.op = op, !.stage = stage, !.user = u]
         IN  ReqOK(q) /\ q.stage # "insert"
<1> DEFINE q == [NewRequest EXCEPT !.op = op, !.stage = stage, !.user = u]
<1>1. q \in Request /\ q.op = op /\ q.stage = stage /\ q.user = u
  BY DEF NewRequest, Request, Ops, Cuts
<1> QED
  BY <1>1 DEF ReqOK, Knows, Dated, Claimed, MissesOnlyRacers

LEMMA AuthenticatedStep ==
  ASSUME SessionInv, NEW r \in Requests, NEW u \in Users,
         NEW op \in {"change", "delete", "profile"}, NEW next \in {"check", "profile"},
         op = "change" => next = "check", Authenticated(r, op, u, next)
  PROVE  SessionInv'
<1> DEFINE q == [NewRequest EXCEPT !.op = op, !.stage = next, !.user = u]
<1>1. CASE reqs' = [reqs EXCEPT ![r] = q] /\ Still
  BY <1>1, AccountRequestOK, Moves
<1> QED
  BY <1>1, RefuseStep DEF Authenticated

LEMMA ForgotReadStep ==
  ASSUME SessionInv, NEW r \in Requests, NEW u \in Users, ForgotRead(r, u)
  PROVE  SessionInv'
<1> DEFINE q == [NewRequest EXCEPT !.op = "mail", !.stage = "mail", !.user = u]
<1>1. CASE reqs' = [reqs EXCEPT ![r] = q] /\ Still
  BY <1>1, AccountRequestOK, Moves
<1> QED
  BY <1>1, RefuseStep DEF ForgotRead

LEMMA AdminReadsStep ==
  ASSUME SessionInv, NEW r \in Requests, NEW u \in Users, NEW op, AdminReads(r, op, u)
  PROVE  SessionInv'
<1> DEFINE stage == IF op = "approve" THEN "approve" ELSE "update"
           q == [NewRequest EXCEPT !.op = op, !.stage = stage, !.user = u]
<1>1. /\ op \in {"approve", "unapprove", "remove"} /\ stage \in {"approve", "update"} /\ Still
      /\ reqs' = [reqs EXCEPT ![r] = [NewRequest EXCEPT !.op = op, !.user = u, !.stage = stage]]
  BY DEF AdminReads
<1>2. [NewRequest EXCEPT !.op = op, !.user = u, !.stage = stage] = q
  BY DEF NewRequest
<1> HIDE DEF stage
<1>3. ReqOK(q) /\ q.stage # "insert"
  BY <1>1, AccountRequestOK
<1> QED
  BY <1>1, <1>2, <1>3, Moves

LEMMA ResetReadStep ==
  ASSUME SessionInv, NEW r \in Requests, NEW l \in Links, NEW p \in Passwords, ResetRead(r, l, p)
  PROVE  SessionInv'
<1> DEFINE q == [NewRequest EXCEPT !.op = "reset", !.stage = "mark",
                                   !.user = links[l].user, !.link = l, !.pass = p]
<1>1. CASE reqs' = [reqs EXCEPT ![r] = q] /\ Still
  <2>1. links[l] # None /\ links[l].user \in Users
    BY DEF ResetRead, SessionInv, TypeOK, Link
  <2>2. /\ q \in Request /\ q.op = "reset" /\ q.stage = "mark" /\ q.link = l
        /\ q.user = links[l].user /\ q.pass = p
    BY <2>1 DEF NewRequest, Request, Ops, Cuts
  <2>3. ReqOK(q)
    BY <2>1, <2>2 DEF ReqOK, Knows, Dated, Claimed, MissesOnlyRacers
  <2> QED
    BY <1>1, <2>2, <2>3, Moves
<1> QED
  BY <1>1, RefuseStep DEF ResetRead

(***************************************************************************)
(* Steps that carry a request on without writing a row.                    *)
(***************************************************************************)
LEMMA GoesRequest ==
  ASSUME SessionInv, NEW r \in Requests, NEW stage \in {"claim", "insert", "update", "revoke", "link"}
  PROVE  LET q == [reqs[r] EXCEPT !.stage = stage]
         IN  /\ q \in Request /\ q.stage = stage /\ q.op = reqs[r].op /\ q.user = reqs[r].user
             /\ q.token = reqs[r].token /\ q.link = reqs[r].link /\ q.pass = reqs[r].pass
             /\ q.era = reqs[r].era /\ q.raced = reqs[r].raced
<1>1. reqs[r] \in Request
  BY DEF SessionInv, TypeOK
<1> QED
  BY <1>1 DEF Request

LEMMA RefreshUserStep ==
  ASSUME SessionInv, NEW r \in Requests, RefreshUser(r)
  PROVE  SessionInv'
<1> DEFINE q == [reqs[r] EXCEPT !.stage = "claim"]
<1>1. CASE Goes(r, "claim") /\ Still
  <2>1. reqs' = [reqs EXCEPT ![r] = q]
    BY <1>1 DEF Goes
  <2>2. ReqOK(reqs[r]) /\ reqs[r].stage = "user"
    BY DEF RefreshUser, SessionInv
  <2>3. /\ q \in Request /\ q.stage = "claim" /\ q.op = reqs[r].op /\ q.user = reqs[r].user
        /\ q.token = reqs[r].token /\ q.link = reqs[r].link /\ q.pass = reqs[r].pass
        /\ q.era = reqs[r].era /\ q.raced = reqs[r].raced
    BY GoesRequest
  <2> HIDE DEF q
  <2>4. ReqOK(q)
    BY <2>2, <2>3 DEF ReqOK, Knows, Busy, Dated, Claimed, MissesOnlyRacers
  <2> QED
    BY <1>1, <2>1, <2>3, <2>4, Moves
<1> QED
  BY <1>1, RefuseStep DEF RefreshUser

LEMMA RefreshClaimStep ==
  ASSUME SessionInv, NEW r \in Requests, RefreshClaim(r)
  PROVE  SessionInv'
<1> DEFINE q == [reqs[r] EXCEPT !.stage = "insert"]
<1>1. CASE Goes(r, "insert") /\ Still /\ Rotatable(reqs[r].token)
  <2>1. reqs' = [reqs EXCEPT ![r] = q]
    BY <1>1 DEF Goes
  <2>2. ReqOK(reqs[r]) /\ reqs[r].stage = "claim" /\ TokenFree(reqs[r].token)
    BY DEF RefreshClaim, SessionInv
  <2>3. /\ q \in Request /\ q.stage = "insert" /\ q.op = reqs[r].op /\ q.user = reqs[r].user
        /\ q.token = reqs[r].token /\ q.link = reqs[r].link /\ q.pass = reqs[r].pass
        /\ q.era = reqs[r].era /\ q.raced = reqs[r].raced
    BY GoesRequest
  <2> HIDE DEF q
  <2>4. ReqOK(q)
    BY <1>1, <2>2, <2>3 DEF ReqOK, Knows, Busy, Dated, Claimed, MissesOnlyRacers, Rotatable
  <2> QED
    BY <1>1, <2>1, <2>2, <2>3, <2>4, Moves
<1> QED
  BY <1>1, RefuseStep DEF RefreshClaim

LEMMA ChangeCheckStep ==
  ASSUME SessionInv, NEW r \in Requests, NEW old \in Passwords, NEW new \in Passwords,
         ChangeCheck(r, old, new)
  PROVE  SessionInv'
<1> DEFINE q == [reqs[r] EXCEPT !.stage = "update", !.pass = new]
<1>1. CASE reqs' = [reqs EXCEPT ![r].stage = "update", ![r].pass = new] /\ Still
  <2>1. ReqOK(reqs[r]) /\ reqs[r].stage = "check" /\ reqs[r].op = "change"
    BY DEF ChangeCheck, SessionInv
  <2>2. reqs[r] \in Request /\ reqs' = [reqs EXCEPT ![r] = q]
    BY <1>1 DEF SessionInv, TypeOK
  <2>3. /\ q \in Request /\ q.stage = "update" /\ q.op = "change" /\ q.user = reqs[r].user
        /\ q.pass = new
    BY <2>1, <2>2 DEF Request
  <2>4. ReqOK(q)
    BY <2>1, <2>3 DEF ReqOK, Knows, Busy, Dated, Claimed, MissesOnlyRacers
  <2> QED
    BY <1>1, <2>2, <2>3, <2>4, Moves
<1> QED
  BY <1>1, RefuseStep DEF ChangeCheck

(* A cut that goes on to "update" or "revoke", a mail that goes on to      *)
(* "link".                                                                 *)
LEMMA CutGoesOn ==
  ASSUME SessionInv, NEW r \in Requests, NEW stage \in {"update", "revoke", "link"},
         Busy(reqs[r]),
         reqs[r].op = "change" => stage = "link" \/ reqs[r].stage = "update",
         Goes(r, stage), Still
  PROVE  SessionInv'
<1> DEFINE q == [reqs[r] EXCEPT !.stage = stage]
<1>1. reqs' = [reqs EXCEPT ![r] = q]
  BY DEF Goes
<1>2. ReqOK(reqs[r])
  BY DEF SessionInv
<1>3. /\ q \in Request /\ q.stage = stage /\ q.op = reqs[r].op /\ q.user = reqs[r].user
      /\ q.token = reqs[r].token /\ q.link = reqs[r].link /\ q.pass = reqs[r].pass
  <2>1. stage \in {"claim", "insert", "update", "revoke", "link"}
    OBVIOUS
  <2> HIDE DEF q
  <2>2. SessionInv /\ r \in Requests
    OBVIOUS
  <2> QED
    BY ZenonT(40), <2>1, <2>2, GoesRequest DEF q
<1> HIDE DEF q
<1>4. ReqOK(q)
  BY <1>2, <1>3 DEF ReqOK, Knows, Busy, Dated, Claimed, MissesOnlyRacers
<1> QED
  BY <1>1, <1>3, <1>4, Moves

LEMMA DeleteCheckStep ==
  ASSUME SessionInv, NEW r \in Requests, NEW old \in Passwords, DeleteCheck(r, old)
  PROVE  SessionInv'
<1>1. Busy(reqs[r]) /\ reqs[r].op # "change"
  BY DEF DeleteCheck, Busy
<1>2. CASE Goes(r, "update") /\ Still
  BY <1>1, <1>2, CutGoesOn
<1> QED
  BY <1>2, RefuseStep DEF DeleteCheck

LEMMA MailReadStep ==
  ASSUME SessionInv, NEW r \in Requests, MailRead(r)
  PROVE  SessionInv'
<1>1. Busy(reqs[r])
  BY DEF MailRead, Busy
<1>2. CASE Goes(r, "link") /\ Still
  BY <1>1, <1>2, CutGoesOn
<1> QED
  BY <1>2, RefuseStep DEF MailRead

LEMMA ResetMarkStep ==
  ASSUME SessionInv, NEW r \in Requests, ResetMark(r)
  PROVE  SessionInv'
<1>1. Busy(reqs[r]) /\ reqs[r].op # "change"
  BY DEF ResetMark, Busy, SessionInv, ReqOK, Knows
<1>2. CASE Goes(r, "update") /\ Still
  BY <1>1, <1>2, CutGoesOn
<1> QED
  BY <1>2, RefuseStep DEF ResetMark

LEMMA CutUpdateStep ==
  ASSUME SessionInv, NEW r \in Requests, CutUpdate(r)
  PROVE  SessionInv'
<1>1. Busy(reqs[r]) /\ reqs[r].stage = "update"
  BY DEF CutUpdate, Busy
<1> QED
  BY <1>1, CutGoesOn DEF CutUpdate

(* A cut lists every token of the account there is.                        *)
LEMMA CutRevokeStep ==
  ASSUME SessionInv, NEW r \in Requests, CutRevoke(r)
  PROVE  SessionInv'
<1> DEFINE seen == Visible(reqs[r].user)
           q == [reqs[r] EXCEPT !.stage = "commit", !.seen = seen]
<1>1. reqs[r] \in Request /\ ReqOK(reqs[r]) /\ reqs[r].stage = "revoke"
  BY DEF CutRevoke, SessionInv, TypeOK
<1>2. reqs' = [reqs EXCEPT ![r] = q] /\ Still
  BY <1>1 DEF CutRevoke, SessionInv, TypeOK
<1>3. seen \subseteq Tokens
  BY DEF Visible
<1> HIDE DEF seen
<1>4. /\ q \in Request /\ q.stage = "commit" /\ q.op = reqs[r].op /\ q.user = reqs[r].user
      /\ q.link = reqs[r].link /\ q.pass = reqs[r].pass /\ q.seen = seen
  BY <1>1, <1>3 DEF Request
<1> HIDE DEF q
<1>5. MissesOnlyRacers(q)
  BY <1>4 DEF MissesOnlyRacers, Issued, seen, Visible
<1>6. ReqOK(q)
  BY <1>1, <1>4, <1>5 DEF ReqOK, Knows, Busy, Dated, Claimed
<1> QED
  BY <1>2, <1>4, <1>6, Moves

LEMMA ProfileWriteStep ==
  ASSUME SessionInv, NEW r \in Requests, ProfileWrite(r)
  PROVE  SessionInv'
BY EndsStep DEF ProfileWrite

(***************************************************************************)
(* Steps that write an account or a link, and restarts.                    *)
(***************************************************************************)
LEMMA ApproveStep ==
  ASSUME SessionInv, NEW r \in Requests, Approve(r)
  PROVE  SessionInv'
<1>1. \A s \in Requests : reqs'[s] = IF s = r THEN Answered ELSE reqs[s]
  BY DEF Approve, Ends, SessionInv, TypeOK
<1>2. /\ reqs' \in [Requests -> Request] /\ \A s \in Requests : ReqOK(reqs'[s])
      /\ Answered.stage # "insert"
  BY <1>1, AnsweredRests, RestingOK DEF SessionInv, TypeOK, Approve, Ends, Answered, NewRequest
<1>3. OneClaim'
  BY <1>1, <1>2 DEF SessionInv, OneClaim, HoldsToken
<1>4. users' \in [Users -> Account]
  BY DEF Approve, SessionInv, TypeOK, Account
<1>5. jwt' \subseteq Users /\ crashes' \in Nat
  BY DEF Approve, SessionInv, TypeOK
<1> QED
  BY <1>2, <1>3, <1>4, <1>5, RequestsMove DEF Approve

LEMMA AnonymizeStep ==
  ASSUME SessionInv, NEW u \in Users, Anonymize(u)
  PROVE  SessionInv'
<1>1. users' \in [Users -> Account]
  BY DEF Anonymize, SessionInv, TypeOK, Account
<1>2. /\ reqs' \in [Requests -> Request] /\ \A s \in Requests : ReqOK(reqs'[s])
      /\ jwt' \subseteq Users /\ crashes' \in Nat /\ OneClaim'
  BY DEF Anonymize, SessionInv, TypeOK, OneClaim, HoldsToken
<1> QED
  BY <1>1, <1>2, RequestsMove DEF Anonymize

LEMMA CrashStep ==
  ASSUME SessionInv, Crash
  PROVE  SessionInv'
<1>1. \A s \in Requests : reqs'[s] = IF InFlight(s) THEN Dropped(s) ELSE reqs[s]
  BY DEF Crash
<1>2. \A s \in Requests : Dropped(s).stage = "failed"
  BY DEF Dropped, NewRequest
<1>3. \A s \in Requests : reqs'[s] \in Request /\ ReqOK(reqs'[s])
  BY <1>1, DroppedRests, RestingOK DEF SessionInv, TypeOK
<1>4. reqs' \in [Requests -> Request]
  BY <1>3 DEF Crash
<1>5. OneClaim'
  BY <1>1, <1>2 DEF SessionInv, OneClaim, HoldsToken
<1>6. users' \in [Users -> Account] /\ jwt' \subseteq Users /\ crashes' \in Nat
  BY DEF Crash, SessionInv, TypeOK
<1> QED
  BY <1>3, <1>4, <1>5, <1>6, RequestsMove DEF Crash

(***************************************************************************)
(* Steps that write tokens or links, and end their request.                *)
(***************************************************************************)
(* The rows may change if they keep their history, no rotation under way   *)
(* loses its token, and a token issued while a cut holds the account is    *)
(* marked.                                                                 *)
LEMMA RowsMove ==
  ASSUME SessionInv, NEW r \in Requests, Ends(r), UNCHANGED <<users, cuts, crashes>>,
         tokens' \in [Tokens -> Token \cup {None}], links' \in [Links -> Link \cup {None}],
         jwt' \subseteq Users,
         \A t \in Issued : /\ tokens'[t] # None /\ tokens'[t].user = tokens[t].user
                           /\ tokens[t].raced => tokens'[t].raced,
         \A l \in Links : links[l] # None => links'[l] # None,
         \A s \in Requests \ {r} :
             HoldsToken(s) => tokens'[reqs[s].token].revoked = tokens[reqs[s].token].revoked,
         \A t \in Issued' \ Issued : UserFree(tokens'[t].user) \/ tokens'[t].raced,
         \A t \in Issued' : TokenOK(t)'
  PROVE  SessionInv'
<1>1. \A s \in Requests : reqs'[s] = IF s = r THEN Answered ELSE reqs[s]
  BY DEF Ends, SessionInv, TypeOK
<1>2. Answered \in Request /\ Answered.stage = "done" /\ ReqOK(Answered)
  BY AnsweredRests, RestingOK DEF Answered, NewRequest
<1>3. \A s \in Requests : ReqOK(reqs'[s])
  BY <1>1, <1>2 DEF SessionInv
<1>4. TypeOK'
  BY <1>2 DEF SessionInv, TypeOK, Ends
<1>5. ASSUME NEW s \in Requests PROVE ReqOK(reqs[s])'
  <2>1. \A t \in Issued : /\ t \in Issued' /\ tokens'[t].user = tokens[t].user
                          /\ tokens[t].raced => tokens'[t].raced
    BY DEF Issued
  <2>2. HoldsToken(s)' => tokens'[reqs'[s].token].revoked = tokens[reqs'[s].token].revoked
    BY <1>1, <1>2 DEF HoldsToken
  <2>3. \A t \in Issued' \ Issued :
            reqs'[s].stage = "commit" /\ tokens'[t].user = reqs'[s].user => tokens'[t].raced
    BY <1>1, <1>2 DEF UserFree, HoldsUser
  <2> QED
    BY <1>3, <2>1, <2>2, <2>3, OkRequest
<1>6. OneClaim'
  BY <1>1, <1>2 DEF SessionInv, OneClaim, HoldsToken
<1> QED
  BY <1>4, <1>5, <1>6 DEF SessionInv

LEMMA LogoutStep ==
  ASSUME SessionInv, NEW r \in Requests, NEW t \in Tokens, Logout(r, t)
  PROVE  SessionInv'
<1>1. PICK works \in {TRUE, ~DbFaults} : tokens' = [tokens EXCEPT ![t].revoked = @ \/ works]
  BY DEF Logout
<1>2. t \in Issued /\ tokens[t] \in Token /\ TokenFree(t)
  BY IssuedToken DEF Logout, SessionInv, Issued
<1> DEFINE row == [tokens[t] EXCEPT !.revoked = tokens[t].revoked \/ works]
<1>3. /\ row \in Token /\ row.user = tokens[t].user /\ row.raced = tokens[t].raced
      /\ row.heirs = tokens[t].heirs /\ row.era = tokens[t].era
      /\ row.revoked = (tokens[t].revoked \/ works)
  <2>1. (tokens[t].revoked \/ works) \in BOOLEAN
    OBVIOUS
  <2> QED
    BY <1>2, <2>1 DEF Token
<1>4. tokens' = [tokens EXCEPT ![t] = row]
  BY <1>1
<1> HIDE DEF row
<1>5. /\ tokens' \in [Tokens -> Token \cup {None}]
      /\ \A k \in Tokens : tokens'[k] = IF k = t THEN row ELSE tokens[k]
  BY <1>3, <1>4 DEF SessionInv, TypeOK
<1>6. row # None
  BY <1>3, NoneAssumption
<1>7. Issued' = Issued
  BY <1>2, <1>5, <1>6 DEF Issued
<1>8. ASSUME NEW k \in Issued' PROVE TokenOK(k)'
  <2>1. k \in Issued /\ k \in Tokens /\ TokenOK(k) /\ cuts' = cuts
    BY <1>7 DEF SessionInv, Logout, Issued
  <2>2. CASE k = t
    BY <1>3, <1>5, <2>1, <2>2 DEF TokenOK
  <2>3. CASE k # t
    BY <1>5, <2>1, <2>3 DEF TokenOK
  <2> QED
    BY <2>2, <2>3
<1>9. \A s \in Requests \ {r} :
         HoldsToken(s) => tokens'[reqs[s].token].revoked = tokens[reqs[s].token].revoked
  <2> TAKE s \in Requests \ {r}
  <2>1. HoldsToken(s) => reqs[s].token \in Tokens /\ reqs[s].token # t
    BY <1>2 DEF TokenFree, HoldsToken, SessionInv, ReqOK, Knows, Issued
  <2> QED
    BY <1>5, <2>1
<1>10. \A k \in Issued : /\ tokens'[k] # None /\ tokens'[k].user = tokens[k].user
                         /\ tokens[k].raced => tokens'[k].raced
  BY <1>3, <1>5, <1>6 DEF Issued
<1>11. /\ Ends(r) /\ UNCHANGED <<users, links, jwt, cuts, crashes>>
       /\ links' \in [Links -> Link \cup {None}] /\ jwt' \subseteq Users
  BY DEF Logout, SessionInv, TypeOK
<1> QED
  BY <1>5, <1>7, <1>8, <1>9, <1>10, <1>11, RowsMove

LEMMA IssueLinkStep ==
  ASSUME SessionInv, NEW r \in Requests, NEW l \in Links, IssueLink(r, l)
  PROVE  SessionInv'
<1>1. reqs[r].user \in Users
  BY DEF IssueLink, SessionInv, ReqOK, Knows, Busy
<1> DEFINE voided == {k \in Links : links[k] # None /\ links[k].user = reqs[r].user /\ ~links[k].used}
           fresh == [user |-> reqs[r].user, used |-> FALSE]
<1>2. /\ links' = [k \in Links |-> IF k = l THEN fresh
                                   ELSE IF k \in voided THEN [links[k] EXCEPT !.used = TRUE]
                                   ELSE links[k]]
      /\ Ends(r) /\ UNCHANGED <<users, tokens, jwt, cuts, crashes>>
  BY DEF IssueLink
<1>3. fresh \in Link /\ \A k \in voided : [links[k] EXCEPT !.used = TRUE] \in Link
  BY <1>1 DEF SessionInv, TypeOK, Link
<1> HIDE DEF voided, fresh
<1>4. /\ links' \in [Links -> Link \cup {None}]
      /\ \A k \in Links : links[k] # None => links'[k] # None
  BY <1>2, <1>3, NoneAssumption DEF SessionInv, TypeOK
<1>5. Issued' = Issued /\ \A t \in Issued : TokenOK(t)'
  BY <1>2 DEF Issued, TokenOK, SessionInv
<1>6. \A t \in Issued : tokens'[t] # None /\ tokens'[t] = tokens[t]
  BY <1>2 DEF Issued
<1>7. tokens' \in [Tokens -> Token \cup {None}] /\ jwt' \subseteq Users /\ tokens' = tokens
  BY <1>2 DEF SessionInv, TypeOK
<1> QED
  BY <1>2, <1>4, <1>5, <1>6, <1>7, RowsMove

(* The row a request issues: as old as its credentials, and marked if it   *)
(* raced a cut or if one holds the account now.                            *)
LEMMA NewTokenOK ==
  ASSUME SessionInv, NEW r \in Requests, reqs[r].stage \in {"issue", "insert"}
  PROVE  LET n == NewToken(r)
         IN  /\ n \in Token /\ n # None /\ n.user = reqs[r].user /\ n.user \in Users
             /\ n.heirs = 0 /\ ~n.revoked /\ n.era <= cuts[n.user]
             /\ n.era < cuts[n.user] => n.raced
             /\ UserFree(n.user) \/ n.raced
<1> DEFINE u == reqs[r].user
           line == IF reqs[r].token = None THEN FALSE ELSE tokens[reqs[r].token].raced
           raced == line \/ reqs[r].raced \/ ~UserFree(u)
<1>1. reqs[r] \in Request /\ Knows(reqs[r]) /\ Dated(reqs[r])
  BY DEF SessionInv, ReqOK, TypeOK
<1>2. u \in Users /\ reqs[r].era \in Nat /\ reqs[r].raced \in BOOLEAN
  BY <1>1 DEF Knows, Busy, Request
<1>3. line \in BOOLEAN
  BY <1>1, IssuedToken, NoneAssumption DEF Knows, SessionInv
<1>4. /\ reqs[r].era <= cuts[u]
      /\ reqs[r].era < cuts[u] => raced
      /\ UserFree(u) \/ raced
      /\ raced \in BOOLEAN
  BY <1>1, <1>2, <1>3 DEF Dated
<1>5. NewToken(r) = [user |-> u, revoked |-> FALSE, heirs |-> 0, era |-> reqs[r].era, raced |-> raced]
  BY DEF NewToken
<1> HIDE DEF raced
<1>6. NewToken(r) \in Token
  BY <1>2, <1>4, <1>5 DEF Token
<1>7. /\ NewToken(r).user = u /\ NewToken(r).heirs = 0 /\ ~NewToken(r).revoked
      /\ NewToken(r).era = reqs[r].era /\ NewToken(r).raced = raced
  BY <1>5
<1> QED
  BY <1>2, <1>4, <1>6, <1>7, NoneAssumption

LEMMA LoginIssueStep ==
  ASSUME SessionInv, NEW r \in Requests, NEW t \in Tokens, LoginIssue(r, t)
  PROVE  SessionInv'
<1>1. PICK n : n = NewToken(r)
  OBVIOUS
<1>2. /\ n \in Token /\ n # None /\ n.user = reqs[r].user /\ n.user \in Users
      /\ n.heirs = 0 /\ ~n.revoked /\ n.era <= cuts[n.user]
      /\ n.era < cuts[n.user] => n.raced
      /\ UserFree(n.user) \/ n.raced
  BY <1>1, NewTokenOK DEF LoginIssue
<1>3. /\ tokens[t] = None /\ t \notin Issued /\ tokens' = [tokens EXCEPT ![t] = n]
      /\ Ends(r) /\ UNCHANGED <<users, links, cuts, crashes>>
      /\ jwt' = jwt \cup {n.user}
  BY <1>1, <1>2 DEF LoginIssue, Issued
<1>4. /\ tokens' \in [Tokens -> Token \cup {None}]
      /\ \A k \in Tokens : tokens'[k] = IF k = t THEN n ELSE tokens[k]
  BY <1>2, <1>3 DEF SessionInv, TypeOK
<1>5. Issued' = Issued \cup {t}
  BY <1>2, <1>4 DEF Issued
<1>6. \A k \in Issued : k \in Tokens /\ k # t /\ tokens'[k] = tokens[k] /\ tokens[k] # None
  BY <1>3, <1>4 DEF Issued
<1>7. ASSUME NEW k \in Issued' PROVE TokenOK(k)'
  <2>1. CASE k = t
    BY <1>2, <1>3, <1>4, <2>1 DEF TokenOK
  <2>2. CASE k \in Issued
    BY <1>3, <1>6, <2>2 DEF TokenOK, SessionInv
  <2> QED
    BY <1>5, <2>1, <2>2
<1>8. \A s \in Requests \ {r} :
         HoldsToken(s) => tokens'[reqs[s].token].revoked = tokens[reqs[s].token].revoked
  BY <1>6 DEF HoldsToken, SessionInv, ReqOK, Knows
<1>9. \A k \in Issued' \ Issued : UserFree(tokens'[k].user) \/ tokens'[k].raced
  BY <1>2, <1>4, <1>5
<1>10. links' \in [Links -> Link \cup {None}] /\ links' = links /\ jwt' \subseteq Users
  BY <1>2, <1>3 DEF SessionInv, TypeOK
<1> QED
  BY <1>3, <1>4, <1>6, <1>7, <1>8, <1>9, <1>10, RowsMove

(* The old token is revoked and has its only heir.                         *)
LEMMA RefreshInsertStep ==
  ASSUME SessionInv, NEW r \in Requests, NEW t \in Tokens, RefreshInsert(r, t)
  PROVE  SessionInv'
<1>1. PICK n : n = NewToken(r)
  OBVIOUS
<1>2. /\ n \in Token /\ n # None /\ n.user = reqs[r].user /\ n.user \in Users
      /\ n.heirs = 0 /\ ~n.revoked /\ n.era <= cuts[n.user]
      /\ n.era < cuts[n.user] => n.raced
      /\ UserFree(n.user) \/ n.raced
  BY <1>1, NewTokenOK DEF RefreshInsert
<1>3. PICK old : old = reqs[r].token
  OBVIOUS
<1>4. /\ old \in Issued /\ old \in Tokens /\ tokens[old] \in Token /\ tokens[old].heirs = 0
      /\ TokenOK(old) /\ HoldsToken(r)
  BY <1>3, IssuedToken DEF RefreshInsert, SessionInv, ReqOK, Knows, Claimed, TokenOK, HoldsToken, Issued
<1>5. PICK row : row = Spent(tokens[old])
  OBVIOUS
<1>6. /\ row \in Token /\ row.user = tokens[old].user /\ row.raced = tokens[old].raced
      /\ row.heirs = 1 /\ row.era = tokens[old].era /\ row.revoked
  <2>1. row = [tokens[old] EXCEPT !.revoked = TRUE, !.heirs = 1]
    BY <1>4, <1>5 DEF Spent
  <2> QED
    BY <1>4, <2>1 DEF Token
<1>7. row # None /\ old # t /\ t \notin Issued /\ tokens[t] = None
  BY <1>4, <1>6, NoneAssumption DEF RefreshInsert, Issued
<1>8. /\ tokens' = [tokens EXCEPT ![old] = row, ![t] = n]
      /\ Ends(r) /\ UNCHANGED <<users, links, cuts, crashes>>
      /\ jwt' = jwt \cup {n.user}
  <2>1. tokens' = [tokens EXCEPT ![old] = Spent(tokens[old]), ![t] = n]
    BY <1>1, <1>3 DEF RefreshInsert
  <2> QED
    BY <1>1, <1>2, <1>5, <2>1 DEF RefreshInsert
<1>9. \A k \in Tokens : tokens'[k] = IF k = t THEN n ELSE IF k = old THEN row ELSE tokens[k]
  BY <1>7, <1>8 DEF SessionInv, TypeOK
<1>10. tokens' \in [Tokens -> Token \cup {None}]
  BY <1>2, <1>6, <1>8, <1>9 DEF SessionInv, TypeOK
<1>11. Issued' = Issued \cup {t}
  BY <1>2, <1>4, <1>7, <1>9 DEF Issued
<1>12. \A k \in Issued \ {old} : k \in Tokens /\ k # t /\ tokens'[k] = tokens[k] /\ tokens[k] # None
  BY <1>7, <1>9 DEF Issued
<1>13. ASSUME NEW k \in Issued' PROVE TokenOK(k)'
  <2>1. CASE k = t
    <3>1. tokens'[k] = n
      BY <1>9, <2>1
    <3> QED
      BY <1>2, <1>8, <3>1 DEF TokenOK
  <2>2. CASE k = old
    <3>1. tokens'[k] = row
      BY <1>4, <1>7, <1>9, <2>2
    <3> QED
      BY <1>4, <1>6, <1>8, <2>2, <3>1 DEF TokenOK
  <2>3. CASE k \in Issued \ {old}
    BY <1>8, <1>12, <2>3 DEF TokenOK, SessionInv
  <2> QED
    BY <1>11, <2>1, <2>2, <2>3
<1>14. \A s \in Requests \ {r} :
         HoldsToken(s) => tokens'[reqs[s].token].revoked = tokens[reqs[s].token].revoked
  <2> TAKE s \in Requests \ {r}
  <2>1. HoldsToken(s) => reqs[s].token \in Issued \ {old}
    BY <1>3, <1>4 DEF HoldsToken, SessionInv, ReqOK, Knows, OneClaim
  <2> QED
    BY <1>12, <2>1
<1>15. \A k \in Issued' \ Issued : UserFree(tokens'[k].user) \/ tokens'[k].raced
  BY <1>2, <1>9, <1>11 DEF Issued
<1>16. links' \in [Links -> Link \cup {None}] /\ links' = links /\ jwt' \subseteq Users
  BY <1>2, <1>8 DEF SessionInv, TypeOK
<1>17. \A k \in Issued : /\ tokens'[k] # None /\ tokens'[k].user = tokens[k].user
                         /\ tokens[k].raced => tokens'[k].raced
  BY <1>4, <1>6, <1>7, <1>9, <1>12
<1> QED
  BY <1>8, <1>10, <1>13, <1>14, <1>15, <1>16, <1>17, RowsMove

(***************************************************************************)
(* The commit of a cut.                                                    *)
(***************************************************************************)
LEMMA CutAccountOK ==
  ASSUME SessionInv, NEW r \in Requests, reqs[r].stage = "commit"
  PROVE  CutAccount(r) \in Account
<1>1. reqs[r].user \in Users /\ users[reqs[r].user] \in Account
  BY DEF SessionInv, TypeOK, ReqOK, Knows, Busy
<1>2. reqs[r].op \in {"change", "reset"} => reqs[r].pass \in Passwords
  BY DEF SessionInv, ReqOK, Knows, Busy
<1> QED
  BY <1>1, <1>2 DEF CutAccount, Account

(* What it leaves of the tokens: only the listed ones change, and they are *)
(* revoked.                                                                *)
LEMMA CutTokens ==
  ASSUME SessionInv, NEW r \in Requests, CutCommit(r)
  PROVE  /\ reqs[r].seen \subseteq Issued
         /\ tokens' \in [Tokens -> Token \cup {None}]
         /\ Issued' = Issued
         /\ \A t \in Issued : /\ tokens'[t].user = tokens[t].user /\ tokens'[t].era = tokens[t].era
                              /\ tokens'[t].heirs = tokens[t].heirs
                              /\ tokens'[t].raced = tokens[t].raced
                              /\ tokens'[t].revoked = (tokens[t].revoked \/ t \in reqs[r].seen)
<1>1. reqs[r].seen \subseteq Issued
  BY DEF SessionInv, ReqOK, MissesOnlyRacers, CutCommit
<1>2. tokens' = [t \in Tokens |-> IF t \in reqs[r].seen
                                  THEN [tokens[t] EXCEPT !.revoked = TRUE]
                                  ELSE tokens[t]]
  BY DEF CutCommit
<1>3. ASSUME NEW t \in Issued
      PROVE  LET k == [tokens[t] EXCEPT !.revoked = TRUE]
             IN  /\ k \in Token /\ k # None /\ k.user = tokens[t].user /\ k.era = tokens[t].era
                 /\ k.heirs = tokens[t].heirs /\ k.raced = tokens[t].raced /\ k.revoked
  <2>1. tokens[t] \in Token
    BY IssuedToken DEF SessionInv
  <2>2. [tokens[t] EXCEPT !.revoked = TRUE] \in Token
    BY <2>1 DEF Token
  <2> QED
    BY <2>1, <2>2, NoneAssumption DEF Token
<1>4. tokens' \in [Tokens -> Token \cup {None}]
  BY <1>1, <1>2, <1>3 DEF SessionInv, TypeOK
<1>5. \A t \in Tokens : tokens'[t] # None <=> tokens[t] # None
  BY <1>1, <1>2, <1>3 DEF Issued
<1>6. Issued' = Issued
  BY <1>5 DEF Issued
<1>7. ASSUME NEW t \in Issued
      PROVE  /\ tokens'[t].user = tokens[t].user /\ tokens'[t].era = tokens[t].era
             /\ tokens'[t].heirs = tokens[t].heirs
             /\ tokens'[t].raced = tokens[t].raced
             /\ tokens'[t].revoked = (tokens[t].revoked \/ t \in reqs[r].seen)
  <2>1. t \in Tokens /\ tokens[t].revoked \in BOOLEAN
    BY IssuedToken DEF SessionInv
  <2>2. CASE t \in reqs[r].seen
    <3>1. tokens'[t] = [tokens[t] EXCEPT !.revoked = TRUE]
      BY <1>2, <2>1, <2>2
    <3> QED
      BY <1>3, <2>2, <3>1
  <2>3. CASE t \notin reqs[r].seen
    BY <1>2, <2>1, <2>3
  <2> QED
    BY <2>2, <2>3
<1> QED
  BY <1>1, <1>4, <1>6, <1>7

(* What it leaves of the other requests: those of the account have raced   *)
(* it.                                                                     *)
LEMMA CutRequests ==
  ASSUME SessionInv, NEW r \in Requests, CutCommit(r), NEW s \in Requests, s # r
  PROVE  /\ reqs'[s] \in Request
         /\ reqs'[s].op = reqs[s].op /\ reqs'[s].stage = reqs[s].stage
         /\ reqs'[s].user = reqs[s].user /\ reqs'[s].token = reqs[s].token
         /\ reqs'[s].link = reqs[s].link /\ reqs'[s].pass = reqs[s].pass
         /\ reqs'[s].seen = reqs[s].seen /\ reqs'[s].era = reqs[s].era
         /\ reqs[s].raced => reqs'[s].raced
         /\ Busy(reqs[s]) /\ reqs[s].user = reqs[r].user => reqs'[s].raced
<1>1. reqs[s] \in Request
  BY DEF SessionInv, TypeOK
<1>2. reqs'[s] = IF Busy(reqs[s]) /\ reqs[s].user = reqs[r].user
                 THEN [reqs[s] EXCEPT !.raced = TRUE]
                 ELSE reqs[s]
  BY DEF CutCommit, InFlight, Busy
<1>3. CASE Busy(reqs[s]) /\ reqs[s].user = reqs[r].user
  <2>1. reqs'[s] = [reqs[s] EXCEPT !.raced = TRUE]
    BY <1>2, <1>3
  <2>2. [reqs[s] EXCEPT !.raced = TRUE] \in Request
    BY <1>1 DEF Request
  <2>3. /\ [reqs[s] EXCEPT !.raced = TRUE].raced
        /\ \A f \in {"op", "stage", "user", "token", "link", "pass", "seen", "era"} :
               [reqs[s] EXCEPT !.raced = TRUE][f] = reqs[s][f]
    BY <1>1 DEF Request
  <2> QED
    BY <2>1, <2>2, <2>3
<1>4. CASE ~(Busy(reqs[s]) /\ reqs[s].user = reqs[r].user)
  <2>1. reqs'[s] = reqs[s]
    BY <1>2, <1>4
  <2> QED
    BY <1>1, <1>4, <2>1
<1> QED
  BY <1>3, <1>4

LEMMA CutCommitStep ==
  ASSUME SessionInv, NEW r \in Requests, CutCommit(r)
  PROVE  SessionInv'
<1> DEFINE u == reqs[r].user
<1>1. u \in Users /\ reqs[r].stage = "commit" /\ MissesOnlyRacers(reqs[r])
  BY DEF CutCommit, SessionInv, ReqOK, Knows, Busy
<1>2. /\ cuts' \in [Users -> Nat]
      /\ \A v \in Users : cuts[v] \in Nat /\ cuts'[v] = IF v = u THEN cuts[v] + 1 ELSE cuts[v]
  BY <1>1 DEF CutCommit, SessionInv, TypeOK
<1>3. reqs'[r] = Answered /\ Answered \in Request /\ ~Busy(Answered) /\ Answered.stage # "insert"
  BY AnsweredRests DEF CutCommit, Answered, NewRequest
<1>4. links' \in [Links -> Link \cup {None}] /\ \A l \in Links : links[l] # None => links'[l] # None
  <2>1. CASE reqs[r].op = "reset"
    <3>1. reqs[r].link \in Links /\ links[reqs[r].link] \in Link
      BY <1>1, <2>1 DEF SessionInv, TypeOK, ReqOK, Knows, Busy
    <3>2. [links[reqs[r].link] EXCEPT !.used = TRUE] \in Link
      BY <3>1 DEF Link
    <3>3. links' = [links EXCEPT ![reqs[r].link] = [links[reqs[r].link] EXCEPT !.used = TRUE]]
      BY <2>1 DEF CutCommit
    <3> QED
      BY <3>1, <3>2, <3>3, NoneAssumption DEF SessionInv, TypeOK
  <2>2. CASE reqs[r].op # "reset"
    BY <2>2 DEF CutCommit, SessionInv, TypeOK
  <2> QED
    BY <2>1, <2>2
<1>5. TypeOK'
  <2>1. users' \in [Users -> Account]
    BY <1>1, CutAccountOK DEF CutCommit, SessionInv, TypeOK
  <2>2. reqs' \in [Requests -> Request]
    <3>1. \A s \in Requests : reqs'[s] \in Request
      BY <1>3, CutRequests
    <3> QED
      BY <3>1 DEF CutCommit
  <2>3. tokens' \in [Tokens -> Token \cup {None}]
    BY CutTokens
  <2> QED
    BY <1>2, <1>4, <2>1, <2>2, <2>3 DEF TypeOK, SessionInv, CutCommit
<1>6. ASSUME NEW s \in Requests, s # r PROVE ReqOK(reqs[s])'
  <2>1. ReqOK(reqs[s])
    BY DEF SessionInv
  <2>2. Knows(reqs[s])'
    BY <1>4, <1>6, <2>1, CutTokens, CutRequests DEF ReqOK, Knows, Busy
  <2>3. Dated(reqs[s])'
    <3>1. SUFFICES ASSUME reqs[s].stage \in {"issue", "user", "claim", "insert"}
                   PROVE  /\ reqs'[s].era <= cuts'[reqs'[s].user]
                          /\ reqs'[s].era < cuts'[reqs'[s].user] =>
                               \/ reqs'[s].raced
                               \/ reqs'[s].token # None /\ tokens'[reqs'[s].token].raced
      BY <1>6, CutRequests DEF Dated
    <3>2. /\ reqs[s].user \in Users /\ reqs[s].era \in Nat /\ Busy(reqs[s])
          /\ reqs[s].era <= cuts[reqs[s].user]
          /\ reqs[s].era < cuts[reqs[s].user] =>
               \/ reqs[s].raced
               \/ reqs[s].token # None /\ tokens[reqs[s].token].raced
      BY <2>1, <3>1 DEF ReqOK, Knows, Dated, Busy, Request
    <3>3. CASE reqs[s].user = u
      BY <1>2, <1>6, <3>2, <3>3, CutRequests
    <3>4. CASE reqs[s].user # u
      <4>1. reqs[s].token # None => reqs[s].token \in Issued
        BY <2>1, <3>1 DEF ReqOK, Knows
      <4> QED
        BY <1>2, <1>6, <3>2, <3>4, <4>1, CutRequests, CutTokens
    <3> QED
      BY <3>3, <3>4
  <2>4. Claimed(reqs[s])'
    <3>1. reqs[s].stage = "insert" => reqs[s].token \in Issued \ reqs[r].seen
      BY <2>1 DEF ReqOK, Knows, CutCommit, TokenFree, HoldsToken
    <3>2. reqs[s].stage = "insert" => ~tokens'[reqs[s].token].revoked
      <4>1. reqs[s].stage = "insert" => ~tokens[reqs[s].token].revoked
        BY <2>1 DEF ReqOK, Claimed
      <4> QED
        BY <3>1, <4>1, CutTokens
    <3> QED
      BY <1>6, <3>2, CutRequests DEF Claimed
  <2>5. MissesOnlyRacers(reqs[s])'
    BY <1>6, <2>1, CutRequests, CutTokens DEF ReqOK, MissesOnlyRacers
  <2>6. reqs'[s] \in Request
    BY <1>6, CutRequests
  <2> QED
    BY <2>2, <2>3, <2>4, <2>5, <2>6 DEF ReqOK
<1>7. ReqOK(reqs[r])'
  BY <1>3 DEF ReqOK, Knows, Busy, Dated, Claimed, MissesOnlyRacers
<1>8. ASSUME NEW t \in Issued' PROVE TokenOK(t)'
  <2>1. /\ t \in Issued /\ TokenOK(t) /\ tokens[t].user \in Users /\ tokens[t].era \in Nat
        /\ cuts[tokens[t].user] \in Nat
    BY <1>2, CutTokens, IssuedToken DEF SessionInv
  <2>2. /\ tokens'[t].user = tokens[t].user /\ tokens'[t].era = tokens[t].era
        /\ tokens'[t].heirs = tokens[t].heirs /\ tokens'[t].raced = tokens[t].raced
        /\ tokens'[t].revoked = (tokens[t].revoked \/ t \in reqs[r].seen)
    BY <2>1, CutTokens
  <2>3. /\ tokens[t].heirs <= 1
        /\ ~tokens[t].revoked => tokens[t].heirs = 0
        /\ tokens[t].era <= cuts[tokens[t].user]
        /\ ~tokens[t].revoked /\ tokens[t].era < cuts[tokens[t].user] => tokens[t].raced
    BY <2>1 DEF TokenOK
  <2>4. tokens[t].user = u => t \in reqs[r].seen \/ tokens[t].raced
    BY <1>1, <2>1 DEF MissesOnlyRacers
  <2>5. /\ tokens'[t].heirs <= 1
        /\ ~tokens'[t].revoked => tokens'[t].heirs = 0
    BY <2>2, <2>3
  <2>6. tokens'[t].era <= cuts'[tokens'[t].user]
    BY <1>2, <2>1, <2>2, <2>3
  <2>7. ~tokens'[t].revoked /\ tokens'[t].era < cuts'[tokens'[t].user] => tokens'[t].raced
    <3>1. CASE tokens[t].user = u
      BY <2>2, <2>4, <3>1
    <3>2. CASE tokens[t].user # u
      BY <1>2, <2>1, <2>2, <2>3, <3>2
    <3> QED
      BY <3>1, <3>2
  <2> QED
    BY <2>5, <2>6, <2>7 DEF TokenOK
<1>9. OneClaim'
  BY <1>3, CutRequests DEF SessionInv, OneClaim, HoldsToken
<1> QED
  BY <1>5, <1>6, <1>7, <1>8, <1>9 DEF SessionInv

(***************************************************************************)
(* Every step.                                                             *)
(***************************************************************************)
LEMMA BeginsStep ==
  ASSUME SessionInv, NEW r \in Requests, Begins(r)
  PROVE  SessionInv'
<1>1. ASSUME NEW u \in Users, NEW p \in Passwords, LoginRead(r, u, p) \/ DemoLoginRead(r, u, p)
      PROVE  SessionInv'
  BY <1>1, LoginReadStep DEF DemoLoginRead
<1>2. ASSUME NEW t \in Tokens, RefreshToken(r, t) \/ Logout(r, t)
      PROVE  SessionInv'
  BY <1>2, RefreshTokenStep, LogoutStep
<1>3. ASSUME NEW u \in Users, \/ Authenticated(r, "change", u, "check")
                              \/ Authenticated(r, "delete", u, "check")
                              \/ Authenticated(r, "profile", u, "profile")
      PROVE  SessionInv'
  BY <1>3, AuthenticatedStep
<1>4. ASSUME NEW u \in Users, ForgotRead(r, u) \/ \E op \in {"approve", "unapprove", "remove"} :
                                                      AdminReads(r, op, u)
      PROVE  SessionInv'
  BY <1>4, ForgotReadStep, AdminReadsStep
<1>5. ASSUME NEW l \in Links, NEW p \in Passwords, ResetRead(r, l, p)
      PROVE  SessionInv'
  BY <1>5, ResetReadStep
<1> QED
  BY <1>1, <1>2, <1>3, <1>4, <1>5 DEF Begins

LEMMA ContinuesStep ==
  ASSUME SessionInv, NEW r \in Requests, Continues(r)
  PROVE  SessionInv'
<1>1. ASSUME NEW t \in Tokens, LoginIssue(r, t) \/ RefreshInsert(r, t)
      PROVE  SessionInv'
  BY <1>1, LoginIssueStep, RefreshInsertStep
<1>2. CASE RefreshUser(r) \/ RefreshClaim(r)
  BY <1>2, RefreshUserStep, RefreshClaimStep
<1>3. ASSUME NEW old \in Passwords, DeleteCheck(r, old) \/ \E new \in Passwords : ChangeCheck(r, old, new)
      PROVE  SessionInv'
  BY <1>3, DeleteCheckStep, ChangeCheckStep
<1>4. CASE ProfileWrite(r) \/ Approve(r)
  BY <1>4, ProfileWriteStep, ApproveStep
<1>5. CASE ResetMark(r) \/ CutUpdate(r) \/ CutRevoke(r) \/ CutCommit(r)
  BY <1>5, ResetMarkStep, CutUpdateStep, CutRevokeStep, CutCommitStep
<1>6. CASE MailRead(r) \/ \E l \in Links : IssueLink(r, l)
  BY <1>6, MailReadStep, IssueLinkStep
<1> QED
  BY <1>1, <1>2, <1>3, <1>4, <1>5, <1>6 DEF Continues

LEMMA StepSessionInv == SessionInv /\ [Next]_vars => SessionInv'
<1> SUFFICES ASSUME SessionInv, [Next]_vars PROVE SessionInv'
  OBVIOUS
<1>1. ASSUME NEW r \in Requests, Begins(r) \/ Continues(r) \/ TxFails(r)
      PROVE  SessionInv'
  BY <1>1, BeginsStep, ContinuesStep, TxFailsStep
<1>2. CASE Crash \/ \E u \in Users : Anonymize(u)
  BY <1>2, CrashStep, AnonymizeStep
<1>3. CASE UNCHANGED vars
  <2>1. UNCHANGED <<users, tokens, links, jwt, reqs, cuts, crashes>>
    BY <1>3 DEF vars
  <2>2. /\ users' \in [Users -> Account] /\ jwt' \subseteq Users /\ crashes' \in Nat
        /\ reqs' \in [Requests -> Request] /\ \A s \in Requests : ReqOK(reqs'[s])
    BY <2>1 DEF SessionInv, TypeOK
  <2>3. OneClaim'
    BY <2>1 DEF SessionInv, OneClaim, HoldsToken
  <2> QED
    BY <2>1, <2>2, <2>3, RequestsMove
<1> QED
  BY <1>1, <1>2, <1>3 DEF Next

THEOREM SessionInvariant == Spec => []SessionInv
<1> QED
  BY InitSessionInv, StepSessionInv, PTL DEF Spec

(* However many requests present a refresh token at once, wherever their   *)
(* transactions fail and whenever the server restarts, one exchanges it    *)
(* (POST /auth/refresh): the conditional UPDATE holds the row until the    *)
(* new token is in.                                                        *)
THEOREM TokensRotateOnce == Spec => []RotatedOnce
<1>1. SessionInv => RotatedOnce
  BY DEF SessionInv, RotatedOnce, Issued, TokenOK
<1> QED
  BY <1>1, SessionInvariant, PTL

(* A change or a reset of the password, a deletion and a withdrawn         *)
(* approval end every session of the account but those whose request, or   *)
(* one before it in its line of rotations, ran beside the cut.             *)
THEOREM CutsSpareOnlyRacers == Spec => []OnlyRacersSurvive
<1>1. SessionInv => OnlyRacersSurvive
  BY DEF SessionInv, OnlyRacersSurvive, Issued, TokenOK
<1> QED
  BY <1>1, SessionInvariant, PTL

(***************************************************************************)
(* Links.                                                                  *)
(***************************************************************************)
(* A reset under way has a link of its account.                            *)
Resets(r) == reqs[r].op = "reset" /\ Busy(reqs[r])

(* A reset that has burned its link finds it unused when it commits: it    *)
(* holds the row until then, and no other reset has it.                    *)
LinkInv ==
    /\ \A r \in Requests : Resets(r) => links[reqs[r].link].user = reqs[r].user
    /\ \A r \in Requests : HoldsLink(r) => ~links[reqs[r].link].used
    /\ \A r, s \in Requests : HoldsLink(r) /\ HoldsLink(s) /\ reqs[r].link = reqs[s].link => r = s

(* A step that has nothing to do with the links of a request: it does not  *)
(* take one, and it does not change the one it has.                        *)
Quiet(r) ==
    Resets(r)' => /\ Resets(r) /\ reqs'[r].link = reqs[r].link /\ reqs'[r].user = reqs[r].user
                  /\ HoldsLink(r)' => HoldsLink(r)

LEMMA HoldersReset == \A r \in Requests : HoldsLink(r) => Resets(r)
BY DEF HoldsLink, Resets, Busy

LEMMA QuietLinks ==
  ASSUME LinkInv, UNCHANGED links, \A r \in Requests : Quiet(r)
  PROVE  LinkInv'
<1>1. \A r \in Requests : HoldsLink(r)' => Resets(r)'
  BY DEF HoldsLink, Resets, Busy
<1> QED
  BY <1>1, HoldersReset DEF LinkInv, Quiet

(* One request moves, and it takes no link.                                *)
LEMMA OneMoves ==
  ASSUME SessionInv, LinkInv, UNCHANGED links, NEW r \in Requests, NEW q,
         reqs' = [reqs EXCEPT ![r] = q],
         q.op = "reset" /\ Busy(q) =>
             /\ Resets(r) /\ q.link = reqs[r].link /\ q.user = reqs[r].user
             /\ q.stage \in {"update", "revoke", "commit"} => HoldsLink(r)
  PROVE  LinkInv'
<1>1. \A s \in Requests : reqs'[s] = IF s = r THEN q ELSE reqs[s]
  BY DEF SessionInv, TypeOK
<1>2. \A s \in Requests : Quiet(s)
  BY <1>1 DEF Quiet, Resets, HoldsLink
<1> QED
  BY <1>2, QuietLinks

LEMMA EndLinks ==
  ASSUME SessionInv, LinkInv, UNCHANGED links, NEW r \in Requests, Ends(r)
  PROVE  LinkInv'
BY AnsweredRests, OneMoves DEF Ends

(* Only the stage changes.                                                 *)
LEMMA GoLinks ==
  ASSUME SessionInv, LinkInv, Still, NEW r \in Requests,
         NEW stage \in {"claim", "insert", "update", "revoke", "link"}, Goes(r, stage),
         Busy(reqs[r]), reqs[r].op = "reset" /\ stage \in {"update", "revoke"} => HoldsLink(r)
  PROVE  LinkInv'
<1> DEFINE q == [reqs[r] EXCEPT !.stage = stage]
<1>1. /\ q.op = reqs[r].op /\ q.link = reqs[r].link /\ q.user = reqs[r].user
      /\ q.stage = stage
  BY GoesRequest
<1>2. reqs' = [reqs EXCEPT ![r] = q] /\ UNCHANGED links
  BY DEF Goes, Still
<1> HIDE DEF q
<1> QED
  BY <1>1, <1>2, OneMoves DEF Resets

(* A request begins that is no reset.                                      *)
LEMMA BeginLinks ==
  ASSUME SessionInv, LinkInv, NEW r \in Requests, Begins(r),
         ~\E l \in Links, p \in Passwords : ResetRead(r, l, p)
  PROVE  LinkInv'
<1>1. ASSUME NEW q, q.op # "reset", reqs' = [reqs EXCEPT ![r] = q], Still
      PROVE  LinkInv'
  BY <1>1, OneMoves DEF Still
<1>2. ASSUME Refuse(r) PROVE LinkInv'
  BY <1>2, EndLinks DEF Refuse, Still
<1>3. ASSUME NEW u \in Users, NEW p \in Passwords, LoginRead(r, u, p) PROVE LinkInv'
  <2> DEFINE q == [NewRequest EXCEPT !.op = "login", !.stage = "issue", !.user = u, !.era = cuts[u]]
  <2>1. q.op # "reset"
    BY DEF NewRequest
  <2> QED
    BY <1>1, <1>2, <1>3, <2>1 DEF LoginRead
<1>4. ASSUME NEW t \in Tokens, RefreshToken(r, t) PROVE LinkInv'
  <2> DEFINE q == [NewRequest EXCEPT !.op = "refresh", !.stage = "user", !.user = tokens[t].user,
                                     !.token = t, !.era = tokens[t].era]
  <2>1. q.op # "reset"
    BY DEF NewRequest
  <2> QED
    BY <1>1, <1>2, <1>4, <2>1 DEF RefreshToken
<1>5. ASSUME NEW t \in Tokens, Logout(r, t) PROVE LinkInv'
  BY <1>5, EndLinks DEF Logout
<1>6. ASSUME NEW u \in Users, NEW op \in {"change", "delete", "profile"}, NEW next,
             Authenticated(r, op, u, next)
      PROVE  LinkInv'
  <2> DEFINE q == [NewRequest EXCEPT !.op = op, !.stage = next, !.user = u]
  <2>1. q.op # "reset"
    BY DEF NewRequest
  <2> QED
    BY <1>1, <1>2, <1>6, <2>1 DEF Authenticated
<1>7. ASSUME NEW u \in Users, ForgotRead(r, u) PROVE LinkInv'
  <2> DEFINE q == [NewRequest EXCEPT !.op = "mail", !.stage = "mail", !.user = u]
  <2>1. q.op # "reset"
    BY DEF NewRequest
  <2> QED
    BY <1>1, <1>2, <1>7, <2>1 DEF ForgotRead
<1>8. ASSUME NEW u \in Users, NEW op \in {"approve", "unapprove", "remove"}, AdminReads(r, op, u)
      PROVE  LinkInv'
  <2> DEFINE q == [NewRequest EXCEPT !.op = op, !.user = u,
                                     !.stage = IF op = "approve" THEN "approve" ELSE "update"]
  <2>1. q.op # "reset"
    BY DEF NewRequest
  <2> QED
    BY <1>1, <1>8, <2>1 DEF AdminReads
<1> QED
  BY <1>3, <1>4, <1>5, <1>6, <1>7, <1>8 DEF Begins, DemoLoginRead

LEMMA ResetReadLinks ==
  ASSUME SessionInv, LinkInv, NEW r \in Requests, NEW l \in Links, NEW p \in Passwords,
         ResetRead(r, l, p)
  PROVE  LinkInv'
<1> DEFINE q == [NewRequest EXCEPT !.op = "reset", !.stage = "mark",
                                   !.user = links[l].user, !.link = l, !.pass = p]
<1>1. CASE reqs' = [reqs EXCEPT ![r] = q] /\ Still
  <2>1. q.stage = "mark" /\ q.user = links[l].user /\ q.link = l
    BY DEF NewRequest
  <2>2. \A s \in Requests : reqs'[s] = IF s = r THEN q ELSE reqs[s]
    BY <1>1 DEF SessionInv, TypeOK
  <2> HIDE DEF q
  <2>3. /\ UNCHANGED links /\ ~HoldsLink(r)'
        /\ \A s \in Requests \ {r} : Resets(s)' = Resets(s) /\ HoldsLink(s)' = HoldsLink(s)
    BY <1>1, <2>1, <2>2 DEF Still, Resets, HoldsLink
  <2> QED
    BY <2>1, <2>2, <2>3 DEF LinkInv
<1>2. CASE Refuse(r)
  BY <1>2, EndLinks DEF Refuse, Still
<1> QED
  BY <1>1, <1>2 DEF ResetRead

(* The row is burned by one reset at a time, and found unused.             *)
LEMMA ResetMarkLinks ==
  ASSUME SessionInv, LinkInv, NEW r \in Requests, ResetMark(r)
  PROVE  LinkInv'
<1>1. CASE Goes(r, "update") /\ Still /\ Burnable(reqs[r].link)
  <2> DEFINE q == [reqs[r] EXCEPT !.stage = "update"]
  <2>1. q.stage = "update" /\ q.op = reqs[r].op /\ q.link = reqs[r].link /\ q.user = reqs[r].user
    BY GoesRequest
  <2>2. \A s \in Requests : reqs'[s] = IF s = r THEN q ELSE reqs[s]
    BY <1>1 DEF Goes, SessionInv, TypeOK
  <2> HIDE DEF q
  <2>3. reqs[r].op = "reset" /\ Resets(r) /\ LinkFree(reqs[r].link) /\ ~links[reqs[r].link].used
    BY <1>1 DEF ResetMark, Burnable, SessionInv, ReqOK, Knows, Resets, Busy
  <2>4. \A s \in Requests \ {r} : Resets(s)' = Resets(s) /\ HoldsLink(s)' = HoldsLink(s)
    BY <2>2 DEF Resets, HoldsLink
  <2>5. \A s \in Requests \ {r} : HoldsLink(s) => reqs[s].link # reqs[r].link
    BY <2>3 DEF LinkFree
  <2>6. UNCHANGED links
    BY <1>1 DEF Still
  <2> QED
    BY <2>1, <2>2, <2>3, <2>4, <2>5, <2>6 DEF LinkInv
<1>2. CASE Refuse(r)
  BY <1>2, EndLinks DEF Refuse, Still
<1> QED
  BY <1>1, <1>2 DEF ResetMark

LEMMA CutRevokeLinks ==
  ASSUME SessionInv, LinkInv, NEW r \in Requests, CutRevoke(r)
  PROVE  LinkInv'
<1> DEFINE q == [reqs[r] EXCEPT !.stage = "commit", !.seen = Visible(reqs[r].user)]
<1>1. reqs[r] \in Request /\ reqs[r].stage = "revoke" /\ UNCHANGED links
  BY DEF CutRevoke, SessionInv, TypeOK, Still
<1>2. reqs' = [reqs EXCEPT ![r] = q]
  BY <1>1 DEF CutRevoke, SessionInv, TypeOK
<1>3. q.op = reqs[r].op /\ q.link = reqs[r].link /\ q.user = reqs[r].user
  BY <1>1 DEF Request
<1>4. reqs[r].op = "reset" => Resets(r) /\ HoldsLink(r)
  BY <1>1 DEF Resets, HoldsLink, Busy
<1> HIDE DEF q
<1> QED
  BY <1>1, <1>2, <1>3, <1>4, OneMoves

(* What the COMMIT of a cut does to the links: the one that a reset holds  *)
(* is used from now on.                                                    *)
LEMMA CutCommitLinks ==
  ASSUME SessionInv, LinkInv, NEW r \in Requests, CutCommit(r)
  PROVE  /\ LinkInv'
         /\ \A l \in Links : links[l] # None =>
               links'[l].user = links[l].user /\ (links[l].used => links'[l].used)
         /\ reqs[r].op = "reset" =>
               /\ links[reqs[r].link].user = reqs[r].user
               /\ ~links[reqs[r].link].used /\ links'[reqs[r].link].used
<1> DEFINE l == reqs[r].link
<1>1. reqs[r].stage = "commit"
  BY DEF CutCommit
<1>2. reqs[r].op = "reset" =>
        /\ HoldsLink(r) /\ Resets(r) /\ l \in Links /\ links[l] \in Link
        /\ links[l].user = reqs[r].user /\ ~links[l].used
  BY <1>1 DEF HoldsLink, Resets, Busy, LinkInv, SessionInv, ReqOK, Knows, TypeOK
<1>3. /\ reqs[r].op # "reset" => links' = links
      /\ reqs[r].op = "reset" => links' = [links EXCEPT ![l].used = TRUE]
  BY DEF CutCommit
<1>4. \A k \in Links : links[k] # None =>
        /\ links'[k].user = links[k].user
        /\ links'[k].used = IF reqs[r].op = "reset" /\ k = l THEN TRUE ELSE links[k].used
  BY ZenonT(40), <1>2, <1>3 DEF SessionInv, TypeOK, Link
<1>5. reqs'[r] = Answered
  BY DEF CutCommit
<1>6. ~Resets(r)' /\ ~HoldsLink(r)'
  BY <1>5, AnsweredRests DEF Resets, HoldsLink, Busy
<1>7. \A s \in Requests \ {r} :
        /\ reqs'[s].op = reqs[s].op /\ reqs'[s].stage = reqs[s].stage
        /\ reqs'[s].link = reqs[s].link /\ reqs'[s].user = reqs[s].user
  BY CutRequests
<1>8. \A s \in Requests : Resets(s) => reqs[s].link \in Links /\ links[reqs[s].link] # None
  BY DEF Resets, SessionInv, ReqOK, Knows
<1>9. \A s \in Requests \ {r} : HoldsLink(s) => reqs[r].op # "reset" \/ reqs[s].link # l
  BY <1>2 DEF LinkInv
<1>10. \A s \in Requests \ {r} : (Resets(s)' => Resets(s)) /\ (HoldsLink(s)' => HoldsLink(s) /\ Resets(s))
  BY <1>7, HoldersReset DEF Resets, HoldsLink, Busy
<1> HIDE DEF l
<1>11. ASSUME NEW s \in Requests, Resets(s)' PROVE links'[reqs'[s].link].user = reqs'[s].user
  <2>1. s # r /\ Resets(s) /\ reqs'[s].link = reqs[s].link /\ reqs'[s].user = reqs[s].user
    BY <1>6, <1>7, <1>10, <1>11
  <2>2. links[reqs[s].link].user = reqs[s].user
    BY <2>1 DEF LinkInv
  <2> QED
    BY <1>4, <1>8, <2>1, <2>2
<1>12. ASSUME NEW s \in Requests, HoldsLink(s)' PROVE ~links'[reqs'[s].link].used
  <2>1. s # r /\ HoldsLink(s) /\ Resets(s) /\ reqs'[s].link = reqs[s].link
    BY <1>6, <1>7, <1>10, <1>12
  <2>2. ~links[reqs[s].link].used
    BY <2>1 DEF LinkInv
  <2> QED
    BY <1>4, <1>8, <1>9, <2>1, <2>2
<1>13. \A s, q \in Requests : HoldsLink(s)' /\ HoldsLink(q)' /\ reqs'[s].link = reqs'[q].link => s = q
  BY <1>6, <1>7, <1>10 DEF LinkInv
<1>14. LinkInv'
  BY <1>11, <1>12, <1>13 DEF LinkInv
<1>15. reqs[r].op = "reset" => links[l] # None /\ links'[l].used
  BY <1>2, <1>4, NoneAssumption
<1> QED
  BY <1>2, <1>4, <1>14, <1>15 DEF l

(* A new link voids the unused ones of its account, none of which is held. *)
LEMMA IssueLinkLinks ==
  ASSUME SessionInv, LinkInv, NEW r \in Requests, NEW l \in Links, IssueLink(r, l)
  PROVE  /\ LinkInv'
         /\ \A k \in Links : links[k] # None =>
               links'[k].user = links[k].user /\ (links[k].used => links'[k].used)
<1> DEFINE voided == {k \in Links : links[k] # None /\ links[k].user = reqs[r].user /\ ~links[k].used}
           fresh == [user |-> reqs[r].user, used |-> FALSE]
<1>1. /\ links' = [k \in Links |-> IF k = l THEN fresh
                                   ELSE IF k \in voided THEN [links[k] EXCEPT !.used = TRUE]
                                   ELSE links[k]]
      /\ links[l] = None /\ Ends(r) /\ \A k \in voided : LinkFree(k)
  BY DEF IssueLink
<1>2. \A k \in Links : links[k] # None => links[k] \in Link
  BY DEF SessionInv, TypeOK
<1>3. \A k \in Links : links[k] # None =>
        /\ links'[k].user = links[k].user /\ (links[k].used => links'[k].used)
        /\ k \notin voided => links'[k] = links[k]
  BY <1>1, <1>2 DEF Link
<1> HIDE DEF voided, fresh
<1>4. \A s \in Requests : reqs'[s] = IF s = r THEN Answered ELSE reqs[s]
  BY <1>1 DEF Ends, SessionInv, TypeOK
<1>5. ~Resets(r)' /\ ~HoldsLink(r)'
  BY <1>4, AnsweredRests DEF Resets, HoldsLink, Busy
<1>6. \A s \in Requests \ {r} : Resets(s)' = Resets(s) /\ HoldsLink(s)' = HoldsLink(s)
  BY <1>4 DEF Resets, HoldsLink
<1>7. \A s \in Requests : Resets(s) => reqs[s].link \in Links /\ links[reqs[s].link] # None
  BY DEF Resets, SessionInv, ReqOK, Knows
<1>8. \A s \in Requests : HoldsLink(s) => reqs[s].link \notin voided
  BY <1>1 DEF LinkFree
<1>9. \A s \in Requests : Resets(s)' => links'[reqs'[s].link].user = reqs'[s].user
  BY <1>3, <1>4, <1>5, <1>6, <1>7 DEF LinkInv
<1>10. \A s \in Requests : HoldsLink(s)' => ~links'[reqs'[s].link].used
  BY <1>3, <1>4, <1>5, <1>6, <1>7, <1>8, HoldersReset DEF LinkInv
<1>11. \A s, q \in Requests : HoldsLink(s)' /\ HoldsLink(q)' /\ reqs'[s].link = reqs'[q].link => s = q
  BY <1>4, <1>5, <1>6 DEF LinkInv
<1> QED
  BY <1>3, <1>9, <1>10, <1>11 DEF LinkInv

LEMMA ContinueLinks ==
  ASSUME SessionInv, LinkInv, NEW r \in Requests, Continues(r)
  PROVE  LinkInv'
<1>1. ASSUME Refuse(r) PROVE LinkInv'
  BY <1>1, EndLinks DEF Refuse, Still
<1>2. ASSUME NEW t \in Tokens, LoginIssue(r, t) \/ RefreshInsert(r, t) PROVE LinkInv'
  BY <1>2, EndLinks DEF LoginIssue, RefreshInsert
<1>3. CASE RefreshUser(r) \/ RefreshClaim(r) \/ MailRead(r)
  <2>1. Busy(reqs[r])
    BY <1>3 DEF RefreshUser, RefreshClaim, MailRead, Busy
  <2> QED
    BY <1>1, <1>3, <2>1, GoLinks DEF RefreshUser, RefreshClaim, MailRead
<1>4. ASSUME NEW old \in Passwords, NEW new \in Passwords, ChangeCheck(r, old, new) PROVE LinkInv'
  <2> DEFINE q == [reqs[r] EXCEPT !.stage = "update", !.pass = new]
  <2>1. CASE reqs' = [reqs EXCEPT ![r].stage = "update", ![r].pass = new] /\ Still
    <3>1. reqs[r] \in Request /\ reqs[r].op = "change" /\ reqs' = [reqs EXCEPT ![r] = q]
      BY <1>4, <2>1 DEF ChangeCheck, SessionInv, TypeOK
    <3>2. q.op # "reset" /\ UNCHANGED links
      BY <2>1, <3>1 DEF Request, Still
    <3> QED
      BY <3>1, <3>2, OneMoves
  <2> QED
    BY <1>1, <1>4, <2>1 DEF ChangeCheck
<1>5. ASSUME NEW old \in Passwords, DeleteCheck(r, old) PROVE LinkInv'
  <2>1. Busy(reqs[r]) /\ reqs[r].op # "reset"
    BY <1>5 DEF DeleteCheck, Busy
  <2> QED
    BY <1>1, <1>5, <2>1, GoLinks DEF DeleteCheck
<1>6. CASE ProfileWrite(r) \/ Approve(r)
  BY <1>6, EndLinks DEF ProfileWrite, Approve, Still
<1>7. CASE CutUpdate(r)
  <2>1. Busy(reqs[r]) /\ (reqs[r].op = "reset" => HoldsLink(r))
    BY <1>7 DEF CutUpdate, Busy, HoldsLink
  <2> QED
    BY <1>7, <2>1, GoLinks DEF CutUpdate
<1> QED
  BY <1>2, <1>3, <1>4, <1>5, <1>6, <1>7, ResetMarkLinks, CutRevokeLinks, CutCommitLinks,
     IssueLinkLinks DEF Continues

(* Requests that are gone hold no link.                                    *)
LEMMA FallLinks ==
  ASSUME SessionInv, LinkInv, \/ Crash
                              \/ \E r \in Requests : TxFails(r)
                              \/ \E u \in Users : Anonymize(u)
                              \/ UNCHANGED vars
  PROVE  LinkInv'
<1>1. ASSUME NEW r \in Requests, TxFails(r) PROVE LinkInv'
  BY <1>1, DroppedRests, OneMoves DEF TxFails, Still
<1>2. CASE Crash
  <2>1. \A s \in Requests : reqs'[s] = reqs[s] \/ reqs'[s] = Dropped(s)
    BY <1>2 DEF Crash
  <2>2. \A s \in Requests : Quiet(s)
    BY <2>1, DroppedRests DEF Quiet, Resets, HoldsLink
  <2> QED
    BY <1>2, <2>2, QuietLinks DEF Crash
<1>3. CASE UNCHANGED <<reqs, links>>
  BY <1>3, QuietLinks DEF Quiet, Resets, HoldsLink
<1> QED
  BY <1>1, <1>2, <1>3 DEF Anonymize, vars

LEMMA LinkInvariant == Spec => []LinkInv
<1>1. Init => LinkInv
  BY DEF Init, LinkInv, Resets, HoldsLink, Busy, NewRequest
<1>2. SessionInv /\ LinkInv /\ [Next]_vars => LinkInv'
  BY BeginLinks, ResetReadLinks, ContinueLinks, FallLinks DEF Next
<1> QED
  BY <1>1, <1>2, SessionInvariant, PTL DEF Spec

(* A one-use link sets the password of its account once, whatever requests *)
(* present it at once and wherever they fail: burning the link and writing *)
(* the password are one transaction, and the row of the link is held from  *)
(* one to the other (POST /auth/reset-password).                           *)
THEOREM LinksResetOnce == Spec => LinksWorkOnce
<1>1. SessionInv /\ LinkInv /\ [Next]_vars => [LinksStay /\ ResetsSpendLinks]_vars
  <2> SUFFICES ASSUME SessionInv, LinkInv, [Next]_vars PROVE LinksStay /\ ResetsSpendLinks
    OBVIOUS
  <2>1. ResetsSpendLinks
    BY CutCommitLinks DEF ResetsSpendLinks
  <2>2. ASSUME UNCHANGED links PROVE LinksStay
    BY <2>2 DEF LinksStay
  <2>3. ASSUME NEW r \in Requests, Begins(r) PROVE UNCHANGED links
    BY <2>3 DEF Begins, LoginRead, DemoLoginRead, RefreshToken, Logout, Authenticated, ForgotRead,
                AdminReads, ResetRead, Refuse, Still
  <2>4. ASSUME NEW r \in Requests, Continues(r), ~CutCommit(r), ~\E l \in Links : IssueLink(r, l)
        PROVE  UNCHANGED links
    <3>1. ASSUME NEW old \in Passwords, DeleteCheck(r, old) \/ \E new \in Passwords : ChangeCheck(r, old, new)
          PROVE  UNCHANGED links
      BY <3>1 DEF DeleteCheck, ChangeCheck, Refuse, Still
    <3>2. ASSUME NEW t \in Tokens, LoginIssue(r, t) \/ RefreshInsert(r, t)
          PROVE  UNCHANGED links
      BY <3>2 DEF LoginIssue, RefreshInsert
    <3>3. CASE RefreshUser(r) \/ RefreshClaim(r) \/ MailRead(r) \/ ResetMark(r)
      BY <3>3 DEF RefreshUser, RefreshClaim, MailRead, ResetMark, Refuse, Still
    <3>4. CASE ProfileWrite(r) \/ Approve(r) \/ CutUpdate(r) \/ CutRevoke(r)
      BY <3>4 DEF ProfileWrite, Approve, CutUpdate, CutRevoke, Still
    <3> QED
      BY <2>4, <3>1, <3>2, <3>3, <3>4 DEF Continues
  <2>5. ASSUME Crash \/ (\E r \in Requests : TxFails(r)) \/ (\E u \in Users : Anonymize(u)) \/ UNCHANGED vars
        PROVE  UNCHANGED links
    BY <2>5 DEF Crash, TxFails, Anonymize, vars, Still
  <2>6. ASSUME NEW r \in Requests, CutCommit(r) \/ \E l \in Links : IssueLink(r, l) PROVE LinksStay
    BY <2>6, CutCommitLinks, IssueLinkLinks DEF LinksStay
  <2>7. LinksStay
    BY <2>2, <2>3, <2>4, <2>5, <2>6 DEF Next
  <2> QED
    BY <2>1, <2>7
<1> QED
  BY <1>1, SessionInvariant, LinkInvariant, PTL DEF Spec, LinksWorkOnce
===============================================================================
