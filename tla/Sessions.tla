------------------------------ MODULE Sessions ------------------------------
(***************************************************************************)
(* Accounts, refresh tokens and one-use links on PostgreSQL: the handlers  *)
(* of backend/src/routes/auth.ts, the account operations of                *)
(* routes/admin/users.ts that end sessions, and the part of the retention  *)
(* job that anonymises accounts.                                           *)
(*                                                                         *)
(* A request is a process: between two of its steps (an await) any other   *)
(* request moves.  Transactions are READ COMMITTED: a statement sees the   *)
(* rows committed when it starts, waits for the rows other transactions    *)
(* hold and then looks at them again, and nothing a transaction writes is  *)
(* seen before its COMMIT.  The statements of one transaction are separate *)
(* steps; its last one and its COMMIT are one.                             *)
(*                                                                         *)
(* A "cut" is an operation meant to end every session of an account: a     *)
(* password change or reset, a deletion, a withdrawn approval.  `cuts`,    *)
(* and the fields era, raced and heirs, are history: they only record what *)
(* happened and no guard reads them.                                       *)
(*                                                                         *)
(* Time: a cookie, a token or a link may have expired whenever it is       *)
(* presented.  That they stay expired is left out: more can happen here    *)
(* than in the code.                                                       *)
(***************************************************************************)
EXTENDS Integers, FiniteSets

CONSTANTS
    Users,          \* accounts
    Requests,       \* requests that will reach the server, each handled once
    Tokens,         \* refresh tokens that can be issued
    Links,          \* one-use links that can be mailed
    Passwords,      \* passwords people type
    Seeded,         \* those the accounts start with; the environment of the
                    \* server has those of the demonstration accounts
    NoPass,         \* the hash of an anonymised account: no password has it
    None,
    DemoUsers,      \* the two demonstration accounts
    DemoLogin,      \* DEMO_LOGIN_ENABLED
    DbFaults,       \* whether the database may fail inside a transaction
    MaxCrashes      \* bound on restarts of the server

ASSUME PassAssumption == NoPass \notin Passwords /\ NoPass # None /\ Seeded \subseteq Passwords

VARIABLES
    users,          \* users: hash, is_approved, deleted_at, anonymized_at
    tokens,         \* refresh_tokens
    links,          \* password_reset_tokens
    jwt,            \* accounts an access cookie was issued for
    reqs,           \* what each request is doing
    cuts,           \* history: how often the sessions of an account were cut
    crashes

vars == <<users, tokens, links, jwt, reqs, cuts, crashes>>

Cuts == {"change", "reset", "delete", "unapprove", "remove"}
Ops  == Cuts \cup {"login", "refresh", "mail", "approve", "profile", "none"}

Account == [pass : Passwords \cup {NoPass}, approved : BOOLEAN,
            deleted : BOOLEAN, anonymized : BOOLEAN]
Token   == [user : Users, revoked : BOOLEAN,
            era : Nat, raced : BOOLEAN, heirs : Nat]
Link    == [user : Users, used : BOOLEAN]
Request == [op : Ops,
            stage : {"new", "user", "claim", "insert", "issue", "check",
                     "mark", "update", "revoke", "commit", "approve",
                     "profile", "mail", "link", "done", "failed"},
            user : Users \cup {None}, token : Tokens \cup {None},
            link : Links \cup {None}, pass : Passwords \cup {None},
            seen : SUBSET Tokens,
            era : Nat, raced : BOOLEAN]

ASSUME NoneAssumption ==
    /\ None \notin Users \cup Tokens \cup Links \cup Passwords
    /\ None \notin Token /\ None \notin Link

NewRequest == [op |-> "none", stage |-> "new", user |-> None, token |-> None,
               link |-> None, pass |-> None, seen |-> {},
               era |-> 0, raced |-> FALSE]

(* Somebody is in already.                                                 *)
Fresh0(t) == t = CHOOSE x \in Tokens : TRUE
FirstToken(u) == [user |-> u, revoked |-> FALSE,
                  era |-> 0, raced |-> FALSE, heirs |-> 0]

Init ==
    /\ users \in [Users -> {a \in Account : a.pass \in Seeded
                                          /\ ~a.deleted /\ ~a.anonymized}]
    /\ \E u \in Users : /\ tokens = [t \in Tokens |-> IF Fresh0(t) THEN FirstToken(u) ELSE None]
                        /\ jwt = {u}
    /\ links = [l \in Links |-> None]
    /\ reqs = [r \in Requests |-> NewRequest]
    /\ cuts = [u \in Users |-> 0]
    /\ crashes = 0

-----------------------------------------------------------------------------
(* Rows held by a transaction until it ends.                               *)

Open(u) == users[u].approved /\ ~users[u].deleted

InFlight(r) == reqs[r].stage \notin {"new", "done", "failed"}

(* UPDATE users ... WHERE id = ? has run and the transaction is not over.  *)
HoldsUser(r) == reqs[r].stage \in {"revoke", "commit"}

UserFree(u) == \A r \in Requests : HoldsUser(r) => reqs[r].user # u

(* The conditional UPDATE of a rotation has run.                           *)
HoldsToken(r) == reqs[r].stage = "insert"

TokenFree(t) == \A r \in Requests : HoldsToken(r) => reqs[r].token # t

(* The UPDATE that burns a link has run.                                   *)
HoldsLink(r) == reqs[r].op = "reset" /\ reqs[r].stage \in {"update", "revoke", "commit"}

LinkFree(l) == \A r \in Requests : HoldsLink(r) => reqs[r].link # l

(* Nothing but the request moves.                                          *)
Still == UNCHANGED <<users, tokens, links, jwt, cuts, crashes>>

Goes(r, stage) == reqs' = [reqs EXCEPT ![r].stage = stage]

(* It is answered, and its locals are gone.                                *)

Answered == [NewRequest EXCEPT !.stage = "done"]
Ends(r) == reqs' = [reqs EXCEPT ![r] = Answered]

(* It dies on the way; what remains says which rows it was working on.     *)
Dropped(r) == [NewRequest EXCEPT !.stage = "failed", !.op = reqs[r].op, !.user = reqs[r].user]

(* A request ends with an answer that changes nothing.                     *)
Refuse(r) == Ends(r) /\ Still

-----------------------------------------------------------------------------
(* Issuing a session.                                                      *)

(* The row setSessionCookies inserts, for a login or for the token that a  *)
(* rotation replaces.  Its history: the era of the credentials it goes     *)
(* back to, and whether a cut ran beside the request, or beside one before *)
(* it in the line.                                                         *)
NewToken(r) ==
    LET u    == reqs[r].user
        line == IF reqs[r].token = None THEN FALSE ELSE tokens[reqs[r].token].raced
    IN  [user |-> u, revoked |-> FALSE, heirs |-> 0,
         era |-> reqs[r].era,
         raced |-> line \/ reqs[r].raced \/ ~UserFree(u)]

(* Token numbers are interchangeable: the next row is any unused one.      *)
Fresh(t) == t = CHOOSE x \in Tokens : tokens[x] = None

(* SELECT the account by address, compare the password with its hash.  The *)
(* comparison uses the row as it was read.                                 *)
LoginRead(r, u, p) ==
    /\ reqs[r].stage = "new"
    /\ IF p = users[u].pass /\ Open(u)
       THEN /\ reqs' = [reqs EXCEPT ![r] =
                  [NewRequest EXCEPT !.op = "login", !.stage = "issue",
                                     !.user = u, !.era = cuts[u]]]
            /\ Still
       ELSE Refuse(r)

(* The same through the button of the front page, for a demonstration      *)
(* account: the password comes from the environment of the server.         *)
DemoLoginRead(r, u, p) ==
    /\ reqs[r].stage = "new"
    /\ DemoLogin /\ u \in DemoUsers /\ p \in Seeded
    /\ LoginRead(r, u, p)

LoginIssue(r, t) ==
    /\ reqs[r].stage = "issue"
    /\ tokens[t] = None /\ Fresh(t)
    /\ tokens' = [tokens EXCEPT ![t] = NewToken(r)]
    /\ jwt' = jwt \cup {reqs[r].user}
    /\ Ends(r)
    /\ UNCHANGED <<users, links, cuts, crashes>>

(* POST /auth/refresh: the row of the presented token.                     *)
RefreshToken(r, t) ==
    /\ reqs[r].stage = "new"
    /\ tokens[t] # None
    /\ \E expired \in BOOLEAN :
       IF ~tokens[t].revoked /\ ~expired
       THEN LET u == tokens[t].user IN
            /\ reqs' = [reqs EXCEPT ![r] =
                  [NewRequest EXCEPT !.op = "refresh", !.stage = "user",
                                     !.user = u, !.token = t,
                                     !.era = tokens[t].era]]
            /\ Still
       ELSE Refuse(r)

RefreshUser(r) ==
    /\ reqs[r].stage = "user"
    /\ IF Open(reqs[r].user)
       THEN Goes(r, "claim") /\ Still
       ELSE Refuse(r)

(* UPDATE ... SET revoked = TRUE WHERE token_hash = ? AND revoked = FALSE: *)
(* after waiting for the row it is evaluated on what was committed.        *)
\* Mutant: without AND revoked = FALSE.
Rotatable_Anyway(t) == TRUE

Rotatable(t) == ~tokens[t].revoked

RefreshClaim(r) ==
    /\ reqs[r].stage = "claim"
    /\ TokenFree(reqs[r].token)
    /\ IF Rotatable(reqs[r].token)
       THEN Goes(r, "insert") /\ Still
       ELSE Refuse(r)

(* What the rotation leaves of the old row; one more has come of it.       *)
Spent(row) == [row EXCEPT !.revoked = TRUE, !.heirs = @ + 1]

(* The INSERT of the new token and the COMMIT of both.                     *)
RefreshInsert(r, t) ==
    /\ reqs[r].stage = "insert"
    /\ tokens[t] = None /\ Fresh(t)
    /\ tokens' = [tokens EXCEPT ![reqs[r].token] = Spent(@), ![t] = NewToken(r)]
    /\ jwt' = jwt \cup {reqs[r].user}
    /\ Ends(r)
    /\ UNCHANGED <<users, links, cuts, crashes>>

(* POST /auth/logout: one statement, whatever the state of the token; a    *)
(* failure of it is swallowed and the answer is the same.                  *)
Logout(r, t) ==
    /\ reqs[r].stage = "new"
    /\ tokens[t] # None /\ TokenFree(t)
    /\ \E works \in {TRUE, ~DbFaults} :
          tokens' = [tokens EXCEPT ![t].revoked = @ \/ works]
    /\ Ends(r)
    /\ UNCHANGED <<users, links, jwt, cuts, crashes>>

-----------------------------------------------------------------------------
(* Cutting sessions.                                                       *)

(* requireAuth: a valid access cookie, of an account that is not deleted.  *)
Authenticated(r, op, u, next) ==
    /\ reqs[r].stage = "new"
    /\ u \in jwt
    /\ \E expired \in BOOLEAN :
       IF ~expired /\ ~users[u].deleted
       THEN /\ reqs' = [reqs EXCEPT ![r] =
                  [NewRequest EXCEPT !.op = op, !.stage = next, !.user = u]]
            /\ Still
       ELSE Refuse(r)

(* PATCH /auth/change-password: the current password is compared with the  *)
(* hash read here; the write comes after hashing the new one.              *)
ChangeCheck(r, old, new) ==
    /\ reqs[r].op = "change" /\ reqs[r].stage = "check"
    /\ IF old = users[reqs[r].user].pass
       THEN /\ reqs' = [reqs EXCEPT ![r].stage = "update", ![r].pass = new]
            /\ Still
       ELSE Refuse(r)

(* DELETE /auth/me, which also asks for the password.                      *)
DeleteCheck(r, old) ==
    /\ reqs[r].op = "delete" /\ reqs[r].stage = "check"
    /\ IF ~users[reqs[r].user].deleted /\ old = users[reqs[r].user].pass
       THEN Goes(r, "update") /\ Still
       ELSE Refuse(r)

(* PATCH /auth/me/profile: one UPDATE of columns nothing here reads.       *)
ProfileWrite(r) ==
    /\ reqs[r].stage = "profile"
    /\ UserFree(reqs[r].user)
    /\ Ends(r)
    /\ Still

(* PATCH /admin/users/:id/approval and DELETE /admin/users/:id, once the   *)
(* administrator has been let through: the target is read and written.     *)
AdminReads(r, op, u) ==
    /\ reqs[r].stage = "new"
    /\ op \in {"approve", "unapprove", "remove"}
    /\ reqs' = [reqs EXCEPT ![r] =
          [NewRequest EXCEPT !.op = op, !.user = u,
                             !.stage = IF op = "approve" THEN "approve" ELSE "update"]]
    /\ Still

Approve(r) ==
    /\ reqs[r].stage = "approve"
    /\ UserFree(reqs[r].user)
    /\ users' = [users EXCEPT ![reqs[r].user].approved = TRUE]
    /\ Ends(r)
    /\ UNCHANGED <<tokens, links, jwt, cuts, crashes>>

(* POST /auth/reset-password: the row of the link, then the conditional    *)
(* UPDATE that burns it.                                                   *)
ResetRead(r, l, new) ==
    /\ reqs[r].stage = "new"
    /\ links[l] # None
    /\ \E expired \in BOOLEAN :
       IF ~links[l].used /\ ~expired
       THEN /\ reqs' = [reqs EXCEPT ![r] =
                  [NewRequest EXCEPT !.op = "reset", !.stage = "mark",
                                     !.user = links[l].user, !.link = l,
                                     !.pass = new]]
            /\ Still
       ELSE Refuse(r)

\* Mutant: without AND used_at IS NULL.
Burnable_Anyway(l) == TRUE

Burnable(l) == ~links[l].used

ResetMark(r) ==
    /\ reqs[r].stage = "mark"
    /\ LinkFree(reqs[r].link)
    /\ IF Burnable(reqs[r].link)
       THEN Goes(r, "update") /\ Still
       ELSE Refuse(r)

(* UPDATE users: waits for the row, then holds it.                         *)
CutUpdate(r) ==
    /\ reqs[r].stage = "update"
    /\ UserFree(reqs[r].user)
    /\ Goes(r, "revoke")
    /\ Still

(* UPDATE refresh_tokens ... WHERE user_id = ?: the rows it will revoke    *)
(* are those committed when it starts.                                     *)
\* Mutant: only one session is ended, as a logout does.
Visible_One(u) ==
    LET mine == {t \in Tokens : tokens[t] # None /\ tokens[t].user = u}
    IN  {t \in mine : t = CHOOSE x \in mine : TRUE}

Visible(u) == {t \in Tokens : tokens[t] # None /\ tokens[t].user = u}

CutRevoke(r) ==
    /\ reqs[r].stage = "revoke"
    /\ reqs' = [reqs EXCEPT ![r].stage = "commit", ![r].seen = Visible(reqs[r].user)]
    /\ Still

(* What each cut writes in the account.                                    *)
CutAccount(r) ==
    LET a == users[reqs[r].user] IN
    CASE reqs[r].op \in {"change", "reset"} -> [a EXCEPT !.pass = reqs[r].pass]
      [] reqs[r].op = "unapprove"           -> [a EXCEPT !.approved = FALSE]
      [] OTHER                              -> [a EXCEPT !.deleted = TRUE]

(* ... once the rows it revokes are free, and the COMMIT.                  *)
CutCommit(r) ==
    LET u == reqs[r].user IN
    /\ reqs[r].stage = "commit"
    /\ \A t \in reqs[r].seen : TokenFree(t)
    /\ users' = [users EXCEPT ![u] = CutAccount(r)]
    /\ tokens' = [t \in Tokens |-> IF t \in reqs[r].seen
                                   THEN [tokens[t] EXCEPT !.revoked = TRUE]
                                   ELSE tokens[t]]
    /\ links' = IF reqs[r].op = "reset"
                THEN [links EXCEPT ![reqs[r].link].used = TRUE]
                ELSE links
    /\ cuts' = [cuts EXCEPT ![u] = @ + 1]
    /\ reqs' = [q \in Requests |->
                  IF q = r THEN Answered
                  ELSE IF InFlight(q) /\ reqs[q].user = u
                       THEN [reqs[q] EXCEPT !.raced = TRUE]
                       ELSE reqs[q]]
    /\ UNCHANGED <<jwt, crashes>>

-----------------------------------------------------------------------------
(* Links.  POST /auth/forgot-password answers, then looks the account up   *)
(* and hands the mail to the queue; the queue (module EmailQueue) looks    *)
(* the account up again when it sends, voids the unused links of the       *)
(* account and inserts the new one.                                        *)

ForgotRead(r, u) ==
    /\ reqs[r].stage = "new"
    /\ IF ~users[u].deleted
       THEN /\ reqs' = [reqs EXCEPT ![r] =
                  [NewRequest EXCEPT !.op = "mail", !.stage = "mail", !.user = u]]
            /\ Still
       ELSE Refuse(r)

MailRead(r) ==
    /\ reqs[r].stage = "mail"
    /\ IF ~users[reqs[r].user].deleted
       THEN Goes(r, "link") /\ Still
       ELSE Refuse(r)

IssueLink(r, l) ==
    LET u == reqs[r].user
        voided == {k \in Links : links[k] # None /\ links[k].user = u /\ ~links[k].used}
    IN
    /\ reqs[r].stage = "link"
    /\ links[l] = None /\ l = CHOOSE x \in Links : links[x] = None
    /\ \A k \in voided : LinkFree(k)
    /\ links' = [k \in Links |->
                   IF k = l THEN [user |-> u, used |-> FALSE]
                   ELSE IF k \in voided THEN [links[k] EXCEPT !.used = TRUE]
                   ELSE links[k]]
    /\ Ends(r)
    /\ UNCHANGED <<users, tokens, jwt, cuts, crashes>>

-----------------------------------------------------------------------------
(* Time, failures and the retention job.                                   *)

(* anonymizeDeletedAccounts: 30 days after the deletion, when the requests *)
(* of that day are over.                                                   *)
Anonymize(u) ==
    /\ users[u].deleted /\ ~users[u].anonymized
    /\ \A r \in Requests : InFlight(r) => reqs[r].user # u
    /\ users' = [users EXCEPT ![u].pass = NoPass, ![u].anonymized = TRUE]
    /\ UNCHANGED <<tokens, links, jwt, reqs, cuts, crashes>>

(* A statement of a transaction fails: ROLLBACK, and the answer is 500.    *)
TxFails(r) ==
    /\ DbFaults
    /\ reqs[r].stage \in {"insert", "update", "revoke", "commit"}
    /\ reqs' = [reqs EXCEPT ![r] = Dropped(r)]
    /\ Still

(* The server restarts: what was in flight is gone, PostgreSQL rolls its   *)
(* open transactions back.                                                 *)
Crash ==
    /\ crashes < MaxCrashes
    /\ crashes' = crashes + 1
    /\ reqs' = [r \in Requests |-> IF InFlight(r) THEN Dropped(r)
                                   ELSE reqs[r]]
    /\ UNCHANGED <<users, tokens, links, jwt, cuts>>

-----------------------------------------------------------------------------
(* The steps that begin a request, and those that carry one on.            *)
Begins(r) ==
    \/ \E u \in Users, p \in Passwords : LoginRead(r, u, p) \/ DemoLoginRead(r, u, p)
    \/ \E t \in Tokens : RefreshToken(r, t) \/ Logout(r, t)
    \/ \E u \in Users : \/ Authenticated(r, "change", u, "check")
                        \/ Authenticated(r, "delete", u, "check")
                        \/ Authenticated(r, "profile", u, "profile")
                        \/ ForgotRead(r, u)
                        \/ \E op \in {"approve", "unapprove", "remove"} : AdminReads(r, op, u)
    \/ \E l \in Links, p \in Passwords : ResetRead(r, l, p)

Continues(r) ==
    \/ \E t \in Tokens : LoginIssue(r, t) \/ RefreshInsert(r, t)
    \/ RefreshUser(r) \/ RefreshClaim(r)
    \/ \E old, new \in Passwords : ChangeCheck(r, old, new)
    \/ \E old \in Passwords : DeleteCheck(r, old)
    \/ ProfileWrite(r) \/ Approve(r)
    \/ ResetMark(r) \/ CutUpdate(r) \/ CutRevoke(r) \/ CutCommit(r)
    \/ MailRead(r) \/ \E l \in Links : IssueLink(r, l)

Next ==
    \/ \E r \in Requests : Begins(r) \/ Continues(r) \/ TxFails(r)
    \/ \E u \in Users : Anonymize(u)
    \/ Crash

Spec == Init /\ [][Next]_vars

-----------------------------------------------------------------------------
(* Properties.                                                             *)

(* A refresh token is exchanged for at most one other, however many        *)
(* requests present it at once and whatever fails (auth.ts:724-738).       *)
RotatedOnce == \A t \in Tokens : tokens[t] # None => tokens[t].heirs <= 1

(* A session older than the last password change, reset, deletion or       *)
(* withdrawn approval of its account is over, unless the request that      *)
(* opened it, or one before it in its line of rotations, ran beside such a *)
(* cut (auth.ts:468-477, 606-609, 856-877).                                *)
OnlyRacersSurvive ==
    \A t \in Tokens : /\ tokens[t] # None
                      /\ ~tokens[t].revoked
                      /\ tokens[t].era < cuts[tokens[t].user]
                      => tokens[t].raced

(* A link resets the password of its own account, and does it once: not    *)
(* when two requests present it at once, not after a newer one has voided  *)
(* it, and not again after it has been used (auth.ts:856-869).             *)
LinksStay ==
    \A l \in Links : links[l] # None =>
        links'[l].user = links[l].user /\ (links[l].used => links'[l].used)

ResetsSpendLinks ==
    \A r \in Requests :
        reqs[r].op = "reset" /\ CutCommit(r) =>
            /\ links[reqs[r].link].user = reqs[r].user
            /\ ~links[reqs[r].link].used /\ links'[reqs[r].link].used

LinksWorkOnce == [][LinksStay /\ ResetsSpendLinks]_vars

=============================================================================
