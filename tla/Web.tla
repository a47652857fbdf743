---------------------------------- MODULE Web ----------------------------------
(* The session in the browser: the tabs of one user share the cookies; each *)
(* has its own client of the API, which renews the session and repeats the  *)
(* calls answered 401.  A request is handled when it is sent, and its       *)
(* answer takes as long as it takes; what the server does inside a renewal  *)
(* is in Sessions.                                                          *)
EXTENDS Naturals

CONSTANTS
    WebTabs,
    Calls,          \* calls that may be running at once
    Owner,          \* the tab of each
    Forms,          \* those that change the password; the form is not sent twice at a time
    MaxExpiries,    \* bound: times the access cookie runs out
    MaxFaults,      \* bound: answers that do not arrive
    MaxVisits       \* bound: pages loaded by hand, and logins

ASSUME WebAssumption ==
    /\ Owner \in [Calls -> WebTabs] /\ Forms \subseteq Calls
    /\ WebTabs \cap {"none", "live", "ended", "refused", "blocked", "token", "void"} = {}
    /\ MaxExpiries \in Nat /\ MaxFaults \in Nat /\ MaxVisits \in Nat

VARIABLES
    jar,            \* the cookies: the access, and what became of the token to refresh
    must_change,    \* must_change_password of the account
    tab,            \* path, hydration, login form and `refreshing' of each tab
    call,
    clearing,       \* a logout whose answer has not arrived
    expiries, faults, visits

webBounds  == <<expiries, faults, visits>>
webVars == <<jar, must_change, tab, call, clearing, webBounds>>

(* A token is dead because a tab exchanged it, or because it was revoked or *)
(* the one that replaced it never arrived.                                  *)
Token == {"none", "live", "ended"} \cup WebTabs

Idle == [at |-> "idle", retry |-> FALSE, answer |-> "none"]

WebInit ==
    /\ jar \in {[access |-> FALSE, refresh |-> "none"], [access |-> FALSE, refresh |-> "live"],
               [access |-> TRUE,  refresh |-> "live"]}
    /\ must_change \in BOOLEAN
    /\ tab = [t \in WebTabs |-> [path |-> "app", loading |-> TRUE, login |-> FALSE,
                              refreshing |-> FALSE, sleeping |-> FALSE]]
    /\ call = [c \in Calls |-> Idle]
    /\ clearing = FALSE
    /\ expiries = 0 /\ faults = 0 /\ visits = 0

Fault == faults < MaxFaults /\ faults' = faults + 1 /\ UNCHANGED <<expiries, visits>>
ByHand == visits < MaxVisits /\ visits' = visits + 1 /\ UNCHANGED <<expiries, faults>>

Of(t) == {c \in Calls : Owner[c] = t}

Dead(token) == IF token = "none" THEN token ELSE "ended"

(* The 15 minutes of the access cookie are over.                            *)
Expire ==
    /\ jar.access /\ expiries < MaxExpiries
    /\ expiries' = expiries + 1
    /\ jar' = [jar EXCEPT !.access = FALSE]
    /\ UNCHANGED <<must_change, tab, call, clearing, faults, visits>>

-------------------------------------------------------------------------------
(* AuthProvider and ProtectedRoute.                                         *)

(* A page loaded from its address forgets its calls; a renewal whose answer *)
(* it was waiting for is lost.                                              *)
Load(t, path) ==
    /\ tab' = [tab EXCEPT ![t] = [path |-> path, loading |-> TRUE, login |-> FALSE,
                                  refreshing |-> FALSE, sleeping |-> FALSE]]
    /\ call' = [c \in Calls |-> IF Owner[c] = t THEN Idle ELSE call[c]]

ReloadPage(t) ==
    /\ ~tab[t].loading /\ ByHand /\ Load(t, tab[t].path)
    /\ jar' = [jar EXCEPT !.refresh = IF @ = t THEN "ended" ELSE @]
    /\ UNCHANGED <<must_change, clearing>>

(* GET /auth/me; without a user the protected routes give way to /login.    *)
Hydrate(t) ==
    /\ tab[t].loading
    /\ tab' = [tab EXCEPT ![t].loading = FALSE,
                          ![t].path = IF jar.access THEN @ ELSE "login"]
    /\ UNCHANGED <<jar, must_change, call, clearing, webBounds>>

(* No answer: the server sleeps, says the banner.                           *)
HydrateFails(t) ==
    /\ tab[t].loading /\ Fault
    /\ tab' = [tab EXCEPT ![t].loading = FALSE, ![t].path = "login", ![t].sleeping = TRUE]
    /\ UNCHANGED <<jar, must_change, call, clearing>>

WakeBackend(t) ==
    /\ tab[t].sleeping /\ Load(t, tab[t].path)
    /\ UNCHANGED <<jar, must_change, clearing, webBounds>>

SubmitLogin(t) ==
    /\ tab[t].path = "login" /\ ~tab[t].loading /\ ~tab[t].login /\ ByHand
    /\ tab' = [tab EXCEPT ![t].login = TRUE, ![t].sleeping = FALSE]
    /\ UNCHANGED <<jar, must_change, call, clearing>>

LoggedIn(t) ==
    /\ tab[t].login
    /\ jar' = [access |-> TRUE, refresh |-> "live"]
    /\ tab' = [tab EXCEPT ![t].login = FALSE, ![t].path = "app"]
    /\ UNCHANGED <<must_change, call, clearing, webBounds>>

LoginFails(t) ==
    /\ tab[t].login
    /\ \/ tab' = [tab EXCEPT ![t].login = FALSE] /\ UNCHANGED webBounds
       \/ tab' = [tab EXCEPT ![t].login = FALSE, ![t].sleeping = TRUE] /\ Fault
    /\ UNCHANGED <<jar, must_change, call, clearing>>

(* Logout: the token is revoked, nobody waits for the answer, and the calls *)
(* of the page go on.                                                       *)
Logout(t) ==
    /\ tab[t].path # "login" /\ ~tab[t].loading /\ ~clearing
    /\ jar' = [jar EXCEPT !.refresh = Dead(@)]
    /\ clearing' = TRUE
    /\ tab' = [tab EXCEPT ![t].path = "login"]
    /\ UNCHANGED <<must_change, call, webBounds>>

(* The answer clears the cookies, whichever they are by then.               *)
Cleared ==
    /\ clearing /\ clearing' = FALSE
    /\ jar' = [access |-> FALSE, refresh |-> "none"]
    /\ UNCHANGED <<must_change, tab, call, webBounds>>

LogoutLost ==
    /\ clearing /\ clearing' = FALSE /\ Fault
    /\ UNCHANGED <<jar, must_change, tab, call>>

-------------------------------------------------------------------------------
(* The calls of a page, and the interceptors of the client.                 *)

(* A change of the password revokes every token, those in answers too.      *)
PasswordChanged(c, next) ==
    /\ must_change' = FALSE
    /\ jar' = [jar EXCEPT !.refresh = Dead(@)]
    /\ call' = [d \in Calls |-> IF d = c THEN next
                                ELSE IF call[d].answer = "token" THEN [call[d] EXCEPT !.answer = "void"]
                                ELSE call[d]]

(* requireAuth, the guard of must_change_password, and the handler, which   *)
(* answers 401 also to a wrong current password.                            *)
Answers(c) ==
    IF ~jar.access THEN {"401"}
    ELSE IF c \in Forms THEN {"ok", "401"}
    ELSE {IF must_change THEN "403" ELSE "ok"}

Send(c, retry) ==
    /\ \E answer \in Answers(c) :
          LET next == [at |-> "flight", retry |-> retry, answer |-> answer]
          IN  IF c \in Forms /\ answer = "ok"
              THEN PasswordChanged(c, next)
              ELSE call' = [call EXCEPT ![c] = next] /\ UNCHANGED <<jar, must_change>>
    /\ UNCHANGED <<tab, clearing, webBounds>>

Start(c) ==
    /\ call[c].at = "idle" /\ ~tab[Owner[c]].loading
    /\ tab[Owner[c]].path \in (IF c \in Forms THEN {"app", "change"} ELSE {"app"})
    /\ Send(c, FALSE)

Resend(c) == call[c].at = "again" /\ Send(c, call[c].retry)

(* What the caller gets.  A new password leads to the dashboard.            *)
Settles(c) ==
    /\ call' = [call EXCEPT ![c] = Idle]
    /\ tab' = [tab EXCEPT ![Owner[c]].path =
                   IF c \in Forms /\ call[c].answer = "ok" /\ @ # "login"
                   THEN "app" ELSE @]
    /\ UNCHANGED <<jar, must_change, clearing, webBounds>>

(* POST /auth/refresh with the cookies of now.                              *)
RefreshAnswer ==
    IF jar.access /\ must_change THEN "blocked"
    ELSE IF jar.refresh = "live" THEN "token"
    ELSE IF jar.refresh \in WebTabs THEN jar.refresh ELSE "refused"

Renew(c) ==
    /\ call' = [call EXCEPT ![c] = [@ EXCEPT !.at = "refreshing", !.retry = TRUE,
                                             !.answer = RefreshAnswer]]
    /\ jar' = IF RefreshAnswer = "token" THEN [jar EXCEPT !.refresh = Owner[c]] ELSE jar
    /\ tab' = [tab EXCEPT ![Owner[c]].refreshing = TRUE]
    /\ UNCHANGED <<must_change, clearing, webBounds>>

\* Mutant: a call does not wait for the renewal of another.
Waits_Never(t) == FALSE
Waits(t) == tab[t].refreshing

AnsweredWith(c, status) == call[c].at = "flight" /\ call[c].answer = status

CallOk(c) == AnsweredWith(c, "ok") /\ Settles(c)

CallUnauthorized(c) ==
    /\ AnsweredWith(c, "401")
    /\ \/ call[c].retry /\ Settles(c)
       \/ /\ ~call[c].retry /\ Waits(Owner[c])
          /\ call' = [call EXCEPT ![c].at = "queued", ![c].answer = "none"]
          /\ UNCHANGED <<jar, must_change, tab, clearing, webBounds>>
       \/ ~call[c].retry /\ ~Waits(Owner[c]) /\ Renew(c)

(* MUST_CHANGE_PASSWORD.                                                    *)
CallBlocked(c) ==
    /\ AnsweredWith(c, "403")
    /\ IF tab[Owner[c]].path = "change" THEN Settles(c)
       ELSE /\ Load(Owner[c], "change")
            /\ jar' = [jar EXCEPT !.refresh = IF @ = Owner[c] THEN "ended" ELSE @]
            /\ UNCHANGED <<must_change, clearing, webBounds>>

(* 15 seconds, or the network.                                              *)
CallLost(c) ==
    /\ call[c].at = "flight" /\ faults < MaxFaults /\ faults' = faults + 1
    /\ call' = [call EXCEPT ![c] = Idle]
    /\ UNCHANGED <<jar, must_change, tab, clearing, expiries, visits>>

\* Mutant: `refreshing' stays set.
Refreshed_Forgets(t) == [tab[t] EXCEPT !.refreshing = @]
(* finally.                                                                 *)
Refreshed(t) == [tab[t] EXCEPT !.refreshing = FALSE]

(* The cookies of the answer are kept; the calls that waited are repeated.  *)
RefreshWon(c) ==
    /\ call[c].at = "refreshing" /\ call[c].answer \in {"token", "void"}
    /\ jar' = [access |-> TRUE, refresh |-> IF call[c].answer = "token" THEN "live" ELSE "ended"]
    /\ call' = [d \in Calls |-> IF d = c \/ (d \in Of(Owner[c]) /\ call[d].at = "queued")
                                THEN [call[d] EXCEPT !.at = "again", !.answer = "none"]
                                ELSE call[d]]
    /\ tab' = [tab EXCEPT ![Owner[c]] = Refreshed(Owner[c])]
    /\ UNCHANGED <<must_change, clearing, webBounds>>

(* The session is dead, or the answer did not arrive: to /login.            *)
RefreshFailed(c) ==
    /\ call[c].at = "refreshing"
    /\ \/ call[c].answer \notin {"token", "void"} /\ UNCHANGED webBounds
       \/ Fault
    /\ Load(Owner[c], "login")
    /\ jar' = [jar EXCEPT !.refresh = IF @ = Owner[c] THEN "ended" ELSE @]
    /\ UNCHANGED <<must_change, clearing>>

-------------------------------------------------------------------------------
(* What is fair: every request is answered or fails, the one of the renewal *)
(* too, though it has no timeout of its own.                                *)
Client(c) == Resend(c) \/ CallOk(c) \/ CallUnauthorized(c) \/ CallBlocked(c)
                 \/ RefreshWon(c) \/ RefreshFailed(c)

WebNext ==
    \/ Expire \/ Cleared \/ LogoutLost
    \/ \E t \in WebTabs :
          \/ ReloadPage(t) \/ Hydrate(t) \/ HydrateFails(t) \/ WakeBackend(t)
          \/ SubmitLogin(t) \/ LoggedIn(t) \/ LoginFails(t) \/ Logout(t)
    \/ \E c \in Calls :
          Start(c) \/ Client(c) \/ CallLost(c)

-------------------------------------------------------------------------------
(* A tab is never sent to /login because of a token that it exchanged       *)
(* itself, and whose successor has arrived or is about to: its calls that   *)
(* find the access expired at once share one renewal.                       *)
NeverThrowsItselfOut ==
    \A c \in Calls : call[c].at = "refreshing" => call[c].answer # Owner[c]

(* Every call ends, those that wait for the renewal of another too, whether *)
(* it succeeds, fails or the page goes to another address.                  *)
EveryCallSettles == \A c \in Calls : (call[c].at # "idle") ~> (call[c].at = "idle")

===============================================================================
