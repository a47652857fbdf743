-------------------------------- MODULE Census --------------------------------
(* Who may vote: accounts, access requests, the whitelist, and the          *)
(* elections with their censuses and ballot papers.  Requests to the        *)
(* backend build them side by side under READ COMMITTED, so a request is a  *)
(* process that goes statement by statement: it sees what was committed     *)
(* when each of its reads ran, its writes are seen when its transaction     *)
(* commits, and it waits for a row another open transaction has written.    *)
(*                                                                          *)
(* A person has one mailbox and one student identifier, both UNIQUE in the  *)
(* table of users; the mailbox is written in lower case or not, and the     *)
(* login looks it up in lower case.  A request that its first reads refuse  *)
(* leaves no trace, and is not begun.                                       *)
EXTENDS Naturals, Sequences, FiniteSets, SequencesExt

CONSTANTS
    MaxRequests,  \* requests served in all
    InFlight,     \* requests served at once
    Students,     \* people whose account has role student
    Admins,       \* people whose account has role admin
    Elections,    \* elections that may be created
    Domains,      \* mail domains
    DomainOf,     \* the domain of a person's mailbox
    Below,        \* the domains at or below a domain: isSubDomain
    Everyone,     \* the superadmin as a scope, and '*' as a domain
    Scopes,       \* the administrators at work: a domain, or Everyone
    Files,        \* the CSV files: sequences of people, without repetition
    Spellings,    \* how a file or a form that is not normalised spells
    Calls,        \* how an election is convened: the domains it is open to
                  \* ({} for all of the administrator's), for whom, and the
                  \* people of the schools and degrees it names
    MAX_CANDIDATES,
    Faults,       \* whether a statement may fail
    None

People   == Students \cup Admins
Requests == 1 .. MaxRequests
Targets  == Domains \cup {Everyone}

ASSUME CensusAssumption ==
    /\ MaxRequests \in Nat /\ InFlight \in Nat
    /\ MAX_CANDIDATES \in Nat
    /\ IsFiniteSet(Students) /\ Students \cap Admins = {}
    /\ DomainOf \in [People -> Domains]
    /\ Below \in [Domains -> SUBSET Domains]
    /\ \A d \in Domains : d \in Below[d]
    /\ Everyone \notin Domains /\ None \notin People \cup Elections
    /\ Scopes \subseteq Targets
    /\ Files \subseteq Seq(Students)
    /\ Calls \subseteq [opens : SUBSET Domains, who : {"student", "admin", "both"},
                        schools : SUBSET People]
    /\ Spellings \subseteq {"lower", "mixed"}
    /\ Faults \in BOOLEAN

VARIABLES
    accounts,     \* the rows of users
    applications, \* registration_requests: the status of a person's request
    whitelist,    \* email_whitelist, as pairs of a scope and a person
    spent,        \* the pairs whose used is TRUE
    elections,    \* elections and their candidates, by position
    access,       \* election_access, as pairs of an election and a domain
    voters,       \* election_voters, as pairs of an election and a person
    started,      \* the elections whose start_time has come
    reqs,         \* where each request is and what it has in hand
    excused       \* the pairs CensusComplete says nothing about

people == <<accounts, applications, whitelist, spent>>
polls  == <<elections, access, voters>>
vars   == <<people, polls, started, reqs, excused>>

-------------------------------------------------------------------------------

Account  == [spelt : {"lower", "mixed"}, approved : BOOLEAN]
Election == [who : {"student", "admin", "both"}, ballot : Seq(Nat), fixed : BOOLEAN]

ASSUME NoneAssumption == None \notin Account \cup Election

(* What a statement of a transaction touches: the key other transactions    *)
(* wait for.  "censuses" is the SELECT of the elections of a new account.   *)
Row == ({"users", "applications", "censuses"} \X {None} \X People)
       \cup ({"voters"} \X Elections \X People)
       \cup ({"list", "spent"} \X Targets \X People)

Ops == {"register", "apply", "create", "chief", "accept", "reject", "importUsers",
        "importVoters", "found", "domain", "voter", "stand"}

(* What a request has in hand: its operation and input, the rows it has yet *)
(* to write and those its transaction holds, and the elections that had     *)
(* started when it came in.                                                 *)
Request == [op : Ops \cup {"none", "served"}, stage : {"read", "write", "tx", "after", "done"},
            scope : Targets, file : Seq(People), el : Elections \cup {None},
            opens : SUBSET Targets, who : {"student", "admin", "both"}, seat : Nat,
            spelt : {"lower", "mixed"}, todo : Seq(Row), held : SUBSET Row,
            born : SUBSET Elections]

NoRequest == [op |-> "none", stage |-> "done", scope |-> Everyone, file |-> <<>>,
              el |-> None, opens |-> {}, who |-> "student", seat |-> 0,
              spelt |-> "lower", todo |-> <<>>, held |-> {}, born |-> {}]

At(r, stage) == reqs[r].stage = stage
Open(r)      == ~At(r, "done")
One(r)       == reqs[r].file[1]
Made         == {e \in Elections : elections[e] # None}
Has(p)       == accounts[p] # None
Found(p, s)  == Has(p) /\ accounts[p].spelt = s
Approved     == {p \in People : Has(p) /\ accounts[p].approved}
UserRow(p)   == <<"users", None, p>>

Covers(scope, d) == d \in IF scope = Everyone THEN Targets ELSE Below[scope]
InScope(scope, e) ==
    IF scope = Everyone THEN TRUE ELSE \E d \in Below[scope] : <<e, d>> \in access
\* Mutant: the census of an election that has begun still grows.
CensusOpen_Always(e) == e \in Made
CensusOpen(e) == e \in Made \ started

\* Mutant: a new account joins the elections that have begun, not the others.
OpenTo_Begun(p) == {e \in Made \cap started :
                      <<e, DomainOf[p]>> \in access \/ <<e, Everyone>> \in access}
(* The elections that take in a new account, as autoAssignElectionsToUser   *)
(* and its copies select them.                                              *)
OpenTo(p) == {e \in Made \ started :
                  <<e, DomainOf[p]>> \in access \/ <<e, Everyone>> \in access}

(* Another open transaction has written the row.                            *)
Held(r, row) == \E q \in Requests \ {r} : row \in reqs[q].held

(* The accounts whose transaction has read the elections and is yet to      *)
(* commit: a reader of users does not see them, nor did they see it.        *)
Unseen(r, e) == {p \in People : \E q \in Requests \ {r} :
                    /\ UserRow(p) \in reqs[q].held
                    /\ \A i \in 1 .. Len(reqs[q].todo) :
                           reqs[q].todo[i] # <<"censuses", None, p>>
                    /\ <<"voters", e, p>> \notin reqs[q].held}

(* The elections being created, whose voters were selected already.          *)
Founding == {reqs[q].el : q \in {s \in Requests : reqs[s].op = "found"}}

Init ==
    /\ accounts = [p \in People |-> None]
    /\ applications = [p \in People |-> "none"]
    /\ whitelist = {} /\ spent = {}
    /\ elections = [e \in Elections |-> None]
    /\ access = {} /\ voters = {} /\ started = {}
    /\ reqs = [r \in Requests |-> NoRequest]
    /\ excused = {}

-------------------------------------------------------------------------------
(* The requests come in: their first reads and early returns.               *)

(* Requests are numbered as they come, and InFlight bounds those at work.   *)
MayArrive(r) ==
    /\ reqs[r].op = "none"
    /\ \A s \in Requests : s < r => reqs[s].op # "none"
    /\ Cardinality({s \in Requests : Open(s)}) < InFlight

Arrives(r, q) ==
    /\ reqs' = [reqs EXCEPT ![r] = [q EXCEPT !.born = started]]
    /\ UNCHANGED <<people, polls, started, excused>>

(* POST /auth/register and POST /registration/request look for an account.  *)
Register(r, p) ==
    /\ p \in Students /\ ~Found(p, "lower")
    /\ Arrives(r, [NoRequest EXCEPT !.op = "register", !.stage = "write", !.file = <<p>>])

Apply(r, p) ==
    /\ p \in Students /\ ~Found(p, "lower")
    /\ Arrives(r, [NoRequest EXCEPT !.op = "apply", !.stage = "read", !.file = <<p>>])

(* POST /admin/users; POST /admin/domain-admins, whose email is taken as    *)
(* it comes.                                                                *)
CreateUser(r, p, scope) ==
    /\ Covers(scope, DomainOf[p]) /\ ~Found(p, "lower")
    /\ Arrives(r, [NoRequest EXCEPT !.op = "create", !.stage = "tx", !.file = <<p>>,
                     !.todo = <<UserRow(p), <<"censuses", None, p>>>>])

CreateDomainAdmin(r, p, spelt) ==
    /\ p \in Admins /\ ~Found(p, spelt) /\ Everyone \in Scopes
    /\ Arrives(r, [NoRequest EXCEPT !.op = "chief", !.stage = "write", !.file = <<p>>,
                     !.spelt = spelt])

(* PATCH /admin/registration-requests/:id reads the request.                *)
Accept(r, p, scope) ==
    /\ applications[p] = "pending" /\ Covers(scope, DomainOf[p])
    /\ Arrives(r, [NoRequest EXCEPT !.op = "accept", !.stage = "tx", !.file = <<p>>,
                     !.todo = <<UserRow(p), <<"applications", None, p>>,
                                <<"censuses", None, p>>>>])

Reject(r, p, scope) ==
    /\ applications[p] = "pending" /\ Covers(scope, DomainOf[p])
    /\ Arrives(r, [NoRequest EXCEPT !.op = "reject", !.stage = "write", !.file = <<p>>])

(* The two imports read the whole file before they write: who has an        *)
(* account, by the email as the file spells it.                             *)
RowsOf(file, rowsFor) == FlattenSeq([i \in 1 .. Len(file) |-> rowsFor[file[i]]])

InFile(file) == {file[i] : i \in 1 .. Len(file)}

ImportUsers(r, file, spelt, scope) ==
    /\ \A p \in InFile(file) : Covers(scope, DomainOf[p])
    /\ LET rowsFor == [p \in InFile(file) |->
                          <<<<"list", scope, p>>>>
                          \o IF Found(p, spelt) THEN <<>>
                             ELSE <<UserRow(p), <<"censuses", None, p>>>>]
       IN  Arrives(r, [NoRequest EXCEPT !.op = "importUsers", !.stage = "tx", !.file = file,
                         !.spelt = spelt, !.todo = RowsOf(file, rowsFor)])

ImportVoters(r, e, file, spelt, scope) ==
    /\ InScope(scope, e) /\ CensusOpen(e)
    /\ \A p \in InFile(file) : Covers(scope, DomainOf[p])
    /\ LET rowsFor == [p \in InFile(file) |->
                          (IF Found(p, spelt) THEN <<>> ELSE <<UserRow(p)>>)
                          \o <<<<"voters", e, p>>>>]
       IN  Arrives(r, [NoRequest EXCEPT !.op = "importVoters", !.stage = "tx", !.file = file,
                         !.el = e, !.spelt = spelt, !.todo = RowsOf(file, rowsFor)])

(* POST /admin/elections: whom the transaction finds for the census.        *)
Electorate(scope, call) ==
    LET within(p) == Covers(scope, DomainOf[p])
        asked(p)  == IF call.opens = {} THEN DomainOf[p] = scope
                     ELSE within(p) /\ \E d \in call.opens : DomainOf[p] \in Below[d]
    IN  {p \in Approved :
            \/ call.who \in {"student", "both"} /\ p \in Students /\ asked(p)
            \/ p \in call.schools /\ within(p)
            \/ call.who \in {"admin", "both"} /\ p \in Admins /\ scope # Everyone /\ within(p)}

OpensTo(scope, call) ==
    IF call.opens = {} THEN {scope}
    ELSE call.opens \cup (IF call.who = "admin" THEN {scope} \ {Everyone} ELSE {})

CreateElection(r, e, scope, call) ==
    /\ e \notin Made /\ \A s \in Requests : Open(s) => reqs[s].el # e
    /\ \A d \in call.opens : Covers(scope, d)
    /\ Arrives(r, [NoRequest EXCEPT !.op = "found", !.stage = "tx", !.el = e, !.who = call.who,
                     !.opens = OpensTo(scope, call),
                     !.held = {<<"voters", e, p>> : p \in Electorate(scope, call)}])

(* POST /admin/elections/:id/domains, /voters and /candidates.              *)
AddDomain(r, e, d, scope) ==
    /\ InScope(scope, e) /\ CensusOpen(e) /\ Covers(scope, d)
    /\ Arrives(r, [NoRequest EXCEPT !.op = "domain", !.stage = "write", !.el = e, !.opens = {d}])

AddVoter(r, e, p, scope) ==
    /\ InScope(scope, e) /\ CensusOpen(e) /\ Covers(scope, DomainOf[p]) /\ Has(p)
    /\ Arrives(r, [NoRequest EXCEPT !.op = "voter", !.stage = "write", !.el = e, !.file = <<p>>])

AddCandidate(r, e, scope) ==
    /\ e \in Made /\ InScope(scope, e) /\ ~elections[e].fixed
    /\ Len(elections[e].ballot) < MAX_CANDIDATES
    /\ Arrives(r, [NoRequest EXCEPT !.op = "stand", !.stage = "read", !.el = e])

-------------------------------------------------------------------------------
(* The answer ends the request and, when it is an error, its transaction.   *)

Served    == [NoRequest EXCEPT !.op = "served"]
Answer(r) == reqs' = [reqs EXCEPT ![r] = Served]

(* A domain that was admitted and whose people were not all added: a retry  *)
(* is answered 409 and adds nobody.                                         *)
Abandoned(r) == IF reqs[r].op = "domain" /\ At(r, "after")
                THEN {reqs[r].el} \X People ELSE {}

GivesUp(r) ==
    /\ Answer(r)
    /\ excused' = excused \cup Abandoned(r)
    /\ UNCHANGED <<people, polls, started>>

(* Single statements outside a transaction.                                 *)
InsertAccount(r) ==
    LET p == One(r) IN
    /\ reqs[r].op \in {"register", "chief"} /\ At(r, "write")
    /\ ~Held(r, UserRow(p)) /\ ~Has(p)
    /\ accounts' = [accounts EXCEPT ![p] =
                      [spelt |-> reqs[r].spelt, approved |-> reqs[r].op = "chief"]]
    /\ Answer(r)
    /\ UNCHANGED <<applications, whitelist, spent, polls, started, excused>>

ReadWhitelist(r) ==
    LET p == One(r)
        listed == {s \in {DomainOf[p], Everyone} : <<s, p>> \in whitelist \ spent}
    IN
    /\ reqs[r].op = "apply" /\ At(r, "read") /\ applications[p] # "pending"
    /\ \/ \E s \in listed :
              reqs' = [reqs EXCEPT ![r].stage = "tx",
                         ![r].todo = <<UserRow(p), <<"spent", s, p>>, <<"censuses", None, p>>>>]
       \/ listed = {} /\ reqs' = [reqs EXCEPT ![r].stage = "write"]
    /\ UNCHANGED <<people, polls, started, excused>>

InsertApplication(r) ==
    /\ reqs[r].op = "apply" /\ At(r, "write") /\ applications[One(r)] = "none"
    /\ applications' = [applications EXCEPT ![One(r)] = "pending"]
    /\ Answer(r)
    /\ UNCHANGED <<accounts, whitelist, spent, polls, started, excused>>

(* The UPDATE does not look at the status again.                            *)
MarkRejected(r) ==
    /\ reqs[r].op = "reject" /\ At(r, "write")
    /\ ~Held(r, <<"applications", None, One(r)>>)
    /\ applications' = [applications EXCEPT ![One(r)] = "rejected"]
    /\ Answer(r)
    /\ UNCHANGED <<accounts, whitelist, spent, polls, started, excused>>

InsertVoter(r) ==
    LET row == <<"voters", reqs[r].el, One(r)>> IN
    /\ reqs[r].op = "voter" /\ At(r, "write") /\ ~Held(r, row)
    /\ voters' = voters \cup {<<reqs[r].el, One(r)>>}
    /\ Answer(r)
    /\ UNCHANGED <<people, elections, access, started, excused>>

InsertDomain(r) ==
    LET e == reqs[r].el IN
    /\ reqs[r].op = "domain" /\ At(r, "write")
    /\ \E d \in reqs[r].opens :
           /\ <<e, d>> \notin access
           /\ access' = access \cup {<<e, d>>}
           /\ IF d = Everyone THEN Answer(r) ELSE reqs' = [reqs EXCEPT ![r].stage = "after"]
    /\ UNCHANGED <<people, elections, voters, started, excused>>

Orders(S) == {s \in [1 .. Cardinality(S) -> S] : \A i, j \in DOMAIN s : s[i] = s[j] => i = j}

(* autoAssignUsersByDomain: the SELECT, then an INSERT for each person.     *)
SelectUsers(r) ==
    LET e == reqs[r].el
        chosen == {p \in Approved \cap Students : DomainOf[p] \in reqs[r].opens}
    IN
    /\ reqs[r].op = "domain" /\ At(r, "after") /\ reqs[r].todo = <<>>
    /\ IF chosen = {} THEN Answer(r)
       ELSE \E s \in Orders(chosen) :
                reqs' = [reqs EXCEPT ![r].todo = [i \in DOMAIN s |-> <<"voters", e, s[i]>>]]
    /\ excused' = excused \cup ({e} \X Unseen(r, e))
    /\ UNCHANGED <<people, polls, started>>

AssignNext(r) ==
    LET row == Head(reqs[r].todo) IN
    /\ reqs[r].op = "domain" /\ At(r, "after") /\ reqs[r].todo # <<>>
    /\ ~Held(r, row)
    /\ voters' = voters \cup {<<row[2], row[3]>>}
    /\ IF Len(reqs[r].todo) = 1 THEN Answer(r)
       ELSE reqs' = [reqs EXCEPT ![r].todo = Tail(@)]
    /\ UNCHANGED <<people, elections, access, started, excused>>

ReadSeat(r) ==
    LET ballot == elections[reqs[r].el].ballot IN
    /\ reqs[r].op = "stand" /\ At(r, "read")
    /\ reqs' = [reqs EXCEPT ![r].stage = "write",
                            ![r].seat = IF ballot = <<>> THEN 0 ELSE ballot[Len(ballot)] + 1]
    /\ UNCHANGED <<people, polls, started, excused>>

SeatFree(e, seat) == \A i \in 1 .. Len(elections[e].ballot) : elections[e].ballot[i] # seat

InsertCandidate(r) ==
    LET e == reqs[r].el IN
    /\ reqs[r].op = "stand" /\ At(r, "write") /\ SeatFree(e, reqs[r].seat)
    /\ elections' = [elections EXCEPT ![e].ballot = Append(@, reqs[r].seat)]
    /\ Answer(r)
    /\ UNCHANGED <<people, access, voters, started, excused>>

(* PATCH /admin/users/:id/approval reads what never changes and updates.    *)
(* It gives the account no census.                                          *)
ApproveAccount(p, scope) ==
    /\ Has(p) /\ p \in Students /\ Covers(scope, DomainOf[p])
    /\ ~accounts[p].approved
    /\ accounts' = [accounts EXCEPT ![p].approved = TRUE]
    /\ excused' = excused \cup ((OpenTo(p) \cup Founding) \X {p})
    /\ UNCHANGED <<applications, whitelist, spent, polls, started, reqs>>

-------------------------------------------------------------------------------
(* Transactions: one row after the other, then COMMIT.                      *)

Exists(row) == CASE row[1] = "users"  -> Has(row[3])
                 [] row[1] = "voters" -> <<row[2], row[3]>> \in voters
                 [] row[1] = "list"   -> <<row[2], row[3]>> \in whitelist
                 [] OTHER             -> FALSE

(* The rows the next statement writes: none when INSERT OR IGNORE finds the *)
(* row there, those of the censuses for the SELECT of a new account.        *)
Written(row) ==
    IF row[1] = "censuses" THEN {<<"voters", e, row[3]>> : e \in OpenTo(row[3])}
    ELSE IF Exists(row) THEN {} ELSE {row}

WriteRow(r) ==
    LET row == Head(reqs[r].todo) IN
    /\ At(r, "tx") /\ reqs[r].todo # <<>>
    /\ ~Held(r, row)
    /\ ~(row[1] = "users" /\ Has(row[3]))
    /\ reqs' = [reqs EXCEPT ![r].todo = Tail(@), ![r].held = @ \cup Written(row)]
    /\ UNCHANGED <<people, polls, started, excused>>

(* The new accounts of an import, who are sent an invitation.               *)
Invitees(q) == {p \in InFile(q.file) : UserRow(p) \in q.held}

(* Who misses which election at this commit: a founder selected its voters  *)
(* before the account was there; an account looked for its elections before *)
(* this one was there; and /import-voters gives a new account one election. *)
Missed(r) ==
    LET new == {p \in People : UserRow(p) \in reqs[r].held}
    IN  (Founding \X new)
        \cup (IF reqs[r].op = "found" THEN {reqs[r].el} \X Unseen(r, reqs[r].el) ELSE {})
        \cup (IF reqs[r].op = "importVoters" THEN {x \in Elections \X new : x[1] \in OpenTo(x[2])} ELSE {})

Commit(r) ==
    LET q == reqs[r] IN
    /\ At(r, "tx") /\ q.todo = <<>>
    /\ accounts' = [p \in People |-> IF UserRow(p) \in q.held
                                     THEN [spelt |-> q.spelt, approved |-> TRUE]
                                     ELSE accounts[p]]
    /\ applications' = [p \in People |-> IF <<"applications", None, p>> \in q.held
                                         THEN "approved" ELSE applications[p]]
    /\ whitelist' = whitelist \cup {x \in Targets \X People : <<"list", x[1], x[2]>> \in q.held}
    /\ spent' = spent \cup {x \in Targets \X People : <<"spent", x[1], x[2]>> \in q.held}
    /\ voters' = voters \cup {x \in Elections \X People : <<"voters", x[1], x[2]>> \in q.held}
    /\ IF q.op = "found"
       THEN /\ elections' = [elections EXCEPT ![q.el] =
                               [who |-> q.who, ballot |-> <<>>, fixed |-> FALSE]]
            /\ access' = access \cup ({q.el} \X q.opens)
       ELSE UNCHANGED <<elections, access>>
    /\ IF q.op \in {"importUsers", "importVoters"} /\ Invitees(q) # {}
       THEN reqs' = [reqs EXCEPT ![r] = [q EXCEPT !.stage = "after", !.held = {}]]
       ELSE Answer(r)
    /\ excused' = excused \cup Missed(r)
    /\ UNCHANGED started

(* sendCensusInvitation, after the commit.                                  *)
Invite(r) ==
    /\ reqs[r].op \in {"importUsers", "importVoters"} /\ At(r, "after")
    /\ Answer(r)
    /\ UNCHANGED <<people, polls, started, excused>>

(* A unique violation answers an error and rolls the transaction back.      *)
Collides(r) ==
    /\ \/ /\ reqs[r].op \in {"register", "chief"} /\ At(r, "write")
          /\ Has(One(r)) /\ ~Held(r, UserRow(One(r)))
       \/ /\ reqs[r].op = "apply" /\ At(r, "read") /\ applications[One(r)] = "pending"
       \/ /\ reqs[r].op = "apply" /\ At(r, "write") /\ applications[One(r)] # "none"
       \/ /\ reqs[r].op = "domain" /\ At(r, "write")
          /\ \A d \in reqs[r].opens : <<reqs[r].el, d>> \in access
       \/ /\ reqs[r].op = "stand" /\ At(r, "write") /\ ~SeatFree(reqs[r].el, reqs[r].seat)
       \/ /\ At(r, "tx") /\ reqs[r].todo # <<>> /\ Head(reqs[r].todo)[1] = "users"
          /\ Has(Head(reqs[r].todo)[3]) /\ ~Held(r, Head(reqs[r].todo))
    /\ GivesUp(r)

(* A cycle of waiting transactions: PostgreSQL ends one of them.            *)
Waits(r, q) ==
    /\ Open(r) /\ reqs[r].todo # <<>> /\ q # r
    /\ Head(reqs[r].todo) \in reqs[q].held
Deadlocked(r) == \E S \in SUBSET Requests :
                     r \in S /\ \A q \in S : \E s \in S : Waits(q, s)

Victim(r) == Deadlocked(r) /\ GivesUp(r)

StatementFails(r) == Faults /\ Open(r) /\ GivesUp(r)

Crash ==
    /\ \E r \in Requests : Open(r)
    /\ reqs' = [r \in Requests |-> IF Open(r) THEN Served ELSE reqs[r]]
    /\ excused' = excused \cup UNION {Abandoned(r) : r \in Requests}
    /\ UNCHANGED <<people, polls, started>>

(* An account that was removed is anonymised thirty days later: the mailbox *)
(* and the identifier of its owner are free again, while what the row is in *)
(* belongs to nobody.  No request takes so long.                            *)
Anonymize(p) ==
    /\ Has(p) /\ \A r \in Requests : ~Open(r)
    /\ accounts' = [accounts EXCEPT ![p] = None]
    /\ voters' = voters \ (Elections \X {p})
    /\ excused' = excused \ (Elections \X {p})
    /\ UNCHANGED <<applications, whitelist, spent, elections, access, started, reqs>>

(* start_time comes, perhaps before the election is created; the job sends  *)
(* the election to the contract, and its ballot paper is fixed.             *)
Start(e) ==
    /\ e \notin started
    /\ started' = started \cup {e}
    /\ UNCHANGED <<people, polls, reqs, excused>>

SentToChain(e) ==
    /\ e \in Made /\ ~elections[e].fixed
    /\ elections' = [elections EXCEPT ![e].fixed = TRUE]
    /\ UNCHANGED <<people, access, voters, started, reqs, excused>>

-------------------------------------------------------------------------------

Arrival(r) ==
    /\ MayArrive(r)
    /\ \/ \E p \in People :
            \/ Register(r, p) \/ Apply(r, p)
            \/ \E spelt \in Spellings : CreateDomainAdmin(r, p, spelt)
            \/ \E scope \in Scopes :
                   CreateUser(r, p, scope) \/ Accept(r, p, scope) \/ Reject(r, p, scope)
       \/ \E file \in Files, spelt \in Spellings, scope \in Scopes :
            \/ ImportUsers(r, file, spelt, scope)
            \/ \E e \in Elections : ImportVoters(r, e, file, spelt, scope)
       \/ \E e \in Elections, scope \in Scopes :
            \/ \E call \in Calls : CreateElection(r, e, scope, call)
            \/ \E d \in Targets : AddDomain(r, e, d, scope)
            \/ \E p \in People : AddVoter(r, e, p, scope)
            \/ AddCandidate(r, e, scope)

Step(r) ==
    \/ InsertAccount(r) \/ ReadWhitelist(r) \/ InsertApplication(r) \/ MarkRejected(r)
    \/ InsertVoter(r) \/ InsertDomain(r) \/ SelectUsers(r) \/ AssignNext(r)
    \/ ReadSeat(r) \/ InsertCandidate(r)
    \/ WriteRow(r) \/ Commit(r) \/ Invite(r) \/ Collides(r) \/ Victim(r)

Next ==
    \/ \E r \in Requests : Arrival(r) \/ Step(r) \/ StatementFails(r)
    \/ \E p \in People : Anonymize(p) \/ \E scope \in Scopes : ApproveAccount(p, scope)
    \/ \E e \in Elections : Start(e) \/ SentToChain(e)
    \/ Crash

Spec == Init /\ [][Next]_vars

-------------------------------------------------------------------------------
(* Properties.                                                              *)

(* An approved student is in the census of every election that has not      *)
(* begun, is for students and admits their domain: whichever of the two     *)
(* came first and by whichever route, but for the pairs in excused: an      *)
(* approval after the fact, the two built at the same time, a domain whose  *)
(* addition broke off, an account made by the import of another census.     *)
CensusComplete ==
    \A e \in Made \ started, p \in Students \cap Approved :
        \/ <<e, p>> \in voters \cup excused
        \/ elections[e].who = "admin"
        \/ <<e, DomainOf[p]>> \notin access
        \/ \E r \in Requests : reqs[r].op = "domain" /\ reqs[r].el = e /\ Open(r)

(* A census that has begun grows only by requests that came in before.      *)
FrozenAfterStart ==
    [][\A e \in Made \cap started, p \in People :
         <<e, p>> \in voters' \ voters =>
             \E r \in Requests : Open(r) /\ e \notin reqs[r].born /\ reqs'[r] # reqs[r]]_vars

===============================================================================
