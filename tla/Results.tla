-------------------------------- MODULE Results --------------------------------
(* The results of one election registered in the chain: what GET            *)
(* /elections/:id/results puts together with one query after another while  *)
(* votes arrive, and what the page that asks for it again every 30 seconds  *)
(* shows and prints.                                                        *)
EXTENDS Naturals, FiniteSets

CONSTANTS
    Electors,       \* accounts whose vote goes to the chain
    DemoElectors,   \* demonstration accounts: only a row, no transaction
    Options,        \* the candidates
    NoOption,
    MaxAsked,       \* bound: requests of one voter under way
    MaxToggles,     \* bound: times administrators hide or show the election
    MaxErrors       \* bound: requests that fail

ASSUME ResultsAssumption ==
    /\ Electors \cap DemoElectors = {} /\ NoOption \notin Options
    /\ IsFiniteSet(Electors) /\ IsFiniteSet(DemoElectors)
    /\ MaxAsked \in Nat /\ MaxToggles \in Nat /\ MaxErrors \in Nat

VARIABLES
    now,        \* the clock; start_time = 1 and end_time = 2
    active,     \* is_active
    here,       \* the election is in the contract the server is configured for
    asked,      \* requests to vote that were in time and have written nothing yet
    sent,       \* the votes that hold their lock and are broadcast
    chain,      \* the votes of the contract
    audit,      \* nullifier_audit: the candidate of each voter
    viewer,     \* who looks: anyone, or an administrator of the election
    query,      \* the handler of the request of the page
    view,       \* the state of the page
    seen,       \* someone who is not an administrator has seen a tally
    toggles, errors

ballots     == <<asked, sent, chain, audit>>
term        == <<now, active, here, viewer>>
resultsVars == <<term, ballots, query, view, seen, toggles, errors>>

start_time == 1
end_time   == 2
Everyone   == Electors \cup DemoElectors
Unknown    == [status |-> "none", hidden |-> TRUE, votes |-> [c \in Options |-> 0],
               estado |-> "none", demo |-> 0]

Estados == {"coincide", "parcial", "discrepancia", "sin-respuesta", "no-aplica"}
Count   == 0 .. Cardinality(Everyone)
Results == [status : {"none", "pending", "active", "closed"}, hidden : BOOLEAN,
            votes : [Options -> Count], estado : Estados \cup {"none"}, demo : Count]

NoQuery == [at |-> "idle", first |-> FALSE, got |-> Unknown, inChain |-> Unknown.votes]
Blank   == [open |-> FALSE, loading |-> FALSE, error |-> FALSE, results |-> Unknown,
            tab |-> "results", audit |-> FALSE]

ResultsInit ==
    /\ now = 0 /\ active \in BOOLEAN /\ here \in BOOLEAN
    /\ asked = [v \in Everyone |-> {}]
    /\ sent = [v \in Everyone |-> NoOption]
    /\ chain = sent /\ audit = sent
    /\ viewer \in {"anyone", "admin"}
    /\ query = NoQuery /\ view = Blank
    /\ seen = FALSE /\ toggles = 0 /\ errors = 0

-------------------------------------------------------------------------------
(* The election.                                                            *)

Clock ==
    /\ now <= end_time /\ now' = now + 1
    /\ UNCHANGED <<active, here, viewer, ballots, query, view, seen, toggles, errors>>

(* PATCH /admin/elections/:id/status.                                       *)
ToggleActive ==
    /\ toggles < MaxToggles /\ toggles' = toggles + 1
    /\ active' = ~active
    /\ UNCHANGED <<now, here, viewer, ballots, query, view, seen, errors>>

Participated(v) == audit[v] # NoOption

(* POST /register-vote: the clock is read once, long before the vote is     *)
(* written or broadcast, and is not looked at again.                        *)
Accept(v, c) ==
    /\ active /\ start_time <= now /\ now <= end_time /\ ~Participated(v)
    /\ Cardinality(asked[v]) < MaxAsked
    /\ asked' = [asked EXCEPT ![v] = @ \cup {c}]
    /\ UNCHANGED <<term, sent, chain, audit, query, view, seen, toggles, errors>>

(* The request goes on to its write, or finds that its voter has voted.     *)
GoesOn(v, c) == c \in asked[v] /\ asked' = [asked EXCEPT ![v] = @ \ {c}]

(* The lock is taken and the vote is broadcast.                             *)
Broadcast(v, c) ==
    /\ v \in Electors /\ GoesOn(v, c)
    /\ sent' = IF sent[v] = NoOption /\ ~Participated(v) THEN [sent EXCEPT ![v] = c] ELSE sent
    /\ UNCHANGED <<term, chain, audit, query, view, seen, toggles, errors>>

(* A vote of a demonstration account is a row, at once.                     *)
RecordDemo(v, c) ==
    /\ v \in DemoElectors /\ GoesOn(v, c)
    /\ audit' = IF Participated(v) THEN audit ELSE [audit EXCEPT ![v] = c]
    /\ UNCHANGED <<term, sent, chain, query, view, seen, toggles, errors>>

(* The block that has the vote, which the contract takes while the election *)
(* lasts; or the vote is lost or refused, and may be repeated.              *)
Block(v) ==
    /\ v \in Electors /\ sent[v] # NoOption /\ chain[v] = NoOption
    /\ \/ now <= end_time /\ chain' = [chain EXCEPT ![v] = sent[v]] /\ UNCHANGED sent
       \/ sent' = [sent EXCEPT ![v] = NoOption] /\ UNCHANGED chain
    /\ UNCHANGED <<term, asked, audit, query, view, seen, toggles, errors>>

Record(v) ==
    /\ chain[v] # audit[v] /\ v \in Electors
    /\ audit' = [audit EXCEPT ![v] = chain[v]]
    /\ UNCHANGED <<term, asked, sent, chain, query, view, seen, toggles, errors>>

-------------------------------------------------------------------------------
(* GET /elections/:id/results.                                              *)

Tally(rows, who) == [c \in Options |-> Cardinality({v \in who : rows[v] = c})]

Status == IF active /\ start_time <= now /\ now <= end_time THEN "active"
          ELSE IF now < start_time THEN "pending" ELSE "closed"

\* Mutant: the tally is public whenever the election is closed.
TallyPublic_Status == Status = "closed"
TallyPublic == now > end_time

(* One query after another.                                                 *)
\* Mutant: the sources of the votes are counted before the votes.
NextRead_SourcesFirst(at) ==
    CASE at = "election"  -> "sources"  [] at = "sources" -> "displayed"
      [] at = "displayed" -> "inChain"  [] at = "inChain" -> IF here THEN "tally" ELSE "reply"
NextRead(at) ==
    CASE at = "election"  -> "displayed" [] at = "displayed" -> "sources"
      [] at = "sources"   -> "inChain"   [] at = "inChain"   -> IF here THEN "tally" ELSE "reply"

Reads(at, q) ==
    /\ query.at = at
    /\ query' = [q EXCEPT !.at = NextRead(at)]
    /\ UNCHANGED <<term, ballots, view, seen, toggles, errors>>

(* The election, and whether the viewer administers it.                     *)
ReadElection ==
    Reads("election", [query EXCEPT !.got = [Unknown EXCEPT
              !.status = Status, !.hidden = ~(TallyPublic \/ viewer = "admin"),
              !.estado = "no-aplica"]])

CountDisplayed == Reads("displayed", [query EXCEPT !.got.votes = Tally(audit, Everyone)])

CountSources ==
    Reads("sources", [query EXCEPT !.got.demo =
              Cardinality({v \in DemoElectors : audit[v] # NoOption})])

CountInChain == Reads("inChain", [query EXCEPT !.inChain = Tally(audit, Electors)])

Verdict == CASE query.inChain # Tally(chain, Electors) -> "discrepancia"
             [] query.got.demo > 0                     -> "parcial"
             [] OTHER                                  -> "coincide"

(* getTally of the contract, or no answer of the node.                      *)
CompareWithChain ==
    /\ query.at = "tally"
    /\ \E estado \in {Verdict, "sin-respuesta"} :
          query' = [query EXCEPT !.at = "reply", !.got.estado = estado]
    /\ UNCHANGED <<term, ballots, view, seen, toggles, errors>>

OnChainVerified(r) == r.estado = "coincide" /\ r.demo = 0

(* What is sent when the tally is hidden has no figure of a candidate.      *)
Payload == IF query.got.hidden THEN [query.got EXCEPT !.votes = Unknown.votes] ELSE query.got

-------------------------------------------------------------------------------
(* ElectionResults: fetchResults and the interval of 30 seconds.            *)

HasTally(r) == r.status \notin {"none", "active"} /\ ~r.hidden

(* What the tab of the results shows, and what the PDF prints.              *)
Figures(p)  == p.tab = "results" /\ HasTally(p.results)
Sees(shown) == seen' = (seen \/ (shown /\ viewer = "anyone"))

Ask(first) == query' = [NoQuery EXCEPT !.at = "election", !.first = first]

Visit ==
    /\ ~view.open
    /\ view' = [Blank EXCEPT !.open = TRUE, !.loading = TRUE] /\ Ask(TRUE)
    /\ UNCHANGED <<term, ballots, seen, toggles, errors>>

Quit ==
    /\ view.open /\ view' = Blank /\ query' = NoQuery
    /\ UNCHANGED <<term, ballots, seen, toggles, errors>>

FetchResults ==
    /\ query.at = "reply"
    /\ view' = [view EXCEPT !.results = Payload, !.error = FALSE,
                            !.loading = @ /\ ~query.first]
    /\ Sees(Figures(view')) /\ query' = NoQuery
    /\ UNCHANGED <<term, ballots, toggles, errors>>

(* An error of the server or of the network, or the 15 seconds are over.    *)
FetchFails ==
    /\ query.at # "idle" /\ errors < MaxErrors /\ errors' = errors + 1
    /\ view' = [view EXCEPT !.error = TRUE, !.loading = @ /\ ~query.first]
    /\ query' = NoQuery
    /\ UNCHANGED <<term, ballots, seen, toggles>>

(* window.location.reload() of the error box.                               *)
Reload ==
    /\ view.open /\ view.error /\ view.results = Unknown /\ ~view.loading
    /\ view' = [Blank EXCEPT !.open = TRUE, !.loading = TRUE] /\ Ask(TRUE)
    /\ UNCHANGED <<term, ballots, seen, toggles, errors>>

(* The interval lives while the results shown say "active".                 *)
\* Mutant: an error stops the interval.
Refreshes_Once == view.results.status = "active" /\ ~view.error
Refreshes == view.results.status = "active"

Refresh ==
    /\ view.open /\ Refreshes /\ query.at = "idle"
    /\ Ask(FALSE)
    /\ UNCHANGED <<term, ballots, view, seen, toggles, errors>>

-------------------------------------------------------------------------------
(* The tab of the audit, and the PDF.                                       *)

Loaded == view.open /\ view.results # Unknown

(* GET /elections/:id/audit: are there rows?                                *)
Rows == \E v \in Everyone : audit[v] # NoOption

SelectTab(tab) ==
    /\ Loaded /\ view.tab # tab
    /\ view' = [view EXCEPT !.tab = tab]
    /\ Sees(Figures(view'))
    /\ UNCHANGED <<term, ballots, query, toggles, errors>>

LoadAudit ==
    /\ view.tab = "audit" /\ ~view.audit
    /\ view' = [view EXCEPT !.audit = Rows]
    /\ UNCHANGED <<term, ballots, query, seen, toggles, errors>>

(* The figures are printed unless they are hidden, whichever the tab, and   *)
(* for an administrator also those of an election that is still active.     *)
Prints(r) == r # Unknown /\ ~r.hidden

(* Its rows are asked for if there are none yet.                            *)
ExportPdf ==
    /\ Loaded
    /\ view' = [view EXCEPT !.audit = @ \/ Rows]
    /\ Sees(Prints(view.results))
    /\ UNCHANGED <<term, ballots, query, toggles, errors>>

(* The badge beside the title, and the foot of the PDF.                     *)
SaysVerified(r) == OnChainVerified(r)

-------------------------------------------------------------------------------
Handling == ReadElection \/ CountDisplayed \/ CountSources \/ CountInChain \/ CompareWithChain

Viewing ==
    \/ Visit \/ Quit \/ FetchResults \/ FetchFails \/ Reload \/ Refresh
    \/ \E tab \in {"results", "audit"} : SelectTab(tab)
    \/ LoadAudit \/ ExportPdf

ResultsNext ==
    \/ Clock \/ ToggleActive
    \/ \E v \in Everyone, c \in Options : Accept(v, c) \/ Broadcast(v, c) \/ RecordDemo(v, c)
    \/ \E v \in Everyone : Block(v) \/ Record(v)
    \/ Handling \/ Viewing

-------------------------------------------------------------------------------
(* Once somebody who does not administer the election has seen how the      *)
(* votes are shared out, on the page or in its PDF, no request to vote is   *)
(* accepted and the contract takes no vote, also if administrators hide and *)
(* show the election meanwhile.  The rows still change: for votes that the  *)
(* contract has, and for those of demonstration accounts whose requests     *)
(* were accepted before.                                                    *)
NoVoteAfterTally ==
    [][seen => /\ \A v \in Everyone : asked'[v] \subseteq asked[v]
               /\ chain' = chain
               /\ \A v \in Everyone : audit'[v] # audit[v] =>
                     audit'[v] = chain[v] \/ (v \in DemoElectors /\ audit'[v] \in asked[v])]_resultsVars

(* Every vote of a result that says "verified in the chain" is in the       *)
(* contract, though votes of all kinds arrived while the server counted.    *)
VerifiedIsTrue ==
    SaysVerified(view.results) =>
        \A c \in Options : view.results.votes[c] <= Tally(chain, Everyone)[c]

(* A page open while the election is active ends up with the tally, without *)
(* being loaded again, unless it is left or the election is hidden.         *)
OpenPageShowsTally ==
    (view.results.status = "active") ~> (HasTally(view.results) \/ ~view.open \/ toggles > 0)

===============================================================================
