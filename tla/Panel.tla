--------------------------------- MODULE Panel ---------------------------------
(* The administration panel: its tabs, each loaded when it is selected, the *)
(* operations that load it again, the poll of the registration in the       *)
(* chain, and the log of actions.  A request is handled when it is sent,    *)
(* and its answer takes as long as it takes.  Of what the tabs show only    *)
(* the list of elections is kept, and of it one election's registration in  *)
(* the chain: what a handler checks and writes is in Census, and how an     *)
(* election is registered in ChainSync.                                     *)
EXTENDS Naturals

CONSTANTS
    PanelTabs,      \* bound: the tabs that are used
    Loads,          \* loads of a tab that may be running at once
    Ops,            \* operations that may be running at once
    Queries,        \* filters of the log
    FirstQuery,
    MaxOps,         \* bound: operations
    MaxQueries      \* bound: changes of the filter

ASSUME PanelAssumption ==
    /\ "dashboard" \in PanelTabs
    /\ PanelTabs \subseteq {"dashboard", "users", "elections", "audit", "stats", "inbox", "actions"}
    /\ FirstQuery \in Queries
    /\ MaxOps \in Nat /\ MaxQueries \in Nat

VARIABLES
    chain_status,   \* of the election; "none": not created yet; "settled": registered or failed
    elections,      \* what the panel has of it; "none": an empty list
    activeTab,
    loading,
    load,           \* the runs of loadTabData
    poll,           \* the request of the interval of 15 seconds
    op,             \* the requests of the handlers
    actionLog,      \* the state of ActionLogTab, and its requests
    ops, queries

panelBounds == <<ops, queries>>
panelPage == <<activeTab, loading>>
panelVars == <<chain_status, elections, panelPage, load, poll, op, actionLog, panelBounds>>

NoLoad  == [at |-> "idle", seen |-> "none"]
NoOp    == [at |-> "idle", form |-> FALSE, ok |-> FALSE, reload |-> "nothing"]
NoPoll  == [at |-> "idle", seen |-> "none"]
Away    == [query |-> FirstQuery, result |-> "none", asked |-> {}]
Mounted == [Away EXCEPT !.asked = {[query |-> FirstQuery, cancelled |-> FALSE]}]

(* What a run of loadTabData asks for first: the elections, the audit and   *)
(* then the elections if there are none, or what is only shown.             *)
FirstRequest(tab) ==
    CASE tab = "elections"                       -> [at |-> "list", seen |-> chain_status]
      [] tab = "audit" /\ elections = "none"     -> [at |-> "audit", seen |-> "none"]
      [] OTHER                                   -> [at |-> "shown", seen |-> "none"]

(* A new run; which of the idle ones is all the same.                       *)
Room         == \E l \in Loads : load[l].at = "idle"
Loading(tab) == load' = [load EXCEPT ![CHOOSE l \in Loads : load[l].at = "idle"] = FirstRequest(tab)]

PanelInit ==
    /\ chain_status \in {"none", "pending"}
    /\ elections = "none" /\ activeTab = "gone" /\ loading = FALSE
    /\ load = [l \in Loads |-> NoLoad]
    /\ poll = NoPoll /\ op = [o \in Ops |-> NoOp] /\ actionLog = Away
    /\ ops = 0 /\ queries = 0

(* The log is on the page while its tab is and nothing loads.               *)
LogHere == activeTab = "actions" /\ ~loading
LogFollows ==
    actionLog' = IF ~LogHere' THEN Away ELSE IF LogHere THEN actionLog ELSE Mounted

-------------------------------------------------------------------------------
(* The page is opened on its dashboard.                                     *)
OpenPanel ==
    /\ activeTab = "gone" /\ activeTab' = "dashboard"
    /\ loading' = TRUE /\ Loading("dashboard")
    /\ UNCHANGED <<chain_status, elections, poll, op, actionLog, panelBounds>>

(* setActiveTab, and the effect that loads the tab; that of the log has     *)
(* nothing to load.                                                         *)
ShowTab(tab) ==
    /\ activeTab \notin {"gone", tab} /\ activeTab' = tab
    /\ IF tab = "actions" THEN loading' = FALSE /\ UNCHANGED load
                      ELSE loading' = TRUE /\ Room /\ Loading(tab)
    /\ UNCHANGED <<chain_status, elections, poll, op, panelBounds>>
    /\ LogFollows

(* Then the domains, the units and the degrees for the form of an election, *)
(* which may fail, or the elections for the filter of the audit.            *)
NextRequest(l) ==
    CASE load[l].at = "list"  -> [at |-> "shown", seen |-> "none"]
      [] load[l].at = "audit" -> [at |-> "filter", seen |-> chain_status]
      [] OTHER                -> NoLoad

LoadAnswered(l) ==
    /\ load[l].at # "idle"
    /\ elections' = IF load[l].at \in {"list", "filter"} THEN load[l].seen ELSE elections
    /\ load' = [load EXCEPT ![l] = NextRequest(l)]
    /\ loading' = (loading /\ NextRequest(l) # NoLoad)
    /\ UNCHANGED <<chain_status, activeTab, poll, op, panelBounds>>
    /\ LogFollows

(* An error says so above the tab.                                          *)
LoadFails(l) ==
    /\ load[l].at # "idle"
    /\ load' = [load EXCEPT ![l] = NoLoad]
    /\ loading' = FALSE
    /\ UNCHANGED <<chain_status, elections, activeTab, poll, op, panelBounds>>
    /\ LogFollows

-------------------------------------------------------------------------------
(* The registration in the chain, and the interval that follows it.         *)

Register ==
    /\ \/ chain_status = "pending" /\ chain_status' = "syncing"
       \/ chain_status = "syncing" /\ chain_status' = "settled"
    /\ UNCHANGED <<elections, panelPage, load, poll, op, actionLog, panelBounds>>

\* Mutant: an election that is being sent needs no poll.
chainPending_Unsent == elections = "pending"
chainPending == elections \in {"pending", "syncing"}

Poll ==
    /\ activeTab = "elections" /\ chainPending /\ poll.at = "idle"
    /\ poll' = [at |-> "sent", seen |-> chain_status]
    /\ UNCHANGED <<chain_status, elections, panelPage, load, op, actionLog, panelBounds>>

(* Whatever the tab is by then.                                             *)
PollAnswered ==
    /\ poll.at = "sent" /\ poll' = NoPoll
    /\ elections' = poll.seen
    /\ UNCHANGED <<chain_status, panelPage, load, op, actionLog, panelBounds>>

PollFails ==
    /\ poll.at = "sent" /\ poll' = NoPoll
    /\ UNCHANGED <<chain_status, elections, panelPage, load, op, actionLog, panelBounds>>

-------------------------------------------------------------------------------
(* The handlers.  Those of a form set `loading', so that it is not sent     *)
(* again; most load their tab again when they went well.                    *)

Here(tab) == activeTab = tab /\ ~loading

(* What each part of the page lets the administrator do, and when.          *)
Dashboard    == Here("dashboard")
Users        == Here("users")
ElectionForm == Here("elections")
ElectionList == ElectionForm /\ elections # "none"
Requests     == Here("inbox")
VoterStats   == Here("stats") /\ chain_status # "none"

Request(o, tab, form, reload, created) ==
    /\ op[o].at = "idle" /\ ops < MaxOps /\ ops' = ops + 1
    /\ \E ok \in BOOLEAN :
          /\ op' = [op EXCEPT ![o] = [at |-> IF ok /\ created THEN "created" ELSE "sent",
                                      form |-> form, ok |-> ok,
                                      reload |-> IF ok /\ reload THEN tab ELSE "nothing"]]
          /\ chain_status' = IF ok /\ created /\ chain_status = "none"
                             THEN "pending" ELSE chain_status
    /\ loading' = form
    /\ UNCHANGED <<elections, activeTab, load, poll, queries>>
    /\ LogFollows

Plain(o, tab)   == Request(o, tab, FALSE, FALSE, FALSE)
Reloads(o, tab) == Request(o, tab, FALSE, TRUE, FALSE)
Form(o, tab)    == Request(o, tab, TRUE, TRUE, FALSE)

SyncBlockchain(o) == Dashboard /\ Plain(o, "dashboard")
CreateUser(o)     == Users /\ Form(o, "users")
DeleteUser(o)     == Users /\ Reloads(o, "users")
ImportUsers(o)    == Users /\ Reloads(o, "users")
CreateElection(o) == ElectionForm /\ Request(o, "elections", TRUE, TRUE, TRUE)
ToggleElection(o) == ElectionList /\ Reloads(o, "elections")
SaveEdit(o)       == ElectionList /\ Reloads(o, "elections")
AddVoter(o)       == ElectionList /\ Plain(o, "elections")
AddDomain(o)      == ElectionList /\ Plain(o, "elections")
ImportVoters(o)   == ElectionList /\ Reloads(o, "elections")
ApproveRequest(o) == Requests /\ Form(o, "inbox")
RejectRequest(o)  == Requests /\ Form(o, "inbox")

(* From the statistics of an election, which are asked for when they open.  *)
LoadStats(o)      == VoterStats /\ Plain(o, "stats")
CloseElection(o)  == VoterStats /\ Reloads(o, "stats")

(* The image of a new election goes up next, and may fail.                  *)
UploadImage(o) ==
    /\ op[o].at = "created"
    /\ op' = [op EXCEPT ![o].at = "sent"]
    /\ UNCHANGED <<chain_status, elections, panelPage, load, poll, actionLog, panelBounds>>

(* finally, of the handlers that set it.                                    *)
AfterFailure(form) == loading /\ ~form

OpFails(o) ==
    /\ op[o].at = "sent" /\ ~op[o].ok
    /\ op' = [op EXCEPT ![o] = NoOp]
    /\ loading' = AfterFailure(op[o].form)
    /\ UNCHANGED <<chain_status, elections, activeTab, load, poll, panelBounds>>
    /\ LogFollows

(* The tab of the handler is loaded again, whichever is selected by now;    *)
(* nobody waits for that load, and finally runs after it has set loading.   *)
OpDone(o) ==
    /\ op[o].at # "idle" /\ op[o].ok
    /\ op' = [op EXCEPT ![o] = NoOp]
    /\ IF op[o].reload = "nothing" THEN UNCHANGED <<load, loading>>
       ELSE Room /\ Loading(op[o].reload) /\ loading' = ~op[o].form
    /\ UNCHANGED <<chain_status, elections, activeTab, poll, panelBounds>>
    /\ LogFollows

-------------------------------------------------------------------------------
(* ActionLogTab: `loading' is that the last result is of another query.     *)

Cancelled(a) == [a EXCEPT !.cancelled = TRUE]

ChooseQuery(q) ==
    /\ LogHere /\ q # actionLog.query
    /\ queries < MaxQueries /\ queries' = queries + 1
    /\ actionLog' = [actionLog EXCEPT !.query = q,
                          !.asked = {Cancelled(a) : a \in @} \cup {[query |-> q, cancelled |-> FALSE]}]
    /\ UNCHANGED <<chain_status, elections, panelPage, load, poll, op, ops>>

(* The entries, or an error, of the query they were asked for.              *)
LogAnswered(a) ==
    /\ LogHere /\ a \in actionLog.asked
    /\ actionLog' = [actionLog EXCEPT !.asked = @ \ {a},
                          !.result = IF a.cancelled THEN @ ELSE a.query]
    /\ UNCHANGED <<chain_status, elections, panelPage, load, poll, op, panelBounds>>

-------------------------------------------------------------------------------
Handlers(o) ==
    \/ SyncBlockchain(o) \/ CreateUser(o) \/ DeleteUser(o) \/ ImportUsers(o)
    \/ CreateElection(o) \/ ToggleElection(o) \/ SaveEdit(o) \/ AddVoter(o) \/ AddDomain(o)
    \/ ImportVoters(o) \/ ApproveRequest(o) \/ RejectRequest(o) \/ LoadStats(o) \/ CloseElection(o)

LogRequest == [query : Queries, cancelled : BOOLEAN]

PanelNext ==
    \/ OpenPanel \/ Register \/ Poll \/ PollAnswered \/ PollFails
    \/ \E tab \in PanelTabs : ShowTab(tab)
    \/ \E l \in Loads : LoadAnswered(l) \/ LoadFails(l)
    \/ \E o \in Ops : Handlers(o) \/ UploadImage(o) \/ OpFails(o) \/ OpDone(o)
    \/ \E q \in Queries : ChooseQuery(q)
    \/ \E a \in LogRequest : LogAnswered(a)

-------------------------------------------------------------------------------
(* A list of elections that stays on the page does not go on saying that an *)
(* election is being registered in the chain when that is over, though      *)
(* polls fail and an answer older than another may arrive after it.         *)
ListCatchesUp ==
    (activeTab = "elections" /\ elections \in {"pending", "syncing"} /\ chain_status = "settled")
        ~> (activeTab # "elections" \/ elections \notin {"pending", "syncing"})

===============================================================================
