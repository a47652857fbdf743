-------------------------------- MODULE MCParts --------------------------------
(* The pages of the frontend, the migrations, the start and the adapter of  *)
(* SQLite, the first contract, the retention and the scripts of the         *)
(* deployment and the recount share nothing, so each behaviour is of one of *)
(* them: the rest stays.                                                    *)
EXTENDS Booth, Recount, Deployment, Results, Web, Panel,
        Migrations, SqliteStart, SqliteTransactions, ElectionRegistryV1, Retention

CONSTANT Parts

VARIABLE part

frontendVars == <<boothVars, resultsVars, webVars, panelVars>>
backendVars  == <<migrationsVars, sqliteStartVars, sqliteVars, retentionVars>>
chainVars    == <<recountVars, deploymentVars, registryV1Vars>>
vars         == <<part, frontendVars, backendVars, chainVars>>

OwnerOfCall == [c \in Calls |-> IF c = "c3" THEN "t2" ELSE "t1"]
OuterOf     == [c \in Callbacks |-> IF c = "nested" THEN "outer" ELSE c]
Tables      == [r1 |-> "request", m1 |-> "mail", k1 |-> "token", a1 |-> "account", l1 |-> "action"]
TableOfRow  == [r \in Kept |-> Tables[r]]
Terms       == [request |-> 1, mail |-> 2, token |-> 0, account |-> 1, action |-> 1]

Init ==
    /\ part \in Parts
    /\ SqliteStartInit /\ (part = "start"      \/ (kind = "admins" /\ approved /\ blocks = {}))
    /\ MigrationsInit  /\ (part = "migrations" \/ subject = "votes")
    /\ ResultsInit     /\ (part = "results"    \/ (active /\ here /\ viewer = "anyone"))
    /\ WebInit         /\ (part = "web"        \/ (jar.access /\ must_change))
    /\ PanelInit       /\ (part = "panel"      \/ chain_status = "none")
    /\ BoothInit /\ RecountInit /\ SqliteInit /\ RegistryV1Init /\ DeploymentInit /\ RetentionInit

Rest(others) == UNCHANGED <<part, others>>

OfPages(others)     == Rest(<<others, backendVars, chainVars>>)
OfBackend(others) == Rest(<<others, frontendVars, chainVars>>)
OfChain(others)   == Rest(<<others, frontendVars, backendVars>>)

Booths     == part = "booth"      /\ BoothNext      /\ OfPages(<<resultsVars, webVars, panelVars>>)
Views      == part = "results"    /\ ResultsNext    /\ OfPages(<<boothVars, webVars, panelVars>>)
Sessions   == part = "web"        /\ WebNext        /\ OfPages(<<boothVars, resultsVars, panelVars>>)
Panels     == part = "panel"      /\ PanelNext      /\ OfPages(<<boothVars, resultsVars, webVars>>)
Schema     == part = "migrations" /\ MigrationsNext /\ OfBackend(<<sqliteStartVars, sqliteVars, retentionVars>>)
Upgrades   == part = "start"      /\ SqliteStartNext /\ OfBackend(<<migrationsVars, sqliteVars, retentionVars>>)
Sqlite     == part = "sqlite"     /\ SqliteNext     /\ OfBackend(<<migrationsVars, sqliteStartVars, retentionVars>>)
Erasures   == part = "retention"  /\ RetentionNext  /\ OfBackend(<<migrationsVars, sqliteStartVars, sqliteVars>>)
Recounts   == part = "recount"    /\ RecountNext    /\ OfChain(<<deploymentVars, registryV1Vars>>)
Contract1  == part = "contract"   /\ RegistryV1Next /\ OfChain(<<recountVars, deploymentVars>>)
Deploys    == part = "deployment" /\ DeploymentNext /\ OfChain(<<recountVars, registryV1Vars>>)

Next ==
    \/ Booths \/ Views \/ Sessions \/ Panels
    \/ Schema \/ Upgrades \/ Sqlite \/ Erasures
    \/ Recounts \/ Contract1 \/ Deploys

Spec == Init /\ [][Next]_vars

(* The clock runs, requests are answered or fail, intervals fire, and the   *)
(* polls of the panel do not fail for ever; the connection answers, and a   *)
(* run of the retention goes on.                                            *)
ViewsFair ==
    /\ WF_resultsVars(part = "results" /\ Clock)
    /\ WF_resultsVars(part = "results" /\ Handling)
    /\ WF_resultsVars(part = "results" /\ (FetchResults \/ FetchFails))
    /\ WF_resultsVars(part = "results" /\ Refresh)

WebFair == \A c \in Calls : WF_webVars(part = "web" /\ Client(c))

PanelFair ==
    /\ WF_panelVars(part = "panel" /\ Poll)
    /\ SF_panelVars(part = "panel" /\ PollAnswered)

BackendFair ==
    /\ \A c \in Callbacks : WF_sqliteVars(part = "sqlite" /\ Turn(c))
    /\ \A j \in Runs : WF_retentionVars(part = "retention" /\ JobStep(j))

FairSpec == Spec /\ ViewsFair /\ WebFair /\ PanelFair /\ BackendFair

===============================================================================
