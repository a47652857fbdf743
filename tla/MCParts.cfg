CONSTANTS
    Parts = {"booth", "recount", "results", "web", "panel", "migrations", "start", "sqlite", "contract", "deployment", "retention"}
    Tabs = {t1, t2}
    Posts = {p1, p2}
    Candidates = {"A"}
    None = "no"
    MaxLoads = 2
    Nullifiers = {"n1", "n2", "n3"}
    CandidateIds = {0, 1}
    Deployed = 1
    BLOCK_WINDOW = 2
    MaxBlock = 5
    Electors = {"v1"}
    DemoElectors = {"d1"}
    Options = {"A"}
    NoOption = "no"
    MaxAsked = 1
    MaxToggles = 1
    MaxErrors = 0
    WebTabs = {"t1", "t2"}
    Calls = {"c1", "c2", "c3"}
    Owner <- OwnerOfCall
    Forms = {"c1"}
    MaxExpiries = 1
    MaxFaults = 1
    MaxVisits = 0
    PanelTabs = {"dashboard", "users", "elections", "audit", "stats", "inbox", "actions"}
    Loads = {1}
    Ops = {1}
    Queries = {"q1", "q2"}
    FirstQuery = "q1"
    MaxOps = 1
    MaxQueries = 1
    Members = {"u1", "u2"}
    DemoMembers = {"u2"}
    Hashes = {"h1", "h2"}
    Paper = {1, 2, 3}
    MaxDowns = 2
    Voters = {"u1", "u2"}
    Ballots = {"h1", "h2"}
    Keys = {"owner", "k1"}
    OwnerKey = "owner"
    NoKey = "no"
    MaxDeploys = 2
    Callbacks = {"outer", "nested", "other"}
    Outer <- OuterOf
    Statements = {"s"}
    Writes = 2
    Senders = {"owner", "relayer"}
    Owner1 = "owner"
    Witnesses = {"n1", "n2"}
    VoteHashes = {"h1", "h2"}
    ZeroBytes = "zero"
    MaxRegistered = 2
    LastTime = 2
    Kept = {"r1", "k1", "a1", "m1"}
    TableOf <- TableOfRow
    RETENTION <- Terms
    TokenLife = 1
    Runs = {1}
    LastDay = 2
    MaxJobErrors = 1
SPECIFICATION Spec
INVARIANTS BallotNotOfferedAgain VerifiedIsTrue NeverThrowsItselfOut SchemaMoves TurnoutMatchesVotes OwnersAreAtomic NoFalseAlarm AuditsAgree FileIsWhole RecordIsTrue
PROPERTIES NoVoteAfterTally
CHECK_DEADLOCK FALSE
