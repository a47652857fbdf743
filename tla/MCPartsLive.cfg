CONSTANTS
    Parts = {"results", "web", "panel", "sqlite", "retention"}
    Tabs = {"t1", "t2"}
    Posts = {"p1", "p2"}
    Candidates = {"A", "B"}
    None = "no"
    MaxLoads = 2
    Nullifiers = {"n1", "n2", "n3"}
    CandidateIds = {0, 1}
    Deployed = 1
    BLOCK_WINDOW = 2
    MaxBlock = 5
    Electors = {"v1"}
    DemoElectors = {}
    Options = {"A"}
    NoOption = "no"
    MaxAsked = 1
    MaxToggles = 0
    MaxErrors = 1
    WebTabs = {"t1"}
    Calls = {"c1", "c2"}
    Owner <- OwnerOfCall
    Forms = {"c1"}
    MaxExpiries = 1
    MaxFaults = 1
    MaxVisits = 1
    PanelTabs = {"dashboard", "elections"}
    Loads = {1, 2}
    Ops = {1}
    Queries = {"q1", "q2"}
    FirstQuery = "q1"
    MaxOps = 1
    MaxQueries = 1
    Members = {"u1", "u2"}
    DemoMembers = {"u2"}
    Hashes = {"h1", "h2"}
    Paper = {1, 2, 3}
    MaxDowns = 2
    Voters = {"u1", "u2"}
    Ballots = {"h1", "h2"}
    Keys = {"owner", "k1"}
    OwnerKey = "owner"
    NoKey = "no"
    MaxDeploys = 2
    Callbacks = {"outer", "nested", "other"}
    Outer <- OuterOf
    Statements = {"s"}
    Writes = 2
    Senders = {"owner", "relayer"}
    Owner1 = "owner"
    Witnesses = {"n1", "n2"}
    VoteHashes = {"h1", "h2"}
    ZeroBytes = "zero"
    MaxRegistered = 2
    LastTime = 2
    Kept = {"l1", "a1"}
    TableOf <- TableOfRow
    RETENTION <- Terms
    TokenLife = 1
    Runs = {1, 2}
    LastDay = 3
    MaxJobErrors = 1
SPECIFICATION FairSpec
PROPERTIES OpenPageShowsTally EveryCallSettles ListCatchesUp EveryTransactionEnds OverdueIsForgotten
CHECK_DEADLOCK FALSE
