CONSTANTS
    r1 = r1
    r2 = r2
    r3 = r3
    d1 = d1
    d2 = d2
    v1 = v1
    v2 = v2
    A = A
    B = B
    None = None
    Requests = {r1, r2}
    Voters = {v1}
    Candidates = {A, B}
    VoterOf <- MCVoterOf
    ChoiceOf <- MCChoiceOf
    DemoVoters = {}
    Jobs = {j1}
    Faults = {"db", "rpc", "lostAnswer", "waitError", "cancel", "speedup", "noPort", "expiry", "blockDuringLook"}
    SlowHandlers = FALSE
    MaxCrashes = 1
SPECIFICATION FairSpec
INVARIANTS OneSender
PROPERTIES LocksResolve
