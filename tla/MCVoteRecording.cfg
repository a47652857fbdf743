CONSTANTS
    r1 = r1
    r2 = r2
    r3 = r3
    d1 = d1
    d2 = d2
    v1 = v1
    v2 = v2
    A = A
    B = B
    None = None
    Requests = {r1, r2, d1, d2}
    Voters = {v1, v2}
    Candidates = {A, B}
    VoterOf <- MCVoterOf
    ChoiceOf <- MCChoiceOf
    DemoVoters = {v2}
    Jobs = {j1}
    Faults = {"db", "rpc", "lostAnswer", "waitError", "cancel", "speedup", "noPort", "blockDuringLook"}
    SlowHandlers = TRUE
    MaxCrashes = 0
SPECIFICATION Spec
INVARIANTS AuditMatchesChain
PROPERTIES RecordedIsBallotBox
