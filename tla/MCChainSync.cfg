CONSTANTS
    Proc = {p1, p2}
    End = {1, 2}
    MaxCandidates = 1
    ChainMaxAttempts = 2
    MaxTime = 1
    MaxSends = 3
    MaxOthers = 1
    MaxEdits = 1
    MaxFaults = 2
    Faults <- MCSurvivable
SPECIFICATION FairSpec
INVARIANTS OneElection
PROPERTIES SyncIsRegistration Registers
