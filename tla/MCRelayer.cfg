CONSTANTS
    v1 = v1
    v2 = v2
    e1 = e1
    Cancel = Cancel
    Null = Null
    Votes = {v1, v2}
    Elections = {e1}
    MaxNonce = 6
    MaxRepairs = 1
    MaxFaults = 2
SPECIFICATION RelayerSpec
INVARIANTS NoGap
PROPERTIES QueueMoves
CHECK_DEADLOCK FALSE
