CONSTANTS
    v1 = v1
    v2 = v2
    Voters = {v1, v2}
    MaxFailures = 1
    MaxEdits = 2
    Recipients = {v1, v2}
    Ids <- MCIds
    Early = {v1}
    MAX_NOTIFY_BATCH = 1
    Rounds = {p1, p2}
    MaxLosses = 1
    MaxChanges = 2
SPECIFICATION DaySpec

INVARIANTS VotesAreSalted
PROPERTIES SaltIsDestroyed EverybodyIsTold
CHECK_DEADLOCK FALSE
