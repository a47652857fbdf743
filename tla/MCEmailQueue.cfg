CONSTANTS
    w1 = w1
    w2 = w2
    notice = notice
    reset = reset
    again = again
    invitation = invitation
    Worker = {w1, w2}
    Plain = {notice}
    Links = {reset, again}
    Line = {"reset", "invitation"}
    LineOf <- MCLineOf
    MaxAttempts = 2
    MaxFaults = 2
    MaxFaultsOfTwo = 1
    Faults <- MCSurvivable
SPECIFICATION MCSpec
INVARIANTS OneLiveLink
PROPERTIES QueueIsOutbox Settles
