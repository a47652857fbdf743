CONSTANTS
    u1 = u1
    u2 = u2
    r1 = r1
    r2 = r2
    r3 = r3
    r4 = r4
    old = old
    new = new
    NoPass = NoPass
    None = None
    Users = {u1}
    Requests = {r1, r2, r3, r4}
    Tokens = {1, 2, 3, 4, 5}
    Links = {1, 2, 3}
    Passwords = {old, new}
    Seeded = {old}
    DemoUsers = {u1}
    DemoLogin = TRUE
    DbFaults = TRUE
    MaxCrashes = 1
SPECIFICATION Spec
SYMMETRY Symmetry
INVARIANTS RotatedOnce OnlyRacersSurvive
PROPERTIES LinksWorkOnce
CHECK_DEADLOCK FALSE
