CONSTANTS
    s1 = s1
    s2 = s2
    a = a
    uni = uni
    dept = dept
    Everyone = Everyone
    None = None
    MaxRequests = 3
    InFlight = 2
    Students = {s1, s2}
    Admins = {a}
    Elections = {e1}
    Domains = {uni, dept}
    DomainOf <- MCDomainOf
    Below <- MCBelow
    Scopes = {uni, Everyone}
    Files <- MCFiles
    Spellings = {"lower"}
    Calls <- MCCalls
    MAX_CANDIDATES = 2
    Faults = TRUE
SPECIFICATION Spec
SYMMETRY Symmetry
INVARIANTS CensusComplete
PROPERTIES FrozenAfterStart
CHECK_DEADLOCK FALSE
