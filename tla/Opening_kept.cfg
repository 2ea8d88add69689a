CONSTANTS
    d1 = d1
    d2 = d2
    s1 = s1
    s2 = s2
    Procs = {p1, p2}
    Cands = {d1, d2}
    Snaps = {s1, s2}
    FrozenIn <- EachItsOwn
    Requests = {}
    Contents = {}
    None = None
    MaxRev = 3
    MaxOps = 4
SPECIFICATION OpeningSpec
PROPERTIES LiveWorkKept
CHECK_DEADLOCK FALSE
