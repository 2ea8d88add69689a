CONSTANTS
    p1 = p1
    p2 = p2
    c1 = c1
    c2 = c2
    c3 = c3
    Procs = {p1}
    Callers = {c1, c2, c3}
    Proc <- OneProcess
    MaxQueue = 3
SPECIFICATION FairSpec
PROPERTIES Drains Returns
