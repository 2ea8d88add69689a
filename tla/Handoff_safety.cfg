CONSTANTS
    r1 = r1
    r2 = r2
    b1 = b1
    p1 = p1
    p2 = p2
    Procs = {p1, p2}
    Digests = {r1, r2, b1}
    Built = {b1}
    Offered = {r1, r2}
    None = None
    MaxGen = 2
    MaxRev = 3
    MaxOps = 5
SYMMETRY Symmetry
CHECK_DEADLOCK FALSE
SPECIFICATION Spec
INVARIANTS RootsUsable ShimResolves SuccessAgrees
PROPERTIES StoreIsShelf
