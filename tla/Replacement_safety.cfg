CONSTANTS
    c1 = c1
    c2 = c2
    Cands = {c1, c2}
    Foreign = Foreign
    Size = 2
    Desired <- DropsService
    Linked = {c1}
    Addrs = {1, 2}
    MaxIds = 6
    MaxTxns = 2
    MaxFaults = 1
    MaxMeddling = 1
SPECIFICATION Spec
INVARIANTS TypeOK Recorded OneGenerationRuns RefusalHasCause
PROPERTIES OldKept Restored CommitSawAlive CommitMatchesPlan UpIsAtomic
