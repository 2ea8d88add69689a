CONSTANTS
    c1 = c1
    c2 = c2
    Cands = {c1}
    Foreign = Foreign
    Size = 2
    Desired <- SamePlan
    Linked = {}
    Addrs = {}
    MaxIds = 6
    MaxTxns = 2
    MaxFaults = 2
    MaxMeddling = 1
SPECIFICATION FairSpec
PROPERTIES Recovers
