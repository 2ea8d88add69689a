CONSTANTS
    Last = 2
    Bars = {1}
    SlowTicks = 2
    ForcedTicks = 2
    MaxSpawned = 1
    MaxChanges = 1
    MaxFaults = 2
SPECIFICATION FairSpec
INVARIANTS Owed
PROPERTIES Shown
