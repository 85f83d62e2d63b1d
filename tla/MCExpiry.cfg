SPECIFICATION FairSpec
CONSTANTS
    Ids = {i1, i2}
    Ttls = {"none", "ahead", "junk"}
    Decayers = {d1}
    Keepers = {k1}
    BatchSize = 1
    MaxAttempts = 2
    MaxWrites = 3
    MaxFaults = 2
CHECK_DEADLOCK FALSE
INVARIANTS
    DeletedOrParked
PROPERTIES
    OnlyDueRemoved
    DecayDrains
