\* One handler, two reapers, two failures.
SPECIFICATION FairSpec
CONSTANTS
    Ids = {e1}
    Namespaces = {n1}
    Callers = {c1}
    Reconcilers = {r1}
    Reapers = {o1, o2}
    MaxVer = 2
    MaxFaults = 2
    OrphanMaxAttempts = 2
CHECK_DEADLOCK FALSE
INVARIANTS
    ForgetCompleteOrQueued
PROPERTIES
    ImplementsEntryLife
    EventuallyEmbedded
    OrphanEventuallySettled
