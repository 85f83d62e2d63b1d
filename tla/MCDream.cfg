SPECIFICATION MCSpec
CONSTANTS
    Ids = {1, 2, 3}
    Texts = {A1, A2, B}
    NoText = NoText
    Alike <- SameSense
    Stored <- TwoAlike
    Dreamers = {d1}
    BatchSize = 2
    MaxHits = 4
    MaxWrites = 1
    MaxFailures = 1
    A1 = A1
    A2 = A2
    B = B
    Nobody = Nobody
    Calls = {1, 2, 3}
    Replicas = {1, 2}
    RequestKinds = {"signin", "password", "anonymous", "rotate", "write"}
    MaxRequests = 2
    ThrottleMax = 1
    FailMax = 2
    WritesPerMinute = 2
    MaxEntries = 1
    Minute = 2
    ThrottleWindow = 1
    FailWindow = 2
    CountTTL = 1
    MaxTime = 2
    MaxFaults = 1
CHECK_DEADLOCK FALSE
INVARIANT BudgetsHeld
PROPERTIES
    MergeKeeps
    WalkComesRound
