\* Every path, with the deadlocks it can get into; startups; the graph.
SPECIFICATION MCSpec
CONSTANTS
    t1 = t1
    t2 = t2
    Entries = {1, 2}
    Edges = {1, 2}
    Ends <- TwoEnds
    Txns = {t1, t2}
    Paths = {"forget", "forgetSource", "forgetFacts", "update", "bump", "reapExpired", "deleteProject", "deleteUser"}
    Free = Free
    a = a
    b = b
    Replicas = {a, b}
    rerank = rerank
    extract = extract
    NoOne = NoOne
    Features = {rerank, extract}
    Coerced = {extract}
    Builds <- TwoBuilds
    Envs <- FiveEnvs
    Databases <- TwoDatabases
    Top = 2
    Rerunnable = {1}
    OfUsers = {2}
    MaxFaults = 1
    Ids = {1, 2, 3}
    Reconcilers = {r1}
    Rank <- ByNearness
    Fanout = 1
    Cap = 1
    BatchSize = 1
    Depth = 2
    Limit = 2
    Hidden = {3}
    MaxFailures = 1
CHECK_DEADLOCK FALSE
INVARIANTS
    NoDeadlock
    NoHalfDeleted
    ReadyToServe
    GraphSound
PROPERTIES
    EventuallyServes
    DebtsPaid
