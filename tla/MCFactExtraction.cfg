SPECIFICATION MCSpec
CONSTANTS
    Chunks = {c1}
    Contents = {A, B}
    Facts = {f1, f2, f3}
    NoChunk = NoChunk
    Handlers = {h1, h2}
    Workers = {w1}
    MaxWrites = 2
    MaxFaults = 1
    A = A
    B = B
    f1 = f1
    f2 = f2
    f3 = f3
    u1 = u1
    Bridges = {b1}
    NoId = NoId
    NoUser = NoUser
    UserOf <- OneUser
    Replicas <- TwoReplicas
    Ids <- TwoIds
    Kinds <- Lines
    MaxPerUser = 1
    MaxLines = 2
    MaxBreaks = 1
    FactsOf <- TwoTexts
CHECK_DEADLOCK FALSE
INVARIANTS
    NoStaleFacts
    SettledMeansExtracted
    RelaySound
PROPERTIES
    FactsEventuallyStored
