SPECIFICATION MCSpec
CONSTANTS
    Ids = {i1, i2, i3}
    NoId = NoId
    Texts = {Paris, ParisMore, Berlin}
    NoText = NoText
    Near <- SameSubject
    Contradicts <- OtherPlace
    Extends <- SameWords
    Refs = {r1}
    Handlers = {h1, h2}
    MaxWrites = 3
    MaxFaults = 2
    Paris = Paris
    ParisMore = ParisMore
    Berlin = Berlin
    Keys = {k1, k2}
    NoCall = NoCall
    Calls = {i1, i2, i3}
    Kinds = {"query", "document"}
    Attempts = 2
    MaxSize = 1
    TTL = 1
    MaxTime = 1
    MaxBadAnswers = 1
    claude = claude
    copilot = copilot
    codex = codex
    json = json
    toml = toml
    Tools = {claude, copilot, codex}
    Stdio = {codex}
    Paths = {json, toml}
    ConfigPath <- HostFile
    Selections <- HostChoices
    MaxRuns = 2
    MaxEdits = 1
    MaxMishaps = 1
    NoPath = NoPath
    Toml = {toml}
    Commanded = {claude}
    Things = {server, note}
    Comments = note
SYMMETRY Symmetry
CHECK_DEADLOCK FALSE
INVARIANTS
    OneFact
    Forgettable
    EmbedderSound
    OwnersKeep
    HostsServed
