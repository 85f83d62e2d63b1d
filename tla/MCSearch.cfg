\* Candidates are over-fetched twofold.
SPECIFICATION SearchSpec
CONSTANTS
    Entries <- MCEntries
    Shelves = {"work", "home"}
    Agents = {"a"}
    Texts <- MCTexts
    Author <- MCAuthor
    Queries = {"q", "sub"}
    Strict <- MCStrict
    Rank <- MCRank
    Cosine <- MCCosine
    One = 4
    Restates <- MCRestates
    Boost <- MCBoost
    Prior <- MCPrior
    Sensitivity <- MCSensitivity
    Relevance <- MCRelevance
    Cost <- MCCost
    KeywordWeight = 1
    VectorWeight = 4
    MinVectorScore = 1
    RerankPoolMult = 1
    OverfetchFactor = 2
    Requests <- MCRequests
    StartText <- MCStartText
    StartShelf <- MCStartShelf
    MaxEdits = 1
    MaxFailures = 1
CHECK_DEADLOCK FALSE
PROPERTIES
    AnswersFully
    AnswersAsAsked
