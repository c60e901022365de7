SPECIFICATION Spec
CONSTANTS
    Tokens <- MCTokens
    Limit = 5
    Capacity = 5
    Connections = {"c1", "c2"}
    SessionsOf <- MCSessionsOf
    MaxRequests = 2
    Targets <- MCTargets
    LeftContexts <- MCLeft
    AcceptedPredictions <- MCAccepted
    Letters = {"n"}
    Nexts <- MCNexts
    Kana = {"y"}
    Dictionary <- MCDictionary
    Vocabulary <- MCVocabulary
    Models <- MCModels
    Logits <- MCLogits
    Ln <- MCLn
    HalfGap = 2
    QuarterGap = 3
    InferenceLimit = 4
    PredictionLength = 1
    EvaluationCapacity = 2
    RichModes = {TRUE, FALSE}
    Separated = TRUE
    Predictive = TRUE
    Personalized = FALSE
    Shift <- MCShift
    Faults = {FALSE}
INVARIANTS
    MemoryFollowsTokens
    VerdictsAreFresh
    PassedIsTolerated
    FixedPrefixKept
PROPERTIES
    EveryRequestEnds
CHECK_DEADLOCK FALSE
