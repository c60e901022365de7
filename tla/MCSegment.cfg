SPECIFICATION Spec
CONSTANTS
    Tables <- MCTables
    Katakana <- MCKatakana
    Ascii = {"a", "n"}
    DirectTypos <- MCDirectTypos
    RomanTypos <- MCRomanTypos
    RomanWeight = 7
    MaximumPenalty = 21
    Dictionary <- MCDictionary
    Connection <- MCConnection
    MeaningCost <- MCMeaningCost
    UnusableRight <- MCUnusable
    Pieces <- MCPieces
    MaxEdits = 3
    NBest = 2
    LeadingCount = 2
    FirstCount = 2
    PredictionCount = 1
    UserDictionary <- MCUser
    Shortcuts <- MCShortcuts
    Learnable <- MCLearnable
    Remembered <- MCRemembered
    TypoModes = {FALSE, TRUE}
    ModelPrefixes <- MCModelPrefixes
    Rankings = {2}
    Generated <- MCGenerated
    PredictionModes = {"manual"}
INVARIANT
    SegmentLeavesTheRest
CHECK_DEADLOCK FALSE
