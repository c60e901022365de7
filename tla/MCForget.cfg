CONSTANTS
  word1 = word1
  word2 = word2
  Words <- MCWords
  Ruby <- MCRuby
  Surface <- MCSurface
  Content <- MCWords
  Valid <- MCWords
  ClauseBreak <- MCClauseBreak
  Candidates <- MCCandidates
  MaxCount = 2
  CountMax = 3
  Expiry = 2
  HalfLife = 1
  MaxDay = 2
  MaxOps = 7
SPECIFICATION MCSpec
INVARIANT
  ForgetsWholeCandidate
CHECK_DEADLOCK FALSE
