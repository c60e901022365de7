CONSTANTS
  word1 = word1
  word2 = word2
  Words <- MCWords
  Ruby <- MCRuby
  Surface <- MCSurface
  Content <- MCWords
  Valid <- MCWords
  ClauseBreak <- MCClauseBreak
  Candidates <- MCCandidates
  MaxCount = 2
  CountMax = 3
  Expiry = 2
  HalfLife = 1
  MaxDay = 2
  MaxOps = 7
SPECIFICATION MCSpec
INVARIANTS
  IndexesAgree
  NothingStale
  UsesCountedOnce
  ForgottenStaysForgotten
PROPERTIES
  CommitKeepsAll
CHECK_DEADLOCK FALSE
